---------------------------- MODULE SerialWorkers ----------------------------
(***************************************************************************)
(* What a -pN container holds: the last worker's header, then the bodies   *)
(* of the workers in the order 1..N-1, 0, each compressed as if it ran     *)
(* alone after the ones before it (RunAddStoreContainer's one-thread       *)
(* path).  The one thing a worker inherits is whether an earlier one ran   *)
(* the dictionary transform (quirk 56).                                    *)
(***************************************************************************)
EXTENDS Integers, Sequences

CONSTANTS Workers,         \* the number of worker streams, N
          ScriptChoices    \* the inputs: the blocks of each worker's range

\* A block of a stream as the compressor meets it: whether the text detector looks
\* at the dictionary tables, and whether the dictionary transform then runs, when
\* the tables are still empty and when they are filled.  A stream that cannot be
\* written ends in a block that fails or throws.
Block == [looks : BOOLEAN, whenEmpty : BOOLEAN, whenFilled : BOOLEAN,
          ends : {"no", "fail", "throw"}]

\* A block as it is written: which block, and what the detector saw.
Token == [block : Nat, saw : BOOLEAN]

Positions == 0 .. Workers - 1

\* The processing order P = [1..N-1, 0].
Worker(i) == IF i = Workers - 1 THEN 0 ELSE i + 1

VARIABLES scripts,    \* the blocks of each worker's range, in order
          file,       \* what has been written
          lines,      \* the workers whose console lines have been shown
          pos,        \* how many workers are through
          filled,     \* one of them ran the dictionary transform
          outcome     \* "running", then how the container ended

vars == <<scripts, file, lines, pos, filled, outcome>>

\* A stream is written up to its first block that fails.
WrittenUpTo(blocks, n) ==
    /\ \A m \in 1..n : blocks[m].ends = "no"
    /\ n < Len(blocks) => blocks[n + 1].ends # "no"

EndOf(blocks, n) == IF n < Len(blocks) THEN blocks[n + 1].ends ELSE "no"

\* The tables are filled by the first block whose transform runs over empty ones, and
\* stay so.
FilledAfter(blocks, n, inherits) == inherits \/ \E m \in 1..n : blocks[m].whenEmpty

\* What n blocks of a stream are compressed to.
Compressed(blocks, n, inherits) ==
    [m \in 1..n |->
        [block |-> m, saw |-> blocks[m].looks /\ FilledAfter(blocks, m - 1, inherits)]]

Init ==
    /\ scripts \in ScriptChoices
    /\ file = <<>> /\ lines = <<>>
    /\ pos = 0 /\ filled = FALSE
    /\ outcome = "running"

Header ==
    /\ outcome = "running" /\ file = <<>>
    /\ file' = <<[worker |-> Workers - 1, part |-> "header"]>>
    /\ UNCHANGED <<scripts, lines, pos, filled, outcome>>

\* The next worker's stream, whole: its lines, then its body or its failure.
Stream ==
    LET k == Worker(pos)
        blocks == scripts[k]
    IN /\ outcome = "running" /\ file # <<>> /\ pos < Workers
       /\ lines' = Append(lines, k)
       /\ pos' = pos + 1
       /\ \E n \in 0..Len(blocks) :
             /\ WrittenUpTo(blocks, n)
             /\ filled' = FilledAfter(blocks, n, filled)
             /\ IF EndOf(blocks, n) = "no"
                THEN /\ file' = Append(file, [worker |-> k,
                                              part |-> Compressed(blocks, n, filled)])
                     /\ UNCHANGED outcome
                ELSE outcome' = EndOf(blocks, n) /\ UNCHANGED file
       /\ UNCHANGED scripts

Finish ==
    /\ outcome = "running" /\ pos = Workers
    /\ outcome' = "ok"
    /\ UNCHANGED <<scripts, file, lines, pos, filled>>

\* Starting the threads may fail; nothing more is written then.
GiveUp ==
    /\ outcome = "running" /\ pos = 0
    /\ outcome' = "nothreads"
    /\ UNCHANGED <<scripts, file, lines, pos, filled>>

Next == Header \/ Stream \/ Finish \/ GiveUp

Spec == Init /\ [][Next]_vars
=============================================================================
