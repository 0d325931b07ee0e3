----------------------------- MODULE WorkerPool -----------------------------
(***************************************************************************)
(* RunWorkersConcurrently (sfx_archive.cpp): the worker streams of a -pN   *)
(* container compressed by a pool of threads, with the archive of the      *)
(* one-thread run.  Jobs are handed out in the processing order P; the     *)
(* main thread writes each body once the ones before it are written.       *)
(* What a worker inherits of the dictionary tables (quirk 56) is settled   *)
(* at its first look: it waits until a job before it has filled them or    *)
(* all of those are done.                                                  *)
(*                                                                         *)
(* Jobs are named by their position in P.  A section under chain_mu or     *)
(* done_mu is one action, the notify after it another.                     *)
(***************************************************************************)
EXTENDS Integers, Sequences, SequencesExt, FiniteSets

CONSTANTS Workers,    \* the number of worker streams
          Pool,       \* the pool's threads
          ScriptChoices,   \* the inputs a run may compress: the blocks of each range
          NoJob

Positions == 0 .. Workers - 1

Worker(i) == IF i = Workers - 1 THEN 0 ELSE i + 1

Block == [looks : BOOLEAN, whenEmpty : BOOLEAN, whenFilled : BOOLEAN,
          ends : {"no", "fail", "throw"}]

Token == [block : Nat, saw : BOOLEAN]

ASSUME PoolAssumption ==
    /\ Workers \in Nat \ {0, 1}
    /\ ScriptChoices \subseteq [Positions -> Seq(Block)]
    /\ NoJob \notin Positions

VARIABLES scripts,    \* the blocks of each worker's range
          next,       \* the next position to hand out
          tpc, job,   \* each pool thread: where it is, and its job
          at,         \* the block it is at
          resolved, built, didSet,   \* the DictTableView of each job
          setAt, doneAt,             \* set_at and done_at, by position
          chainAsleep,               \* threads asleep on chain_cv
          body, ends, finished,      \* Job: body, how it ended, finished
          mpc, mi,    \* the main thread, and the position it is at
          mAsleep,    \* it sleeps on done_cv
          started,    \* the threads it has started
          file, lines,
          outcome,    \* what the call returns or throws
          processFilled  \* g_word_tables_built

jvars == <<resolved, built, didSet, body, ends>>
mvars == <<mpc, mi, mAsleep, started, file, lines, outcome, processFilled, scripts>>
vars == <<next, tpc, job, at, jvars, setAt, doneAt, chainAsleep, finished, mvars>>

TypeOK ==
    /\ scripts \in ScriptChoices
    /\ next \in Nat
    /\ tpc \in [Pool -> {"off", "take", "block", "resolve", "marknotify", "unlist",
                         "chainnotify", "finish", "donenotify", "exit"}]
    /\ job \in [Pool -> Positions \cup {NoJob}]
    /\ at \in [Pool -> Nat]
    /\ resolved \in [Positions -> BOOLEAN] /\ built \in [Positions -> BOOLEAN]
    /\ didSet \in [Positions -> BOOLEAN]
    /\ setAt \in [Positions -> BOOLEAN] /\ doneAt \in [Positions -> BOOLEAN]
    /\ chainAsleep \subseteq Pool
    /\ body \in [Positions -> Seq(Token)]
    /\ ends \in [Positions -> {"no", "ok", "fail", "throw"}]
    /\ finished \in [Positions -> BOOLEAN]
    /\ mpc \in {"header", "spawn", "await", "join", "publish", "end"}
    /\ mi \in 0..Workers
    /\ mAsleep \in BOOLEAN
    /\ started \subseteq Pool
    /\ lines \in Seq(Positions)
    /\ outcome \in {"running", "ok", "fail", "throw", "nothreads"}
    /\ processFilled \in BOOLEAN

\* The first job inherits nothing; the others settle it at their first look.
Init ==
    /\ scripts \in ScriptChoices
    /\ next = 0
    /\ tpc = [t \in Pool |-> "off"] /\ job = [t \in Pool |-> NoJob]
    /\ at = [t \in Pool |-> 1]
    /\ resolved = [i \in Positions |-> i = 0]
    /\ built = [i \in Positions |-> FALSE] /\ didSet = [i \in Positions |-> FALSE]
    /\ setAt = [i \in Positions |-> FALSE] /\ doneAt = [i \in Positions |-> FALSE]
    /\ chainAsleep = {}
    /\ body = [i \in Positions |-> <<>>] /\ ends = [i \in Positions |-> "no"]
    /\ finished = [i \in Positions |-> FALSE]
    /\ mpc = "header" /\ mi = 0 /\ mAsleep = FALSE /\ started = {}
    /\ file = <<>> /\ lines = <<>> /\ outcome = "running"
    /\ processFilled = FALSE

Goto(t, place) == tpc' = [tpc EXCEPT ![t] = place]

-----------------------------------------------------------------------------
(* A pool thread *)

Take(t) ==
    /\ tpc[t] = "take"
    /\ next' = next + 1
    /\ IF next < Workers
       THEN /\ Goto(t, "block")
            /\ job' = [job EXCEPT ![t] = next] /\ at' = [at EXCEPT ![t] = 1]
       ELSE /\ Goto(t, "exit")
            /\ UNCHANGED <<job, at>>
    /\ UNCHANGED <<jvars, setAt, doneAt, chainAsleep, finished, mvars>>

Script(t) == scripts[Worker(job[t])]

\* WordTablesBuilt for a view that is not settled yet.
LookFirst(t) ==
    /\ tpc[t] = "block" /\ at[t] <= Len(Script(t))
    /\ Script(t)[at[t]].ends = "no"
    /\ Script(t)[at[t]].looks /\ ~resolved[job[t]]
    /\ Goto(t, "resolve")
    /\ UNCHANGED <<next, job, at, jvars, setAt, doneAt, chainAsleep, finished, mvars>>

Before(i) == 0 .. i - 1

\* Mutant: it is enough that no running job before it has filled the tables.
ResolveEarly(t) ==
    LET i == job[t]
    IN /\ tpc[t] = "resolve" /\ t \notin chainAsleep
       /\ built' = [built EXCEPT ![i] = \E p \in Before(i) : setAt[p]]
       /\ resolved' = [resolved EXCEPT ![i] = TRUE]
       /\ Goto(t, "block")
       /\ UNCHANGED <<next, job, at, didSet, body, ends, setAt, doneAt, chainAsleep,
                      finished, mvars>>

\* resolve(): an earlier job has filled the tables, or all of them are done.
Resolve(t) ==
    LET i == job[t]
        set == \E p \in Before(i) : setAt[p]
    IN /\ tpc[t] = "resolve" /\ t \notin chainAsleep
       /\ set \/ \A p \in Before(i) : doneAt[p]
       /\ built' = [built EXCEPT ![i] = set]
       /\ resolved' = [resolved EXCEPT ![i] = TRUE]
       /\ Goto(t, "block")
       /\ UNCHANGED <<next, job, at, didSet, body, ends, setAt, doneAt, chainAsleep,
                      finished, mvars>>

ResolveSleep(t) ==
    LET i == job[t]
    IN /\ tpc[t] = "resolve" /\ t \notin chainAsleep
       /\ \A p \in Before(i) : ~setAt[p]
       /\ \E p \in Before(i) : ~doneAt[p]
       /\ chainAsleep' = chainAsleep \cup {t}
       /\ UNCHANGED <<next, tpc, job, at, jvars, setAt, doneAt, finished, mvars>>

ChainWakes(t) ==
    /\ t \in chainAsleep
    /\ chainAsleep' = chainAsleep \ {t}
    /\ UNCHANGED <<next, tpc, job, at, jvars, setAt, doneAt, finished, mvars>>

\* A block is compressed: the detector's answer decides whether the transform
\* runs, and MarkWordTablesBuilt sets the view and, the first time, set_at.
Compress(t) ==
    LET i == job[t]
        b == Script(t)[at[t]]
        saw == b.looks /\ built[i]
        marks == IF saw THEN b.whenFilled ELSE b.whenEmpty
    IN /\ tpc[t] = "block" /\ at[t] <= Len(Script(t))
       /\ b.ends = "no" /\ (b.looks => resolved[i])
       /\ body' = [body EXCEPT ![i] = Append(@, [block |-> at[t], saw |-> saw])]
       /\ at' = [at EXCEPT ![t] = @ + 1]
       /\ built' = [built EXCEPT ![i] = @ \/ marks]
       /\ resolved' = [resolved EXCEPT ![i] = @ \/ marks]
       /\ didSet' = [didSet EXCEPT ![i] = @ \/ marks]
       /\ setAt' = [setAt EXCEPT ![i] = @ \/ marks]
       /\ Goto(t, IF marks /\ ~didSet[i] THEN "marknotify" ELSE "block")
       /\ UNCHANGED <<next, job, ends, doneAt, chainAsleep, finished, mvars>>

MarkNotify(t) ==
    /\ tpc[t] = "marknotify"
    /\ chainAsleep' = {}
    /\ Goto(t, "block")
    /\ UNCHANGED <<next, job, at, jvars, setAt, doneAt, finished, mvars>>

\* How the stream ends at the block the thread is at, if it does.
EndsHere(t) == IF at[t] > Len(Script(t)) THEN "ok" ELSE Script(t)[at[t]].ends

\* LegacyWriteStoreStream returns or throws; the engines are released.
EndStream(t) ==
    /\ tpc[t] = "block" /\ EndsHere(t) # "no"
    /\ ends' = [ends EXCEPT ![job[t]] = EndsHere(t)]
    /\ Goto(t, "unlist")
    /\ UNCHANGED <<next, job, at, resolved, built, didSet, body, setAt, doneAt,
                   chainAsleep, finished, mvars>>

\* Mutant: a job whose stream failed does not say that it is done.
MarkDoneOnSuccess(t) ==
    /\ tpc[t] = "unlist"
    /\ doneAt' = [doneAt EXCEPT ![job[t]] = ends[job[t]] = "ok"]
    /\ Goto(t, "chainnotify")
    /\ UNCHANGED <<next, job, at, jvars, setAt, chainAsleep, finished, mvars>>

MarkDone(t) ==
    /\ tpc[t] = "unlist"
    /\ doneAt' = [doneAt EXCEPT ![job[t]] = TRUE]
    /\ Goto(t, "chainnotify")
    /\ UNCHANGED <<next, job, at, jvars, setAt, chainAsleep, finished, mvars>>

ChainNotify(t) ==
    /\ tpc[t] = "chainnotify"
    /\ chainAsleep' = {}
    /\ Goto(t, "finish")
    /\ UNCHANGED <<next, job, at, jvars, setAt, doneAt, finished, mvars>>

MarkFinished(t) ==
    /\ tpc[t] = "finish"
    /\ finished' = [finished EXCEPT ![job[t]] = TRUE]
    /\ Goto(t, "donenotify")
    /\ UNCHANGED <<next, job, at, jvars, setAt, doneAt, chainAsleep, mvars>>

DoneNotify(t) ==
    /\ tpc[t] = "donenotify"
    /\ mAsleep' = FALSE
    /\ job' = [job EXCEPT ![t] = NoJob]
    /\ Goto(t, "take")
    /\ UNCHANGED <<next, at, jvars, setAt, doneAt, chainAsleep, finished,
                   mpc, mi, started, file, lines, outcome, processFilled, scripts>>

-----------------------------------------------------------------------------
(* The main thread *)

WriteHeader ==
    /\ mpc = "header"
    /\ file' = <<[worker |-> Workers - 1, part |-> "header"]>>
    /\ mpc' = "spawn"
    /\ UNCHANGED <<next, tpc, job, at, jvars, setAt, doneAt, chainAsleep, finished,
                   mi, mAsleep, started, lines, outcome, processFilled, scripts>>

Spawn(t) ==
    /\ mpc = "spawn" /\ t \notin started
    /\ started' = started \cup {t}
    /\ Goto(t, "take")
    /\ mpc' = IF started' = Pool THEN "await" ELSE "spawn"
    /\ UNCHANGED <<next, job, at, jvars, setAt, doneAt, chainAsleep, finished,
                   mi, mAsleep, file, lines, outcome, processFilled, scripts>>

\* A thread that cannot be started throws; the ones that run are joined.
SpawnThrows ==
    /\ mpc = "spawn"
    /\ outcome' = "nothreads"
    /\ mpc' = "join"
    /\ UNCHANGED <<next, tpc, job, at, jvars, setAt, doneAt, chainAsleep, finished,
                   mi, mAsleep, started, file, lines, processFilled, scripts>>

AwaitSleep ==
    /\ mpc = "await" /\ mi < Workers /\ ~mAsleep /\ ~finished[mi]
    /\ mAsleep' = TRUE
    /\ UNCHANGED <<next, tpc, job, at, jvars, setAt, doneAt, chainAsleep, finished,
                   mpc, mi, started, file, lines, outcome, processFilled, scripts>>

MainWakes ==
    /\ mAsleep
    /\ mAsleep' = FALSE
    /\ UNCHANGED <<next, tpc, job, at, jvars, setAt, doneAt, chainAsleep, finished,
                   mpc, mi, started, file, lines, outcome, processFilled, scripts>>

\* Mutant: whichever job has finished is written next.
WriteAnyBody ==
    \E i \in Positions :
        LET k == Worker(i)
        IN /\ mpc = "await" /\ mi < Workers /\ ~mAsleep /\ finished[i]
           /\ k \notin ToSet(lines)
           /\ lines' = Append(lines, k)
           /\ mi' = mi + 1
           /\ file' = IF ends[i] = "ok" THEN Append(file, [worker |-> k, part |-> body[i]])
                      ELSE file
           /\ UNCHANGED <<mpc, outcome>>
           /\ UNCHANGED <<next, tpc, job, at, jvars, setAt, doneAt, chainAsleep, finished,
                          mAsleep, started, processFilled, scripts>>

\* The job's lines are shown, and its body written if it has one: a failure is
\* the first in P order.
WriteBody ==
    LET k == Worker(mi)
    IN /\ mpc = "await" /\ mi < Workers /\ ~mAsleep /\ finished[mi]
       /\ lines' = Append(lines, k)
       /\ mi' = mi + 1
       /\ IF ends[mi] = "ok"
          THEN /\ file' = Append(file, [worker |-> k, part |-> body[mi]])
               /\ UNCHANGED <<mpc, outcome>>
          ELSE /\ outcome' = ends[mi] /\ mpc' = "join"
               /\ UNCHANGED file
       /\ UNCHANGED <<next, tpc, job, at, jvars, setAt, doneAt, chainAsleep, finished,
                      mAsleep, started, processFilled, scripts>>

WriteEnd ==
    /\ mpc = "await" /\ mi = Workers
    /\ outcome' = "ok"
    /\ mpc' = "join"
    /\ UNCHANGED <<next, tpc, job, at, jvars, setAt, doneAt, chainAsleep, finished,
                   mi, mAsleep, started, file, lines, processFilled, scripts>>

\* The Joiner; a throw from Spawn leaves the function from there.
Join ==
    /\ mpc = "join" /\ \A t \in started : tpc[t] = "exit"
    /\ mpc' = IF outcome = "nothreads" THEN "end" ELSE "publish"
    /\ UNCHANGED <<next, tpc, job, at, jvars, setAt, doneAt, chainAsleep, finished,
                   mi, mAsleep, started, file, lines, outcome, processFilled, scripts>>

Publish ==
    /\ mpc = "publish"
    /\ processFilled' = \E i \in Positions : setAt[i]
    /\ mpc' = "end"
    /\ UNCHANGED <<next, tpc, job, at, jvars, setAt, doneAt, chainAsleep, finished,
                   mi, mAsleep, started, file, lines, outcome, scripts>>

-----------------------------------------------------------------------------
Thread(t) ==
    \/ Take(t) \/ LookFirst(t) \/ Resolve(t) \/ ResolveSleep(t) \/ Compress(t)
    \/ MarkNotify(t) \/ EndStream(t) \/ MarkDone(t) \/ ChainNotify(t)
    \/ MarkFinished(t) \/ DoneNotify(t)

Main ==
    \/ WriteHeader \/ (\E t \in Pool : Spawn(t)) \/ SpawnThrows \/ AwaitSleep
    \/ WriteBody \/ WriteEnd \/ Join \/ Publish

Next ==
    \/ Main \/ MainWakes
    \/ \E t \in Pool : Thread(t) \/ ChainWakes(t)

Terminated == mpc = "end" /\ UNCHANGED vars

Spec == Init /\ [][Next \/ Terminated]_vars

\* The operating system runs every thread; a sleeper is only owed its notify.
FairSpec == Spec /\ WF_vars(Main) /\ \A t \in Pool : WF_vars(Thread(t))

-----------------------------------------------------------------------------
(* Properties *)

\* What a job inherits is what the one-thread run would have handed it: a view
\* settled as "filled" without the job's own doing has an earlier job that filled
\* the tables, and one settled as "empty" has only finished jobs before it, none of
\* which did; the latter can no longer change.
InheritsInOrder ==
    \A i \in Positions :
        resolved[i] /\ ~didSet[i] =>
            IF built[i] THEN \E p \in Before(i) : setAt[p]
            ELSE \A p \in Before(i) : doneAt[p] /\ ~setAt[p]

\* A job that has been written has filled the tables.
Filled == \E p \in Before(mi) : setAt[p]

\* The archive of the one-thread run: the same bytes and lines in the same order,
\* whatever the threads do, up to the same first failure.
Serial == INSTANCE SerialWorkers WITH
    pos <- mi,
    filled <- Filled

WritesSerialArchive == Serial!Spec

PoolDone == mpc = "end" /\ \A t \in started : tpc[t] = "exit"

\* The call comes to an end: no thread is left waiting for another.
PoolEnds == <>PoolDone
=============================================================================
