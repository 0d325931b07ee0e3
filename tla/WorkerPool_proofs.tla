-------------------------- MODULE WorkerPool_proofs --------------------------
(***************************************************************************)
(* For any number of worker streams and of threads, and for every input:   *)
(* what a job inherits is what the one-thread run hands it, and the        *)
(* archive is the one-thread run's (WorkerPool, SerialWorkers).            *)
(*                                                                         *)
(* The argument.  A job belongs to one thread from the moment it is handed *)
(* out, and is written by that thread alone until it is done (Owned).      *)
(* Together with what a job before it has marked, a job's own blocks tell  *)
(* whether its tables are filled (Views): the first block whose transform  *)
(* runs over empty tables fills them.  A block that looked at empty tables *)
(* was looked at when every job before it was done, so that the answer     *)
(* cannot become stale (Bodies).                                           *)
(***************************************************************************)
EXTENDS WorkerPool, TLAPS

\* What the job at a position compresses.
Blocks(i) == scripts[Worker(i)]

Running == {"block", "resolve", "marknotify"}

\* A thread and its job.
Owned ==
    \A t \in Pool :
        /\ t \in started <=> tpc[t] # "off"
        /\ tpc[t] \in {"off", "take", "exit"} <=> job[t] = NoJob
        /\ job[t] # NoJob =>
              /\ job[t] < next
              /\ at[t] = Len(body[job[t]]) + 1
              /\ ends[job[t]] = "no" <=> tpc[t] \in Running
              /\ doneAt[job[t]] <=> tpc[t] \in {"chainnotify", "finish", "donenotify"}
              /\ finished[job[t]] <=> tpc[t] = "donenotify"
              /\ tpc[t] = "resolve" => ~resolved[job[t]]
        /\ \A u \in Pool : u # t /\ job[u] = job[t] => job[t] = NoJob

\* A job that has not been handed out is as it was made.
Untouched ==
    \A i \in Positions :
        i >= next =>
            /\ body[i] = <<>> /\ ends[i] = "no"
            /\ ~setAt[i] /\ ~doneAt[i] /\ ~finished[i] /\ ~didSet[i] /\ ~built[i]
            /\ resolved[i] <=> i = 0

\* A job is compressed block by block, up to the first that fails.
Streamed ==
    \A i \in Positions :
        /\ Len(body[i]) <= Len(Blocks(i))
        /\ \A m \in 1..Len(body[i]) : Blocks(i)[m].ends = "no"
        /\ ends[i] = "ok" => Len(body[i]) = Len(Blocks(i))
        /\ ends[i] \in {"fail", "throw"} =>
              /\ Len(body[i]) < Len(Blocks(i))
              /\ Blocks(i)[Len(body[i]) + 1].ends = ends[i]
        /\ doneAt[i] => ends[i] # "no"
        /\ finished[i] => doneAt[i]

\* A job before it has filled the tables; all of them are done.
Inherits(i) == \E p \in Before(i) : setAt[p]

AllDone(i) == \A p \in Before(i) : doneAt[p]

\* One of its own first blocks fills empty tables.
Own(i, n) == \E m \in 1..n : Blocks(i)[m].whenEmpty

Views ==
    \A i \in Positions :
        /\ setAt[i] <=> didSet[i]
        /\ didSet[i] => built[i]
        /\ built[i] => resolved[i] /\ (Own(i, Len(body[i])) \/ Inherits(i))
        /\ Own(i, Len(body[i])) => built[i] /\ (setAt[i] \/ Inherits(i))
        /\ resolved[i] /\ ~built[i] => ~Inherits(i) /\ AllDone(i)

\* What a block saw is what the one-thread run shows it, and stays so.
Bodies ==
    \A i \in Positions : \A m \in 1..Len(body[i]) :
        /\ body[i][m] = [block |-> m,
                         saw |-> Blocks(i)[m].looks /\ (Inherits(i) \/ Own(i, m - 1))]
        /\ Blocks(i)[m].looks => Inherits(i) \/ Own(i, m - 1) \/ AllDone(i)

\* The main thread writes finished jobs only, one after the other.
Written ==
    /\ file \in Seq([worker : Positions, part : {"header"} \cup Seq(Token)])
    /\ \A i \in Positions : i < mi => finished[i]
    /\ mpc = "header" <=> file = <<>>
    /\ outcome = "running" <=> mpc \in {"header", "spawn", "await"}
    /\ mpc \in {"header", "spawn"} => mi = 0

IInv == TypeOK /\ Owned /\ Untouched /\ Streamed /\ Views /\ Bodies /\ Written

-----------------------------------------------------------------------------
\* A position's worker and its blocks.
LEMMA BlocksType ==
    ASSUME TypeOK, NEW i \in Positions
    PROVE  Worker(i) \in Positions /\ Blocks(i) \in Seq(Block)
<1>1. Worker(i) \in Positions
  BY PoolAssumption DEF Worker, Positions
<1> QED
  BY <1>1, PoolAssumption DEF Blocks, TypeOK

\* A thread that is at work is at work on its own job.
LEMMA AtItsJob ==
    ASSUME TypeOK, Owned, NEW t \in Pool, tpc[t] \notin {"off", "take", "exit"}
    PROVE  /\ job[t] \in Positions /\ job[t] < next
           /\ at[t] = Len(body[job[t]]) + 1
           /\ ends[job[t]] = "no" <=> tpc[t] \in Running
           /\ doneAt[job[t]] <=> tpc[t] \in {"chainnotify", "finish", "donenotify"}
           /\ finished[job[t]] <=> tpc[t] = "donenotify"
           /\ tpc[t] = "resolve" => ~resolved[job[t]]
           /\ \A u \in Pool \ {t} : job[u] # job[t]
<1>1. job[t] # NoJob
  BY DEF Owned
<1>2. job[t] \in Positions
  BY <1>1 DEF TypeOK
<1> QED
  BY <1>1, <1>2 DEF Owned

\* The pool starts with the invariant.
LEMMA InitIInv == Init => IInv
<1> SUFFICES ASSUME Init PROVE IInv
  OBVIOUS
<1> USE PoolAssumption DEF Init
<1>1. TypeOK
  <2>1. /\ tpc \in [Pool -> {"off", "take", "block", "resolve", "marknotify", "unlist",
                             "chainnotify", "finish", "donenotify", "exit"}]
        /\ job \in [Pool -> Positions \cup {NoJob}] /\ at \in [Pool -> Nat]
    OBVIOUS
  <2>2. /\ resolved \in [Positions -> BOOLEAN] /\ built \in [Positions -> BOOLEAN]
        /\ didSet \in [Positions -> BOOLEAN]
        /\ setAt \in [Positions -> BOOLEAN] /\ doneAt \in [Positions -> BOOLEAN]
        /\ finished \in [Positions -> BOOLEAN]
    OBVIOUS
  <2>3. /\ body \in [Positions -> Seq(Token)]
        /\ ends \in [Positions -> {"no", "ok", "fail", "throw"}]
    OBVIOUS
  <2>4. /\ mi \in 0..Workers /\ lines \in Seq(Positions)
    OBVIOUS
  <2> QED  BY <2>1, <2>2, <2>3, <2>4 DEF TypeOK
<1>2. Owned /\ Untouched
  BY DEF Owned, Untouched, Positions
<1>3. \A i \in Positions : Before(i) \subseteq Positions
  BY DEF Positions, Before
<1>4. Streamed
  BY <1>1, BlocksType DEF Streamed
<1>5. Views
  <2> SUFFICES ASSUME NEW i \in Positions
               PROVE  ~Own(i, Len(body[i])) /\ ~Inherits(i) /\ (i = 0 => AllDone(i))
    BY DEF Views
  <2>1. Len(body[i]) = 0
    OBVIOUS
  <2>2. ~Own(i, Len(body[i]))
    BY <2>1 DEF Own
  <2>3. ~Inherits(i)
    BY <1>3 DEF Inherits
  <2>4. i = 0 => AllDone(i)
    BY DEF AllDone, Before
  <2> QED  BY <2>2, <2>3, <2>4
<1>6. Bodies
  BY DEF Bodies
<1>7. Written
  BY DEF Written, Positions
<1> QED
  BY <1>1, <1>2, <1>4, <1>5, <1>6, <1>7 DEF IInv

-----------------------------------------------------------------------------
(* Types *)

\* The types are kept by every step (RunWorkersConcurrently).
LEMMA TypeStep ==
    ASSUME TypeOK, Owned, Streamed, [Next \/ Terminated]_vars
    PROVE  TypeOK'
<1> USE PoolAssumption DEF TypeOK, Goto
<1>1. CASE UNCHANGED vars
  BY <1>1 DEF vars, jvars, mvars
<1>2. CASE WriteHeader \/ SpawnThrows \/ AwaitSleep \/ MainWakes \/ WriteEnd \/ Join \/ Publish
  BY <1>2 DEF WriteHeader, SpawnThrows, AwaitSleep, MainWakes, WriteEnd, Join, Publish, jvars
<1>3. CASE WriteBody
  <2>1. Worker(mi) \in Positions /\ mi \in Positions
    BY <1>3 DEF WriteBody, Worker, Positions
  <2>2. ends[mi] \in {"ok", "fail", "throw"}
    BY <1>3, <2>1 DEF WriteBody, Streamed
  <2>3. /\ lines' \in Seq(Positions) /\ mi' \in 0..Workers
        /\ outcome' \in {"running", "ok", "fail", "throw", "nothreads"}
        /\ mpc' \in {"header", "spawn", "await", "join", "publish", "end"}
    <3>1. lines' = Append(lines, Worker(mi)) /\ mi' = mi + 1 /\ mi < Workers
      BY <1>3 DEF WriteBody
    <3>2. \/ mpc' = mpc /\ outcome' = outcome
          \/ mpc' = "join" /\ outcome' = ends[mi]
      BY <1>3 DEF WriteBody
    <3> QED  BY <2>1, <2>2, <3>1, <3>2
  <2> QED  BY <1>3, <2>3 DEF WriteBody, jvars
<1>4. ASSUME NEW t \in Pool, Spawn(t) PROVE TypeOK'
  BY <1>4 DEF Spawn, jvars
<1>5. ASSUME NEW t \in Pool, Take(t) PROVE TypeOK'
  <2>1. UNCHANGED <<jvars, setAt, doneAt, chainAsleep, finished, mvars>>
    BY <1>5 DEF Take
  <2>2. CASE next < Workers
    <3>1. next \in Positions
      BY <2>2 DEF Positions
    <3>2. next' = next + 1 /\ tpc' = [tpc EXCEPT ![t] = "block"]
          /\ job' = [job EXCEPT ![t] = next] /\ at' = [at EXCEPT ![t] = 1]
      BY <1>5, <2>2 DEF Take
    <3> QED  BY <2>1, <3>1, <3>2 DEF jvars, mvars
  <2>3. CASE ~(next < Workers)
    <3>1. next' = next + 1 /\ tpc' = [tpc EXCEPT ![t] = "exit"] /\ job' = job /\ at' = at
      BY <1>5, <2>3 DEF Take
    <3> QED  BY <2>1, <3>1 DEF jvars, mvars
  <2> QED  BY <2>2, <2>3
<1>6. ASSUME NEW t \in Pool, LookFirst(t) \/ Resolve(t) \/ ResolveSleep(t) \/ ChainWakes(t)
      PROVE  TypeOK'
  BY <1>6 DEF LookFirst, Resolve, ResolveSleep, ChainWakes, jvars, mvars
<1>7. ASSUME NEW t \in Pool, Compress(t) PROVE TypeOK'
  <2>1. UNCHANGED <<next, job, ends, doneAt, chainAsleep, finished, mvars>>
    BY <1>7 DEF Compress
  <2>2. job[t] \in Positions /\ tpc[t] = "block"
    BY <1>7 DEF Compress, Owned
  <2> DEFINE i == job[t]
             b == Script(t)[at[t]]
             saw == b.looks /\ built[i]
             marks == IF saw THEN b.whenFilled ELSE b.whenEmpty
  <2>3. /\ body' = [body EXCEPT ![i] = Append(@, [block |-> at[t], saw |-> saw])]
        /\ at' = [at EXCEPT ![t] = @ + 1]
        /\ built' = [built EXCEPT ![i] = @ \/ marks]
        /\ resolved' = [resolved EXCEPT ![i] = @ \/ marks]
        /\ didSet' = [didSet EXCEPT ![i] = @ \/ marks]
        /\ setAt' = [setAt EXCEPT ![i] = @ \/ marks]
        /\ tpc' = [tpc EXCEPT ![t] = IF marks /\ ~didSet[i] THEN "marknotify" ELSE "block"]
    BY <1>7 DEF Compress
  <2>4. [block |-> at[t], saw |-> saw] \in Token
    BY DEF Token
  <2> HIDE DEF saw, marks, i
  <2>5. body' \in [Positions -> Seq(Token)]
    BY <2>2, <2>3, <2>4 DEF i
  <2>6. /\ at' \in [Pool -> Nat]
        /\ tpc' \in [Pool -> {"off", "take", "block", "resolve", "marknotify", "unlist",
                              "chainnotify", "finish", "donenotify", "exit"}]
    BY <2>3
  <2>7. /\ resolved' \in [Positions -> BOOLEAN] /\ built' \in [Positions -> BOOLEAN]
        /\ didSet' \in [Positions -> BOOLEAN] /\ setAt' \in [Positions -> BOOLEAN]
    BY <2>2, <2>3 DEF i
  <2> QED  BY <2>1, <2>5, <2>6, <2>7 DEF mvars
<1>8. ASSUME NEW t \in Pool, EndStream(t) PROVE TypeOK'
  <2>1. UNCHANGED <<next, job, at, resolved, built, didSet, body, setAt, doneAt,
                    chainAsleep, finished, mvars>>
    BY <1>8 DEF EndStream
  <2>2. job[t] \in Positions /\ at[t] = Len(body[job[t]]) + 1
    BY <1>8, AtItsJob DEF EndStream
  <2>3. EndsHere(t) \in {"no", "ok", "fail", "throw"}
    <3>1. Script(t) \in Seq(Block)
      BY <2>2, BlocksType DEF Script, Blocks
    <3>2. Len(body[job[t]]) \in Nat
      BY <2>2
    <3>3. at[t] <= Len(Script(t)) => Script(t)[at[t]] \in Block
      BY <2>2, <3>1, <3>2
    <3> QED  BY <3>1, <3>3, <2>2, <3>2 DEF EndsHere, Block
  <2>4. ends' = [ends EXCEPT ![job[t]] = EndsHere(t)] /\ tpc' = [tpc EXCEPT ![t] = "unlist"]
    BY <1>8 DEF EndStream
  <2> QED  BY <2>1, <2>3, <2>4 DEF mvars
<1>9. ASSUME NEW t \in Pool, MarkNotify(t) \/ ChainNotify(t) \/ DoneNotify(t) PROVE TypeOK'
  BY <1>9 DEF MarkNotify, ChainNotify, DoneNotify, jvars, mvars
<1>10. ASSUME NEW t \in Pool, MarkDone(t) \/ MarkFinished(t) PROVE TypeOK'
  BY <1>10 DEF MarkDone, MarkFinished, jvars, mvars
<1> QED
  BY <1>1, <1>2, <1>3, <1>4, <1>5, <1>6, <1>7, <1>8, <1>9, <1>10
     DEF Next, Main, Thread, Terminated

-----------------------------------------------------------------------------
(* Who owns what *)

\* A thread at work that stays at work, on its own job.
LEMMA AtWork ==
    ASSUME TypeOK, Owned, Untouched, NEW t \in Pool,
           tpc[t] \notin {"off", "take", "exit"}, tpc'[t] \notin {"off", "take", "exit"},
           next' = next, job' = job, started' = started,
           \A u \in Pool \ {t} : tpc'[u] = tpc[u] /\ at'[u] = at[u],
           \A i \in Positions \ {job[t]} :
              /\ body'[i] = body[i] /\ ends'[i] = ends[i] /\ doneAt'[i] = doneAt[i]
              /\ finished'[i] = finished[i] /\ setAt'[i] = setAt[i]
              /\ didSet'[i] = didSet[i] /\ built'[i] = built[i] /\ resolved'[i] = resolved[i],
           at'[t] = Len(body'[job[t]]) + 1,
           ends'[job[t]] = "no" <=> tpc'[t] \in Running,
           doneAt'[job[t]] <=> tpc'[t] \in {"chainnotify", "finish", "donenotify"},
           finished'[job[t]] <=> tpc'[t] = "donenotify",
           tpc'[t] = "resolve" => ~resolved'[job[t]]
    PROVE  Owned' /\ Untouched'
<1>1. job[t] \in Positions /\ job[t] < next /\ \A u \in Pool \ {t} : job[u] # job[t]
  BY AtItsJob
<1>2. Owned'
  <2> SUFFICES ASSUME NEW u \in Pool
               PROVE /\ u \in started <=> tpc'[u] # "off"
                     /\ tpc'[u] \in {"off", "take", "exit"} <=> job[u] = NoJob
                     /\ job[u] # NoJob =>
                          /\ job[u] < next
                          /\ at'[u] = Len(body'[job[u]]) + 1
                          /\ ends'[job[u]] = "no" <=> tpc'[u] \in Running
                          /\ doneAt'[job[u]] <=> tpc'[u] \in {"chainnotify", "finish", "donenotify"}
                          /\ finished'[job[u]] <=> tpc'[u] = "donenotify"
                          /\ tpc'[u] = "resolve" => ~resolved'[job[u]]
                     /\ \A v \in Pool : v # u /\ job[v] = job[u] => job[u] = NoJob
    BY DEF Owned
  <2>1. CASE u = t
    BY <1>1, <2>1, PoolAssumption DEF Owned
  <2>2. CASE u # t
    <3>1. job[u] # NoJob => job[u] \in Positions \ {job[t]}
      BY <1>1, <2>2 DEF TypeOK
    <3> QED  BY <2>2, <3>1 DEF Owned
  <2> QED  BY <2>1, <2>2
<1>3. Untouched'
  <2>1. \A i \in Positions : i >= next => i # job[t]
    BY <1>1 DEF TypeOK, Positions
  <2> QED  BY <2>1 DEF Untouched
<1> QED
  BY <1>2, <1>3

\* The steps that change no job.
LEMMA ScheduleStep ==
    ASSUME TypeOK, Owned, Untouched, NEW t \in Pool,
           \/ Spawn(t) \/ Take(t) \/ LookFirst(t) \/ ResolveSleep(t) \/ ChainWakes(t)
           \/ MarkNotify(t) \/ ChainNotify(t) \/ DoneNotify(t)
    PROVE  Owned' /\ Untouched' /\ UNCHANGED <<jvars, setAt, doneAt, finished, scripts>>
<1> USE PoolAssumption DEF Goto
<1>1. UNCHANGED <<jvars, setAt, doneAt, finished, scripts>>
  BY DEF Spawn, Take, LookFirst, ResolveSleep, ChainWakes, MarkNotify, ChainNotify, DoneNotify,
         mvars
<1>2. CASE Spawn(t)
  <2>1. /\ tpc[t] = "off" /\ tpc' = [tpc EXCEPT ![t] = "take"] /\ started' = started \cup {t}
        /\ next' = next /\ job' = job /\ at' = at
    BY <1>2 DEF Spawn, Owned
  <2>2. Owned'
    BY <1>1, <2>1 DEF TypeOK, Owned, Running, jvars
  <2>3. Untouched'
    BY <1>1, <2>1 DEF Untouched, jvars
  <2> QED  BY <1>1, <2>2, <2>3
<1>3. CASE Take(t)
  <2>1. started' = started /\ tpc[t] = "take" /\ job[t] = NoJob /\ next' = next + 1
    BY <1>3 DEF Take, mvars, Owned
  <2>2. CASE next < Workers
    <3>1. /\ tpc' = [tpc EXCEPT ![t] = "block"] /\ job' = [job EXCEPT ![t] = next]
          /\ at' = [at EXCEPT ![t] = 1] /\ next \in Positions /\ next # NoJob
      BY <1>3, <2>2 DEF Take, TypeOK, Positions
    <3>2. /\ body[next] = <<>> /\ ends[next] = "no" /\ ~doneAt[next] /\ ~finished[next]
      BY <3>1 DEF Untouched, TypeOK
    <3>3. ASSUME NEW u \in Pool, job[u] # NoJob
          PROVE  job[u] \in Positions /\ job[u] < next /\ job[u] # next
      BY <3>3 DEF TypeOK, Owned, Positions
    <3>4. Owned'
      <4> SUFFICES ASSUME NEW u \in Pool
                   PROVE /\ u \in started <=> tpc'[u] # "off"
                         /\ tpc'[u] \in {"off", "take", "exit"} <=> job'[u] = NoJob
                         /\ job'[u] # NoJob =>
                              /\ job'[u] < next + 1
                              /\ at'[u] = Len(body[job'[u]]) + 1
                              /\ ends[job'[u]] = "no" <=> tpc'[u] \in Running
                              /\ doneAt[job'[u]]
                                    <=> tpc'[u] \in {"chainnotify", "finish", "donenotify"}
                              /\ finished[job'[u]] <=> tpc'[u] = "donenotify"
                              /\ tpc'[u] = "resolve" => ~resolved[job'[u]]
                         /\ \A v \in Pool : v # u /\ job'[v] = job'[u] => job'[u] = NoJob
        BY <1>1, <2>1 DEF Owned, jvars
      <4>1. CASE u = t
        <5>1. tpc'[u] = "block" /\ job'[u] = next /\ at'[u] = 1
          BY <3>1, <4>1 DEF TypeOK
        <5>2. \A v \in Pool : v # u => job'[v] # next
          BY <3>1, <3>3, <4>1 DEF TypeOK
        <5> QED  BY <2>1, <3>1, <3>2, <4>1, <5>1, <5>2 DEF Owned, Running, TypeOK
      <4>2. CASE u # t
        <5>1. tpc'[u] = tpc[u] /\ job'[u] = job[u] /\ at'[u] = at[u]
          BY <3>1, <4>2 DEF TypeOK
        <5>2. \A v \in Pool : v # u /\ job'[v] = job[u] => job[u] = NoJob
          BY <3>1, <3>3, <4>2 DEF TypeOK, Owned
        <5>3. job[u] # NoJob => job[u] < next + 1
          BY <3>3 DEF TypeOK, Positions
        <5> QED  BY <5>1, <5>2, <5>3 DEF Owned
      <4> QED  BY <4>1, <4>2
    <3>5. Untouched'
      <4>1. \A i \in Positions : i >= next + 1 => i >= next
        BY DEF TypeOK, Positions
      <4> QED  BY <1>1, <2>1, <4>1 DEF Untouched, jvars
    <3> QED  BY <1>1, <3>4, <3>5
  <2>3. CASE ~(next < Workers)
    <3>1. tpc' = [tpc EXCEPT ![t] = "exit"] /\ job' = job /\ at' = at
      BY <1>3, <2>3 DEF Take
    <3>2. ASSUME NEW u \in Pool, job[u] # NoJob
          PROVE  job[u] \in Positions /\ job[u] < next + 1
      BY <3>2 DEF TypeOK, Owned, Positions
    <3>3. Owned'
      BY <1>1, <2>1, <3>1, <3>2 DEF Owned, TypeOK, Running, jvars
    <3>4. Untouched'
      <4>1. \A i \in Positions : i >= next + 1 => i >= next
        BY DEF TypeOK, Positions
      <4> QED  BY <1>1, <2>1, <4>1 DEF Untouched, jvars
    <3> QED  BY <1>1, <3>3, <3>4
  <2> QED  BY <2>2, <2>3
<1>4. CASE LookFirst(t) \/ ResolveSleep(t) \/ MarkNotify(t) \/ ChainNotify(t)
  <2>1. next' = next /\ job' = job /\ started' = started /\ at' = at
    BY <1>4 DEF LookFirst, ResolveSleep, MarkNotify, ChainNotify, mvars
  <2>2. \/ tpc[t] \in Running /\ tpc' = [tpc EXCEPT ![t] = "block"]
        \/ tpc[t] \in Running /\ tpc' = [tpc EXCEPT ![t] = "resolve"]
        \/ tpc[t] \in Running /\ tpc' = tpc
        \/ tpc[t] = "chainnotify" /\ tpc' = [tpc EXCEPT ![t] = "finish"]
    BY <1>4 DEF LookFirst, ResolveSleep, MarkNotify, ChainNotify, Running
  <2>3. tpc[t] \notin {"off", "take", "exit"} /\ tpc'[t] \notin {"off", "take", "exit"}
    BY <2>2 DEF TypeOK, Running
  <2>4. /\ tpc[t] \in Running <=> tpc'[t] \in Running
        /\ tpc[t] \in {"chainnotify", "finish", "donenotify"}
               <=> tpc'[t] \in {"chainnotify", "finish", "donenotify"}
        /\ tpc[t] # "donenotify" /\ tpc'[t] # "donenotify"
        /\ tpc'[t] = "resolve" => ~resolved[job[t]]
        /\ \A u \in Pool \ {t} : tpc'[u] = tpc[u]
    <3>1. tpc'[t] = "resolve" => ~resolved[job[t]]
      BY <1>4, <2>3, AtItsJob DEF LookFirst, ResolveSleep, MarkNotify, ChainNotify, TypeOK
    <3> QED  BY <2>2, <3>1 DEF TypeOK, Running
  <2> QED  BY <1>1, <2>1, <2>3, <2>4, AtItsJob, AtWork DEF jvars
<1>5. CASE ChainWakes(t)
  BY <1>1, <1>5 DEF ChainWakes, Owned, Untouched, jvars, mvars
<1>6. CASE DoneNotify(t)
  <2>1. /\ tpc[t] = "donenotify" /\ tpc' = [tpc EXCEPT ![t] = "take"]
        /\ job' = [job EXCEPT ![t] = NoJob] /\ at' = at /\ next' = next /\ started' = started
    BY <1>6 DEF DoneNotify
  <2>2. Owned'
    BY <1>1, <2>1 DEF Owned, TypeOK, Running, jvars
  <2>3. Untouched'
    BY <1>1, <2>1 DEF Untouched, jvars
  <2> QED  BY <1>1, <2>2, <2>3
<1> QED
  BY <1>2, <1>3, <1>4, <1>5, <1>6

-----------------------------------------------------------------------------
(* What the jobs hold *)

JobsInv == Streamed /\ Views /\ Bodies

\* What the jobs know stays while none of them moves.
LEMMA JobsKept ==
    ASSUME JobsInv, UNCHANGED <<jvars, setAt, doneAt, finished, scripts>>
    PROVE  JobsInv'
  BY DEF JobsInv, Streamed, Views, Bodies, Blocks, Own, Inherits, AllDone, jvars

\* A look that settles what the job inherits.
LEMMA ResolveStep ==
    ASSUME TypeOK, Owned, Untouched, JobsInv, NEW t \in Pool, Resolve(t)
    PROVE  Owned' /\ Untouched' /\ JobsInv'
<1> DEFINE i == job[t]
<1>1. /\ tpc[t] = "resolve" /\ tpc' = [tpc EXCEPT ![t] = "block"]
      /\ Inherits(i) \/ AllDone(i)
      /\ built' = [built EXCEPT ![i] = Inherits(i)]
      /\ resolved' = [resolved EXCEPT ![i] = TRUE]
  BY DEF Resolve, Goto, Inherits, AllDone
<1>2. UNCHANGED <<next, job, at, didSet, body, ends, setAt, doneAt, chainAsleep, finished,
                  started, scripts>>
  BY DEF Resolve, mvars
<1>3. i \in Positions
  BY <1>1, AtItsJob
<1>4. Owned' /\ Untouched'
  <2>1. tpc[t] \in Running /\ tpc'[t] \in Running /\ tpc'[t] = "block"
        /\ \A u \in Pool \ {t} : tpc'[u] = tpc[u]
    BY <1>1 DEF TypeOK, Running
  <2>2. tpc[t] \notin {"off", "take", "exit"} /\ tpc'[t] \notin {"off", "take", "exit"}
    BY <2>1 DEF Running
  <2>3. \A k \in Positions \ {i} : built'[k] = built[k] /\ resolved'[k] = resolved[k]
    BY <1>1, <1>3 DEF TypeOK
  <2>4. /\ at'[t] = Len(body'[job[t]]) + 1
        /\ ends'[job[t]] = "no" <=> tpc'[t] \in Running
        /\ doneAt'[job[t]] <=> tpc'[t] \in {"chainnotify", "finish", "donenotify"}
        /\ finished'[job[t]] <=> tpc'[t] = "donenotify"
    BY <1>1, <1>2, <2>1, <2>2, AtItsJob
  <2> QED  BY <1>2, <2>1, <2>2, <2>3, <2>4, AtWork
<1>5. Streamed' /\ Bodies'
  BY <1>2 DEF JobsInv, Streamed, Bodies, Blocks, Own, Inherits, AllDone
<1>6. Views'
  <2>1. \A k : (Inherits(k)' <=> Inherits(k)) /\ (AllDone(k)' <=> AllDone(k))
    BY <1>2 DEF Inherits, AllDone
  <2>2. \A k, n : Own(k, n)' <=> Own(k, n)
    BY <1>2 DEF Own, Blocks
  <2>3. (built'[i] <=> Inherits(i)) /\ resolved'[i]
    BY <1>1, <1>3 DEF TypeOK
  <2>4. \A k \in Positions \ {i} : built'[k] = built[k] /\ resolved'[k] = resolved[k]
    BY <1>1, <1>3 DEF TypeOK
  <2>5. ~resolved[i] => ~Own(i, Len(body[i]))
    BY <1>3 DEF JobsInv, Views
  <2>6. ~resolved[i]
    BY <1>1, AtItsJob
  <2> SUFFICES ASSUME NEW k \in Positions
               PROVE  /\ setAt[k] <=> didSet[k]
                      /\ didSet[k] => built'[k]
                      /\ built'[k] => resolved'[k] /\ (Own(k, Len(body[k])) \/ Inherits(k))
                      /\ Own(k, Len(body[k])) => built'[k] /\ (setAt[k] \/ Inherits(k))
                      /\ resolved'[k] /\ ~built'[k] => ~Inherits(k) /\ AllDone(k)
    BY <1>2, <2>1, <2>2 DEF Views
  <2>7. CASE k = i
    BY <1>1, <1>3, <2>3, <2>5, <2>6, <2>7 DEF JobsInv, Views
  <2>8. CASE k # i
    BY <2>4, <2>8 DEF JobsInv, Views
  <2> QED  BY <2>7, <2>8
<1> QED
  BY <1>4, <1>5, <1>6 DEF JobsInv

\* A block is compressed.  A job after this one is not settled as empty yet, as this
\* one is not done; a job before it is not concerned.
LEMMA CompressStep ==
    ASSUME TypeOK, TypeOK', Owned, Untouched, JobsInv, NEW t \in Pool, Compress(t)
    PROVE  Owned' /\ Untouched' /\ JobsInv'
<1>1. PICK i \in Positions : i = job[t]
  <2>1. tpc[t] = "block"
    BY DEF Compress
  <2> QED  BY <2>1, AtItsJob
<1> DEFINE n == Len(body[i])
           b == Blocks(i)[n + 1]
           saw == b.looks /\ built[i]
           marks == IF saw THEN b.whenFilled ELSE b.whenEmpty
<1>2. /\ tpc[t] = "block" /\ i \in Positions /\ at[t] = n + 1 /\ n \in Nat
      /\ ends[i] = "no" /\ ~doneAt[i] /\ ~finished[i]
  <2>1. tpc[t] = "block"
    BY DEF Compress
  <2>2. /\ i \in Positions /\ at[t] = n + 1
        /\ ends[i] = "no" /\ ~doneAt[i] /\ ~finished[i]
    BY <1>1, <2>1, AtItsJob DEF Running
  <2>3. body[i] \in Seq(Token)
    BY <2>2 DEF TypeOK
  <2> QED  BY <2>1, <2>2, <2>3
<1>3. /\ n + 1 <= Len(Blocks(i)) /\ b.ends = "no" /\ (b.looks => resolved[i])
      /\ body' = [body EXCEPT ![i] = Append(@, [block |-> n + 1, saw |-> saw])]
      /\ at' = [at EXCEPT ![t] = @ + 1]
      /\ built' = [built EXCEPT ![i] = @ \/ marks]
      /\ resolved' = [resolved EXCEPT ![i] = @ \/ marks]
      /\ didSet' = [didSet EXCEPT ![i] = @ \/ marks]
      /\ setAt' = [setAt EXCEPT ![i] = @ \/ marks]
      /\ tpc' = [tpc EXCEPT ![t] = IF marks /\ ~didSet[i] THEN "marknotify" ELSE "block"]
  BY <1>1, <1>2 DEF Compress, Goto, Script, Blocks
<1>4. UNCHANGED <<next, job, ends, doneAt, chainAsleep, finished, started, scripts>>
  BY DEF Compress, mvars
<1>5. Blocks(i) \in Seq(Block) /\ b \in Block
  BY <1>2, <1>3, BlocksType
<1> HIDE DEF b, saw, marks
<1>6. /\ body'[i] = Append(body[i], [block |-> n + 1, saw |-> saw])
      /\ (built'[i] <=> built[i] \/ marks) /\ (resolved'[i] <=> resolved[i] \/ marks)
      /\ (didSet'[i] <=> didSet[i] \/ marks) /\ (setAt'[i] <=> setAt[i] \/ marks)
      /\ \A k \in Positions \ {i} :
            /\ body'[k] = body[k] /\ setAt'[k] = setAt[k]
            /\ didSet'[k] = didSet[k] /\ built'[k] = built[k] /\ resolved'[k] = resolved[k]
  <2>1. /\ body'[i] = Append(body[i], [block |-> n + 1, saw |-> saw])
        /\ \A k \in Positions \ {i} : body'[k] = body[k]
    BY <1>2, <1>3 DEF TypeOK
  <2>2. /\ (built'[i] <=> built[i] \/ marks) /\ (resolved'[i] <=> resolved[i] \/ marks)
        /\ (didSet'[i] <=> didSet[i] \/ marks) /\ (setAt'[i] <=> setAt[i] \/ marks)
    <3>1. /\ built'[i] = (built[i] \/ marks) /\ resolved'[i] = (resolved[i] \/ marks)
          /\ didSet'[i] = (didSet[i] \/ marks) /\ setAt'[i] = (setAt[i] \/ marks)
      BY <1>2, <1>3 DEF TypeOK
    <3> QED  BY <3>1
  <2>3. \A k \in Positions \ {i} :
           /\ setAt'[k] = setAt[k] /\ didSet'[k] = didSet[k]
           /\ built'[k] = built[k] /\ resolved'[k] = resolved[k]
    BY <1>2, <1>3 DEF TypeOK
  <2> QED  BY <2>1, <2>2, <2>3
<1>7. /\ Len(body'[i]) = n + 1
      /\ body'[i][n + 1] = [block |-> n + 1, saw |-> saw]
      /\ \A m \in 1..n : body'[i][m] = body[i][m]
  <2>1. body[i] \in Seq(Token)
    BY <1>2 DEF TypeOK
  <2> QED  BY <1>6, <2>1
<1>8. Owned' /\ Untouched'
  <2>1. tpc'[t] \in {"block", "marknotify"} /\ \A u \in Pool \ {t} : tpc'[u] = tpc[u] /\ at'[u] = at[u]
    BY <1>3 DEF TypeOK
  <2>2. at'[t] = n + 2
    BY <1>2, <1>3 DEF TypeOK
  <2>3. at'[t] = Len(body'[i]) + 1
    BY <1>2, <1>7, <2>2
  <2>4. /\ ends'[job[t]] = "no" <=> tpc'[t] \in Running
        /\ doneAt'[job[t]] <=> tpc'[t] \in {"chainnotify", "finish", "donenotify"}
        /\ finished'[job[t]] <=> tpc'[t] = "donenotify"
        /\ tpc'[t] # "resolve"
        /\ tpc[t] \notin {"off", "take", "exit"} /\ tpc'[t] \notin {"off", "take", "exit"}
    BY <1>1, <1>2, <1>4, <2>1 DEF Running
  <2> QED  BY <1>1, <1>4, <1>6, <2>1, <2>3, <2>4, AtWork
<1>9. \A k, m : Own(k, m)' <=> Own(k, m)
  BY <1>4 DEF Own, Blocks
<1>10. \A k : (AllDone(k)' <=> AllDone(k)) /\ (Inherits(k) => Inherits(k)' \/ k \notin Positions)
  <2>1. \A k \in Positions : setAt[k] => setAt'[k]
    BY <1>2, <1>6
  <2>2. \A k \in Positions : Before(k) \subseteq Positions
    BY PoolAssumption DEF Before, Positions
  <2> QED  BY <1>4, <2>1, <2>2 DEF Inherits, AllDone
<1>11. \A k \in Positions : AllDone(k) => (Inherits(k)' <=> Inherits(k))
  <2>1. \A k \in Positions : AllDone(k) => i \notin Before(k)
    BY <1>2 DEF AllDone
  <2>2. \A k \in Positions : Before(k) \subseteq Positions
    BY PoolAssumption DEF Before, Positions
  <2>3. ASSUME NEW k \in Positions, AllDone(k)
        PROVE  \A p \in Before(k) : setAt'[p] = setAt[p]
    BY <1>6, <2>1, <2>2, <2>3
  <2> QED  BY <2>3 DEF Inherits
<1>12. Inherits(i)' <=> Inherits(i)
  <2>1. Before(i) \subseteq Positions \ {i}
    BY <1>2, PoolAssumption DEF Before, Positions
  <2>2. \A p \in Before(i) : setAt'[p] = setAt[p]
    BY <1>6, <2>1
  <2> QED  BY <2>2 DEF Inherits
<1>13. Own(i, n + 1) <=> Own(i, n) \/ b.whenEmpty
  BY <1>2 DEF Own, b
<1>14. Streamed'
  <2>1. \A m \in 1..(n + 1) : Blocks(i)[m].ends = "no"
    BY <1>2, <1>3 DEF JobsInv, Streamed, b
  <2> SUFFICES ASSUME NEW k \in Positions
               PROVE  /\ Len(body'[k]) <= Len(Blocks(k))
                      /\ \A m \in 1..Len(body'[k]) : Blocks(k)[m].ends = "no"
                      /\ ends[k] = "ok" => Len(body'[k]) = Len(Blocks(k))
                      /\ ends[k] \in {"fail", "throw"} =>
                            /\ Len(body'[k]) < Len(Blocks(k))
                            /\ Blocks(k)[Len(body'[k]) + 1].ends = ends[k]
                      /\ doneAt[k] => ends[k] # "no"
                      /\ finished[k] => doneAt[k]
    BY <1>4 DEF Streamed, Blocks
  <2>2. CASE k = i
    BY <1>2, <1>3, <1>7, <2>1, <2>2
  <2>3. CASE k # i
    BY <1>6, <2>3 DEF JobsInv, Streamed
  <2> QED  BY <2>2, <2>3
<1>15. Views'
  <2> SUFFICES ASSUME NEW k \in Positions
               PROVE  /\ setAt'[k] <=> didSet'[k]
                      /\ didSet'[k] => built'[k]
                      /\ built'[k] => resolved'[k] /\ (Own(k, Len(body'[k])) \/ Inherits(k)')
                      /\ Own(k, Len(body'[k])) => built'[k] /\ (setAt'[k] \/ Inherits(k)')
                      /\ resolved'[k] /\ ~built'[k] => ~Inherits(k)' /\ AllDone(k)
    BY <1>9, <1>10 DEF Views
  <2>1. /\ setAt[k] <=> didSet[k]
        /\ didSet[k] => built[k]
        /\ built[k] => resolved[k] /\ (Own(k, Len(body[k])) \/ Inherits(k))
        /\ Own(k, Len(body[k])) => built[k] /\ (setAt[k] \/ Inherits(k))
        /\ resolved[k] /\ ~built[k] => ~Inherits(k) /\ AllDone(k)
    BY DEF JobsInv, Views
  <2>2. CASE k = i
    <3>1. (marks <=> IF saw THEN b.whenFilled ELSE b.whenEmpty) /\ (saw <=> b.looks /\ built[i])
      BY DEF marks, saw
    <3>2. /\ setAt[i] <=> didSet[i]
          /\ didSet[i] => built[i]
          /\ built[i] => resolved[i] /\ (Own(i, n) \/ Inherits(i))
          /\ Own(i, n) => built[i] /\ (setAt[i] \/ Inherits(i))
          /\ resolved[i] /\ ~built[i] => ~Inherits(i) /\ AllDone(i)
      BY <2>1, <2>2
    <3>3. Own(i, Len(body'[i])) <=> Own(i, n) \/ b.whenEmpty
      BY <1>7, <1>13
    <3>4. /\ setAt'[i] <=> didSet'[i]
          /\ didSet'[i] => built'[i]
          /\ built'[i] => resolved'[i] /\ (Own(i, Len(body'[i])) \/ Inherits(i)')
          /\ Own(i, Len(body'[i])) => built'[i] /\ (setAt'[i] \/ Inherits(i)')
          /\ resolved'[i] /\ ~built'[i] => ~Inherits(i)' /\ AllDone(i)
      BY <1>6, <1>12, <3>1, <3>2, <3>3
    <3> QED  BY <2>2, <3>4
  <2>3. CASE k # i
    BY <1>6, <1>10, <1>11, <2>1, <2>3
  <2> QED  BY <2>2, <2>3
<1>16. Bodies'
  <2> SUFFICES ASSUME NEW k \in Positions, NEW m \in 1..Len(body'[k])
               PROVE  /\ body'[k][m] = [block |-> m,
                             saw |-> Blocks(k)[m].looks /\ (Inherits(k)' \/ Own(k, m - 1))]
                      /\ Blocks(k)[m].looks => Inherits(k)' \/ Own(k, m - 1) \/ AllDone(k)
    BY <1>9, <1>10, <1>4 DEF Bodies, Blocks
  <2>1. ASSUME m \in 1..Len(body[k])
        PROVE  /\ body[k][m] = [block |-> m,
                                saw |-> Blocks(k)[m].looks /\ (Inherits(k) \/ Own(k, m - 1))]
               /\ Blocks(k)[m].looks => Inherits(k) \/ Own(k, m - 1) \/ AllDone(k)
    BY <2>1 DEF JobsInv, Bodies
  <2>2. CASE k = i /\ m = n + 1
    <3>1. b.looks => (built[i] <=> Inherits(i) \/ Own(i, n))
      BY <1>2, <1>3 DEF JobsInv, Views
    <3>2. saw <=> b.looks /\ (Inherits(i) \/ Own(i, n))
      BY <3>1 DEF saw
    <3>3. b.looks => Inherits(i) \/ Own(i, n) \/ AllDone(i)
      BY <1>2, <1>3, <3>1 DEF JobsInv, Views
    <3>4. (n + 1) - 1 = n
      BY <1>2
    <3>5. body'[i][n + 1] = [block |-> n + 1, saw |-> b.looks /\ (Inherits(i) \/ Own(i, n))]
      BY <1>7, <3>2
    <3> QED  BY <1>12, <2>2, <3>3, <3>4, <3>5 DEF b
  <2>3. CASE k = i /\ m # n + 1
    <3>1. m \in 1..Len(body[k]) /\ body'[k][m] = body[k][m]
      BY <1>2, <1>7, <2>3
    <3> QED  BY <1>12, <2>1, <2>3, <3>1
  <2>4. CASE k # i
    <3>1. m \in 1..Len(body[k]) /\ body'[k] = body[k]
      BY <1>6, <2>4
    <3>2. CASE AllDone(k)
      BY <1>11, <2>1, <3>1, <3>2
    <3>3. CASE ~AllDone(k)
      <4>1. Blocks(k)[m].looks => Inherits(k) \/ Own(k, m - 1)
        BY <2>1, <3>1, <3>3
      <4>2. Inherits(k) => Inherits(k)'
        BY <1>10
      <4>3. (Blocks(k)[m].looks /\ (Inherits(k) \/ Own(k, m - 1)))
                <=> (Blocks(k)[m].looks /\ (Inherits(k)' \/ Own(k, m - 1)))
        BY <4>1, <4>2
      <4> QED  BY <2>1, <3>1, <4>1, <4>2, <4>3
    <3> QED  BY <3>2, <3>3
  <2> QED  BY <2>2, <2>3, <2>4
<1> QED
  BY <1>8, <1>14, <1>15, <1>16 DEF JobsInv

\* A stream ends, says that it is done, and says that it is finished.
LEMMA EndStep ==
    ASSUME TypeOK, Owned, Untouched, JobsInv, NEW t \in Pool,
           EndStream(t) \/ MarkDone(t) \/ MarkFinished(t)
    PROVE  Owned' /\ Untouched' /\ JobsInv'
<1>1. PICK i \in Positions : i = job[t]
  <2>1. tpc[t] \notin {"off", "take", "exit"}
    BY DEF EndStream, MarkDone, MarkFinished
  <2> QED  BY <2>1, AtItsJob
<1>2. UNCHANGED <<next, job, at, resolved, built, didSet, body, setAt, started, scripts>>
  BY DEF EndStream, MarkDone, MarkFinished, jvars, mvars
<1>3. /\ \A k : Inherits(k)' <=> Inherits(k)
      /\ \A k, m : Own(k, m)' <=> Own(k, m)
      /\ \A k : Blocks(k)' = Blocks(k)
  BY <1>2 DEF Inherits, Own, Blocks
<1>4. CASE EndStream(t)
  <2>1. /\ tpc[t] = "block" /\ tpc' = [tpc EXCEPT ![t] = "unlist"]
        /\ ends' = [ends EXCEPT ![i] = EndsHere(t)] /\ EndsHere(t) # "no"
        /\ doneAt' = doneAt /\ finished' = finished
    BY <1>1, <1>4 DEF EndStream, Goto
  <2>2. /\ at[t] = Len(body[i]) + 1 /\ ~doneAt[i] /\ ~finished[i]
        /\ body[i] \in Seq(Token)
    BY <1>1, <2>1, AtItsJob DEF TypeOK
  <2>3. /\ ends'[i] = EndsHere(t) /\ tpc'[t] = "unlist"
        /\ \A k \in Positions \ {i} : ends'[k] = ends[k]
        /\ \A u \in Pool \ {t} : tpc'[u] = tpc[u]
    BY <2>1 DEF TypeOK
  <2>4. Owned' /\ Untouched'
    <3>1. /\ ends'[job[t]] = "no" <=> tpc'[t] \in Running
          /\ doneAt'[job[t]] <=> tpc'[t] \in {"chainnotify", "finish", "donenotify"}
          /\ finished'[job[t]] <=> tpc'[t] = "donenotify"
          /\ tpc'[t] # "resolve" /\ at'[t] = Len(body'[job[t]]) + 1
          /\ tpc[t] \notin {"off", "take", "exit"} /\ tpc'[t] \notin {"off", "take", "exit"}
      BY <1>1, <1>2, <2>1, <2>2, <2>3 DEF Running
    <3> QED  BY <1>1, <1>2, <2>1, <2>3, <3>1, AtWork
  <2>5. Streamed'
    <3>1. Blocks(i) \in Seq(Block)
      BY BlocksType
    <3>2. /\ Len(body[i]) <= Len(Blocks(i))
          /\ \A m \in 1..Len(body[i]) : Blocks(i)[m].ends = "no"
      BY DEF JobsInv, Streamed
    <3>3. IF Len(body[i]) = Len(Blocks(i)) THEN ends'[i] = "ok"
          ELSE /\ Len(body[i]) < Len(Blocks(i))
               /\ ends'[i] = Blocks(i)[Len(body[i]) + 1].ends /\ ends'[i] \in {"fail", "throw"}
      <4>1. Script(t) = Blocks(i)
        BY <1>1 DEF Script, Blocks
      <4>2. CASE Len(body[i]) = Len(Blocks(i))
        BY <2>2, <2>3, <4>1, <4>2 DEF EndsHere
      <4>3. CASE Len(body[i]) # Len(Blocks(i))
        <5>1. Len(body[i]) < Len(Blocks(i)) /\ ~(at[t] > Len(Script(t)))
          BY <2>2, <3>1, <3>2, <4>1, <4>3
        <5>2. Blocks(i)[Len(body[i]) + 1] \in Block
          BY <2>2, <3>1, <5>1
        <5> QED  BY <2>1, <2>2, <2>3, <4>1, <4>3, <5>1, <5>2 DEF EndsHere, Block
      <4> QED  BY <4>2, <4>3
    <3> SUFFICES ASSUME NEW k \in Positions
                 PROVE  /\ Len(body[k]) <= Len(Blocks(k))
                        /\ \A m \in 1..Len(body[k]) : Blocks(k)[m].ends = "no"
                        /\ ends'[k] = "ok" => Len(body[k]) = Len(Blocks(k))
                        /\ ends'[k] \in {"fail", "throw"} =>
                              /\ Len(body[k]) < Len(Blocks(k))
                              /\ Blocks(k)[Len(body[k]) + 1].ends = ends'[k]
                        /\ doneAt[k] => ends'[k] # "no"
                        /\ finished[k] => doneAt[k]
      BY <1>2, <1>3, <2>1 DEF Streamed
    <3>4. CASE k = i
      BY <2>2, <3>2, <3>3, <3>4
    <3>5. CASE k # i
      BY <2>3, <3>5 DEF JobsInv, Streamed
    <3> QED  BY <3>4, <3>5
  <2>6. Views' /\ Bodies'
    BY <1>2, <1>3, <2>1 DEF JobsInv, Views, Bodies, AllDone
  <2> QED  BY <2>4, <2>5, <2>6 DEF JobsInv
<1>5. CASE MarkDone(t)
  <2>1. /\ tpc[t] = "unlist" /\ tpc' = [tpc EXCEPT ![t] = "chainnotify"]
        /\ doneAt' = [doneAt EXCEPT ![i] = TRUE]
        /\ ends' = ends /\ finished' = finished
    BY <1>1, <1>5 DEF MarkDone, Goto, jvars
  <2>2. /\ at[t] = Len(body[i]) + 1 /\ ends[i] # "no" /\ ~finished[i]
    BY <1>1, <2>1, AtItsJob DEF Running
  <2>3. /\ doneAt'[i] /\ tpc'[t] = "chainnotify"
        /\ \A k \in Positions \ {i} : doneAt'[k] = doneAt[k]
        /\ \A u \in Pool \ {t} : tpc'[u] = tpc[u]
    BY <2>1 DEF TypeOK
  <2>4. Owned' /\ Untouched'
    <3>1. /\ ends'[job[t]] = "no" <=> tpc'[t] \in Running
          /\ doneAt'[job[t]] <=> tpc'[t] \in {"chainnotify", "finish", "donenotify"}
          /\ finished'[job[t]] <=> tpc'[t] = "donenotify"
          /\ tpc'[t] # "resolve" /\ at'[t] = Len(body'[job[t]]) + 1
          /\ tpc[t] \notin {"off", "take", "exit"} /\ tpc'[t] \notin {"off", "take", "exit"}
      BY <1>1, <1>2, <2>1, <2>2, <2>3 DEF Running
    <3> QED  BY <1>1, <1>2, <2>1, <2>3, <3>1, AtWork
  <2>5. Streamed'
    BY <1>2, <1>3, <2>1, <2>2, <2>3 DEF JobsInv, Streamed
  <2>6. Views' /\ Bodies'
    <3>1. \A k \in Positions : Before(k) \subseteq Positions
      BY PoolAssumption DEF Before, Positions
    <3>2. \A k \in Positions : AllDone(k) => AllDone(k)'
      BY <2>3, <3>1 DEF AllDone
    <3> QED  BY <1>2, <1>3, <3>2 DEF JobsInv, Views, Bodies
  <2> QED  BY <2>4, <2>5, <2>6 DEF JobsInv
<1>6. CASE MarkFinished(t)
  <2>1. /\ tpc[t] = "finish" /\ tpc' = [tpc EXCEPT ![t] = "donenotify"]
        /\ finished' = [finished EXCEPT ![i] = TRUE]
        /\ ends' = ends /\ doneAt' = doneAt
    BY <1>1, <1>6 DEF MarkFinished, Goto, jvars
  <2>2. /\ at[t] = Len(body[i]) + 1 /\ ends[i] # "no" /\ doneAt[i]
    BY <1>1, <2>1, AtItsJob DEF Running
  <2>3. /\ finished'[i] /\ tpc'[t] = "donenotify"
        /\ \A k \in Positions \ {i} : finished'[k] = finished[k]
        /\ \A u \in Pool \ {t} : tpc'[u] = tpc[u]
    BY <2>1 DEF TypeOK
  <2>4. Owned' /\ Untouched'
    <3>1. /\ ends'[job[t]] = "no" <=> tpc'[t] \in Running
          /\ doneAt'[job[t]] <=> tpc'[t] \in {"chainnotify", "finish", "donenotify"}
          /\ finished'[job[t]] <=> tpc'[t] = "donenotify"
          /\ tpc'[t] # "resolve" /\ at'[t] = Len(body'[job[t]]) + 1
          /\ tpc[t] \notin {"off", "take", "exit"} /\ tpc'[t] \notin {"off", "take", "exit"}
      BY <1>1, <1>2, <2>1, <2>2, <2>3 DEF Running
    <3> QED  BY <1>1, <1>2, <2>1, <2>3, <3>1, AtWork
  <2>5. Streamed'
    BY <1>2, <1>3, <2>1, <2>2, <2>3 DEF JobsInv, Streamed
  <2>6. Views' /\ Bodies'
    BY <1>2, <1>3, <2>1 DEF JobsInv, Views, Bodies, AllDone
  <2> QED  BY <2>4, <2>5, <2>6 DEF JobsInv
<1> QED
  BY <1>4, <1>5, <1>6

-----------------------------------------------------------------------------
(* The main thread *)

ThreadStep(t) ==
    \/ Take(t) \/ LookFirst(t) \/ Resolve(t) \/ ResolveSleep(t) \/ Compress(t)
    \/ MarkNotify(t) \/ EndStream(t) \/ MarkDone(t) \/ ChainNotify(t)
    \/ MarkFinished(t) \/ DoneNotify(t) \/ ChainWakes(t)

\* A pool thread writes nothing, and what it finishes stays finished.
LEMMA ThreadWritesNothing ==
    ASSUME TypeOK, NEW t \in Pool, ThreadStep(t)
    PROVE  /\ UNCHANGED <<mpc, mi, file, lines, outcome, scripts>>
           /\ \A i \in Positions : finished[i] => finished'[i]
<1>1. UNCHANGED <<mpc, mi, file, lines, outcome, scripts>>
  BY DEF ThreadStep, Take, LookFirst, Resolve, ResolveSleep, Compress, MarkNotify, EndStream,
         MarkDone, ChainNotify, MarkFinished, DoneNotify, ChainWakes, mvars
<1>2. finished' = finished \/ finished' = [finished EXCEPT ![job[t]] = TRUE]
  BY DEF ThreadStep, Take, LookFirst, Resolve, ResolveSleep, Compress, MarkNotify, EndStream,
         MarkDone, ChainNotify, MarkFinished, DoneNotify, ChainWakes
<1> QED
  BY <1>1, <1>2 DEF TypeOK

\* What the writer has written is kept by every step.
LEMMA WrittenStep ==
    ASSUME TypeOK, Owned, JobsInv, Written, [Next \/ Terminated]_vars
    PROVE  Written'
<1> DEFINE Parts == [worker : Positions, part : {"header"} \cup Seq(Token)]
<1>1. CASE UNCHANGED vars
  BY <1>1 DEF vars, jvars, mvars, Written
<1>2. ASSUME NEW t \in Pool, ThreadStep(t) PROVE Written'
  BY <1>2, ThreadWritesNothing DEF Written
<1>3. ASSUME NEW t \in Pool, Spawn(t) PROVE Written'
  BY <1>3 DEF Spawn, Written
<1>4. CASE WriteHeader
  <2>1. [worker |-> Workers - 1, part |-> "header"] \in Parts
    BY PoolAssumption DEF Positions
  <2>2. file' \in Seq(Parts) /\ file' # <<>>
    BY <1>4, <2>1 DEF WriteHeader
  <2> QED  BY <1>4, <2>2 DEF WriteHeader, Written
<1>5. CASE WriteBody
  <2>1. mi \in Positions /\ Worker(mi) \in Positions
    <3>1. mi \in Positions
      BY <1>5, PoolAssumption DEF WriteBody, TypeOK, Positions
    <3> QED  BY <3>1, BlocksType
  <2>2. /\ mpc = "await" /\ finished[mi] /\ mi' = mi + 1 /\ finished' = finished
        /\ \/ /\ ends[mi] = "ok" /\ mpc' = mpc /\ outcome' = outcome
              /\ file' = Append(file, [worker |-> Worker(mi), part |-> body[mi]])
           \/ /\ ends[mi] # "ok" /\ mpc' = "join" /\ outcome' = ends[mi] /\ file' = file
    BY <1>5 DEF WriteBody
  <2>3. ends[mi] # "no" /\ ends[mi] # "running"
    BY <2>1, <2>2 DEF JobsInv, Streamed, TypeOK
  <2>4. [worker |-> Worker(mi), part |-> body[mi]] \in Parts
    BY <2>1 DEF TypeOK
  <2>5. file \in Seq(Parts) /\ file # <<>>
    BY <2>2 DEF Written
  <2> HIDE DEF Parts
  <2>6. file' \in Seq(Parts) /\ file' # <<>>
    BY <2>2, <2>4, <2>5
  <2>7. \A i \in Positions : i < mi + 1 => finished[i]
    <3>1. \A i \in Positions : i < mi + 1 => i < mi \/ i = mi
      BY <2>1 DEF Positions
    <3> QED  BY <2>2, <3>1 DEF Written
  <2> QED  BY <2>2, <2>3, <2>6, <2>7 DEF Written, Parts
<1>6. CASE SpawnThrows \/ AwaitSleep \/ MainWakes \/ WriteEnd \/ Join \/ Publish
  BY <1>6 DEF SpawnThrows, AwaitSleep, MainWakes, WriteEnd, Join, Publish, Written
<1> QED
  BY <1>1, <1>2, <1>3, <1>4, <1>5, <1>6 DEF Next, Main, Thread, ThreadStep, Terminated

\* Every step of every thread keeps the invariant.
LEMMA StepIInv == IInv /\ [Next \/ Terminated]_vars => IInv'
<1> SUFFICES ASSUME IInv, [Next \/ Terminated]_vars PROVE IInv'
  OBVIOUS
<1>1. TypeOK /\ Owned /\ Untouched /\ JobsInv /\ Written
  BY DEF IInv, JobsInv
<1>2. TypeOK' /\ Written'
  BY <1>1, TypeStep, WrittenStep DEF JobsInv
<1>3. Owned' /\ Untouched' /\ JobsInv'
  <2>1. CASE \/ UNCHANGED vars \/ WriteHeader \/ SpawnThrows \/ AwaitSleep \/ MainWakes
             \/ WriteBody \/ WriteEnd \/ Join \/ Publish
    <3>1. UNCHANGED <<next, tpc, job, at, jvars, setAt, doneAt, finished, started, scripts>>
      BY <2>1 DEF vars, mvars, WriteHeader, SpawnThrows, AwaitSleep, MainWakes, WriteBody,
                  WriteEnd, Join, Publish
    <3> QED  BY <1>1, <3>1, JobsKept DEF Owned, Untouched, jvars
  <2>2. ASSUME NEW t \in Pool,
               \/ Spawn(t) \/ Take(t) \/ LookFirst(t) \/ ResolveSleep(t) \/ ChainWakes(t)
               \/ MarkNotify(t) \/ ChainNotify(t) \/ DoneNotify(t)
        PROVE  Owned' /\ Untouched' /\ JobsInv'
    BY <1>1, <2>2, ScheduleStep, JobsKept
  <2>3. ASSUME NEW t \in Pool, Resolve(t) PROVE Owned' /\ Untouched' /\ JobsInv'
    BY <1>1, <2>3, ResolveStep
  <2>4. ASSUME NEW t \in Pool, Compress(t) PROVE Owned' /\ Untouched' /\ JobsInv'
    BY <1>1, <1>2, <2>4, CompressStep
  <2>5. ASSUME NEW t \in Pool, EndStream(t) \/ MarkDone(t) \/ MarkFinished(t)
        PROVE  Owned' /\ Untouched' /\ JobsInv'
    BY <1>1, <2>5, EndStep
  <2> QED
    BY <2>1, <2>2, <2>3, <2>4, <2>5 DEF Next, Main, Thread, Terminated
<1> QED
  BY <1>2, <1>3 DEF IInv, JobsInv

\* The types hold for any number of worker streams and threads.
THEOREM TypeCorrect == Spec => []TypeOK
<1>1. IInv => TypeOK
  BY DEF IInv
<1> QED
  BY InitIInv, StepIInv, <1>1, PTL DEF Spec

\* For any number of worker streams and threads, whatever the blocks do: a job that has
\* settled what it inherits has settled it as the one-thread run hands it over.
THEOREM Inheritance == Spec => []InheritsInOrder
<1>1. IInv => InheritsInOrder
  BY DEF IInv, Views, InheritsInOrder, Inherits, AllDone
<1> QED
  BY InitIInv, StepIInv, <1>1, PTL DEF Spec

-----------------------------------------------------------------------------
(* The archive of the one-thread run *)

\* A job is written once all before it are done: what they have marked is settled.
LEMMA MarkedBefore ==
    ASSUME IInv, NEW t \in Pool, ThreadStep(t)
    PROVE  Inherits(mi)' <=> Inherits(mi)
<1>1. mi' = mi
  BY ThreadWritesNothing DEF IInv
<1>2. \A p \in Before(mi) : p \in Positions /\ doneAt[p]
  <2>1. ASSUME NEW p \in Before(mi) PROVE p \in Positions /\ doneAt[p]
    <3>1. p \in Positions /\ p < mi
      BY PoolAssumption DEF IInv, TypeOK, Before, Positions
    <3>2. finished[p]
      BY <3>1 DEF IInv, Written
    <3> QED BY <3>1, <3>2 DEF IInv, Streamed
  <2> QED BY <2>1
<1>3. CASE setAt' = setAt
  BY <1>1, <1>3 DEF Inherits
<1>4. CASE Compress(t)
  <2>1. job[t] \in Positions /\ ~doneAt[job[t]]
    <3>1. tpc[t] = "block"
      BY <1>4 DEF Compress
    <3> QED  BY <3>1, AtItsJob DEF IInv
  <2>2. \A p \in Positions \ {job[t]} : setAt'[p] = setAt[p]
    BY <1>4, <2>1 DEF Compress, IInv, TypeOK
  <2>3. \A p \in Before(mi) : setAt'[p] = setAt[p]
    BY <1>2, <2>1, <2>2
  <2> QED  BY <1>1, <2>3 DEF Inherits
<1> QED
  BY <1>3, <1>4 DEF ThreadStep, Take, LookFirst, Resolve, ResolveSleep, MarkNotify, EndStream,
         MarkDone, ChainNotify, MarkFinished, DoneNotify, ChainWakes

\* The body of a job that is done is what the one-thread run writes for its blocks.
LEMMA BodyIsSerial ==
    ASSUME IInv, NEW i \in Positions, doneAt[i], NEW inherits \in BOOLEAN,
           inherits <=> Inherits(i)
    PROVE  /\ Len(body[i]) \in 0..Len(Blocks(i))
           /\ Serial!WrittenUpTo(Blocks(i), Len(body[i]))
           /\ ends[i] = IF Serial!EndOf(Blocks(i), Len(body[i])) = "no" THEN "ok"
                        ELSE Serial!EndOf(Blocks(i), Len(body[i]))
           /\ body[i] = Serial!Compressed(Blocks(i), Len(body[i]), inherits)
           /\ inherits \/ setAt[i] <=> Serial!FilledAfter(Blocks(i), Len(body[i]), inherits)
<1> DEFINE n == Len(body[i])
           blocks == Blocks(i)
<1>1. /\ body[i] \in Seq(Token) /\ n \in Nat /\ blocks \in Seq(Block)
      /\ ends[i] \in {"ok", "fail", "throw"}
      /\ n <= Len(blocks) /\ \A m \in 1..n : blocks[m].ends = "no"
      /\ ends[i] = "ok" => n = Len(blocks)
      /\ ends[i] # "ok" => n < Len(blocks) /\ blocks[n + 1].ends = ends[i]
  <2>1. body[i] \in Seq(Token) /\ blocks \in Seq(Block)
    BY BlocksType DEF IInv, TypeOK
  <2>2. ends[i] \in {"ok", "fail", "throw"}
    BY DEF IInv, Streamed, TypeOK
  <2> QED  BY <2>1, <2>2 DEF IInv, Streamed
<1>2. Serial!WrittenUpTo(blocks, n)
  BY <1>1 DEF Serial!WrittenUpTo
<1>3. ends[i] = IF Serial!EndOf(blocks, n) = "no" THEN "ok" ELSE Serial!EndOf(blocks, n)
  BY <1>1 DEF Serial!EndOf
<1>4. \A m \in 0..n : Serial!FilledAfter(blocks, m, inherits) <=> Inherits(i) \/ Own(i, m)
  BY DEF Serial!FilledAfter, Own
<1>5. body[i] = Serial!Compressed(blocks, n, inherits)
  <2>1. ASSUME NEW m \in 1..n
        PROVE  body[i][m] = [block |-> m,
                             saw |-> blocks[m].looks /\ Serial!FilledAfter(blocks, m - 1, inherits)]
    <3>1. body[i][m] = [block |-> m,
                        saw |-> blocks[m].looks /\ (Inherits(i) \/ Own(i, m - 1))]
      BY DEF IInv, Bodies
    <3>2. m - 1 \in 0..n
      BY <1>1
    <3>3. (blocks[m].looks /\ (Inherits(i) \/ Own(i, m - 1)))
              <=> (blocks[m].looks /\ Serial!FilledAfter(blocks, m - 1, inherits))
      BY <1>4, <3>2
    <3> QED  BY <3>1, <3>3
  <2>2. body[i] = [m \in 1..n |-> body[i][m]]
    BY <1>1
  <2> QED  BY <2>1, <2>2 DEF Serial!Compressed
<1>6. inherits \/ setAt[i] <=> Serial!FilledAfter(blocks, n, inherits)
  <2>1. inherits \/ setAt[i] <=> Inherits(i) \/ Own(i, n)
    BY DEF IInv, Views
  <2> QED  BY <1>1, <1>4, <2>1
<1> QED
  BY <1>1, <1>2, <1>3, <1>5, <1>6

\* Writing a body is the serial step of its stream.
LEMMA WriteIsStream ==
    ASSUME IInv, WriteBody
    PROVE  Serial!Stream
<1>1. PICK i \in Positions : i = mi /\ i < Workers
  BY PoolAssumption DEF WriteBody, IInv, TypeOK, Positions
<1>2. PICK inherits \in BOOLEAN : inherits <=> Inherits(i)
  OBVIOUS
<1>3. /\ mpc = "await" /\ finished[i] /\ lines' = Append(lines, Worker(i)) /\ mi' = i + 1
      /\ setAt' = setAt /\ scripts' = scripts
      /\ \/ /\ ends[i] = "ok" /\ outcome' = outcome
            /\ file' = Append(file, [worker |-> Worker(i), part |-> body[i]])
         \/ /\ ends[i] # "ok" /\ outcome' = ends[i] /\ file' = file
  BY <1>1 DEF WriteBody
<1>4. outcome = "running" /\ file # <<>> /\ doneAt[i]
  BY <1>3 DEF IInv, Written, Streamed
<1>5. Filled = inherits
  BY <1>1, <1>2 DEF Filled, Inherits
<1>6. PICK n \in 0..Len(Blocks(i)) :
         /\ Serial!WrittenUpTo(Blocks(i), n)
         /\ ends[i] = IF Serial!EndOf(Blocks(i), n) = "no" THEN "ok"
                      ELSE Serial!EndOf(Blocks(i), n)
         /\ body[i] = Serial!Compressed(Blocks(i), n, inherits)
         /\ inherits \/ setAt[i] <=> Serial!FilledAfter(Blocks(i), n, inherits)
  BY <1>2, <1>4, BodyIsSerial
<1>7. Filled' = Serial!FilledAfter(Blocks(i), n, inherits)
  <2>1. Filled' <=> \E p \in Before(i + 1) : setAt[p]
    BY <1>3 DEF Filled
  <2>2. Before(i + 1) = Before(i) \cup {i}
    BY <1>1, PoolAssumption DEF Before, Positions
  <2>3. Filled' <=> inherits \/ setAt[i]
    BY <1>2, <2>1, <2>2 DEF Inherits
  <2> QED  BY <1>6, <2>3 DEF Filled, Serial!FilledAfter
<1>8. Worker(i) = Serial!Worker(i) /\ Blocks(i) = scripts[Serial!Worker(i)]
  BY DEF Worker, Serial!Worker, Blocks
<1>9. IF Serial!EndOf(Blocks(i), n) = "no"
      THEN /\ file' = Append(file, [worker |-> Worker(i),
                                    part |-> Serial!Compressed(Blocks(i), n, Filled)])
           /\ UNCHANGED outcome
      ELSE outcome' = Serial!EndOf(Blocks(i), n) /\ UNCHANGED file
  <2>1. Serial!EndOf(Blocks(i), n) # "ok"
    <3>1. Blocks(i) \in Seq(Block)
      BY BlocksType DEF IInv
    <3>2. n < Len(Blocks(i)) => Blocks(i)[n + 1] \in Block
      BY <3>1
    <3>3. \A b \in Block : b.ends # "ok"
      BY DEF Block
    <3> QED  BY <3>2, <3>3 DEF Serial!EndOf
  <2> QED  BY <1>3, <1>5, <1>6, <2>1
<1>10. Filled' = Serial!FilledAfter(Blocks(i), n, Filled)
  BY <1>5, <1>7
<1> QED
  BY <1>1, <1>3, <1>4, <1>6, <1>8, <1>9, <1>10 DEF Serial!Stream

\* For any number of worker streams and threads the container is the one the one-thread
\* run writes: the same bodies and lines in the same order, up to the same failure.
THEOREM ArchiveIsSerial == Spec => WritesSerialArchive
<1>1. Init => Serial!Init
  <2> SUFFICES ASSUME Init PROVE Serial!Init
    OBVIOUS
  <2>1. Filled = FALSE
    BY DEF Init, Filled, Before
  <2> QED  BY <2>1 DEF Init, Serial!Init
<1>2. IInv /\ [Next \/ Terminated]_vars => [Serial!Next]_(Serial!vars)
  <2> SUFFICES ASSUME IInv, [Next \/ Terminated]_vars
               PROVE  Serial!Next \/ UNCHANGED Serial!vars
    OBVIOUS
  <2>1. CASE UNCHANGED vars
    BY <2>1 DEF vars, mvars, Serial!vars, Filled
  <2>2. CASE WriteHeader
    <3>1. Filled' = Filled /\ outcome = "running" /\ file = <<>>
      BY <2>2 DEF WriteHeader, Filled, IInv, Written
    <3>2. Serial!Header
      BY <2>2, <3>1 DEF WriteHeader, Serial!Header
    <3> QED  BY <3>2 DEF Serial!Next
  <2>3. CASE WriteBody
    BY <2>3, WriteIsStream DEF Serial!Next
  <2>4. CASE WriteEnd
    <3>1. Filled' = Filled /\ outcome = "running"
      BY <2>4 DEF WriteEnd, Filled, IInv, Written
    <3>2. Serial!Finish
      BY <2>4, <3>1 DEF WriteEnd, Serial!Finish
    <3> QED  BY <3>2 DEF Serial!Next
  <2>5. CASE SpawnThrows
    <3>1. Filled' = Filled /\ outcome = "running" /\ mi = 0
      BY <2>5 DEF SpawnThrows, Filled, IInv, Written
    <3>2. Serial!GiveUp
      BY <2>5, <3>1 DEF SpawnThrows, Serial!GiveUp
    <3> QED  BY <3>2 DEF Serial!Next
  <2>6. CASE AwaitSleep \/ MainWakes \/ Join \/ Publish
    BY <2>6 DEF AwaitSleep, MainWakes, Join, Publish, Serial!vars, Filled
  <2>7. ASSUME NEW t \in Pool, Spawn(t) PROVE UNCHANGED Serial!vars
    BY <2>7 DEF Spawn, Serial!vars, Filled
  <2>8. ASSUME NEW t \in Pool, ThreadStep(t) PROVE UNCHANGED Serial!vars
    <3>1. Filled' = Filled
      BY <2>8, MarkedBefore DEF Inherits, Filled
    <3>2. UNCHANGED <<mpc, mi, file, lines, outcome, scripts>>
      BY <2>8, ThreadWritesNothing DEF IInv
    <3> QED  BY <3>1, <3>2 DEF Serial!vars
  <2> QED
    BY <2>1, <2>2, <2>3, <2>4, <2>5, <2>6, <2>7, <2>8 DEF Next, Main, Thread, ThreadStep, Terminated
<1> QED
  BY InitIInv, StepIInv, <1>1, <1>2, PTL DEF Spec, WritesSerialArchive, Serial!Spec
=============================================================================
