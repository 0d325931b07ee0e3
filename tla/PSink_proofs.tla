---------------------------- MODULE PSink_proofs ----------------------------
(***************************************************************************)
(* For every extraction by any number of workers: a question's file keeps  *)
(* its contents, a failure leaves whole units, a file's count of missing   *)
(* bytes is exact, so is the number of mismatches, and when every stream   *)
(* decodes, the files that stay at their paths hold all their bytes.       *)
(***************************************************************************)
EXTENDS PSink, Induction, FiniteSetTheorems

-----------------------------------------------------------------------------
(* The invariant                                                           *)

\* A worker that is about a slice has one.
AtSlice(k) ==
    /\ thr[k].i \in 1 .. Len(Slices(k)) + 1
    /\ thr[k].pc \in {"create", "asklock", "answer", "write", "check"} => thr[k].i <= Len(Slices(k))
    /\ strm[k].checked \subseteq 1 .. Len(Slices(k))

\* Who asks about a file.
AsksAbout(k, e) == thr[k].pc \in {"asklock", "answer"} /\ Ent(k) = e

\* One worker asks about a file that is being decided.
OneAsks ==
    /\ \A k \in Streams : thr[k].pc \in {"asklock", "answer"} => outFile[Ent(k)].deciding
    /\ \A k, m \in Streams : \A e \in Entries : AsksAbout(k, e) /\ AsksAbout(m, e) => k = m

\* A file is decided, then asked about if it must be, then created; one that was answered
\* No is not written.
Decided(e) ==
    /\ outFile[e].deciding => /\ outFile[e].decided /\ ~outFile[e].created
                              /\ outDisk[job.path[e]].state # "absent"
    /\ outFile[e].created => outFile[e].decided /\ ~outFile[e].deciding
    /\ e \in declined => /\ outFile[e].decided /\ ~outFile[e].deciding /\ ~outFile[e].writeIt
                         /\ outDisk[job.path[e]].state # "absent"

\* What is new on the disk was created for a file that is written.
NewIsCreated ==
    \A p \in Paths :
        outDisk[p].state = "new" =>
            \E d \in Entries : job.path[d] = p /\ outFile[d].created /\ outFile[d].writeIt

\* How much of what stream k has produced may be on the disk when it rests, and when it
\* is over.
MayFlush(k) == SafeFlushPoint(k, strm[k].produced)

EndFlush(k) == IF strm[k].ends = "fail" THEN MayFlush(k) ELSE strm[k].produced

\* The places between two calls of a worker: before the first and behind the last.
Flushed(k) ==
    /\ ~job.incremental /\ thr[k].call \in {"begin", "write"} => strm[k].produced = 0
    /\ thr[k].pc = "start" => thr[k].call = "begin"
    /\ thr[k].call = "begin" =>
          /\ thr[k].pc \in {"start", "ready", "create", "asklock", "answer"}
          /\ strm[k].ends = "no"
          /\ strm[k].flushed = MayFlush(k) /\ strm[k].heldBase = strm[k].flushed
    /\ thr[k].call = "write" =>
          /\ thr[k].pc \in {"ready", "slice", "create", "asklock", "answer", "write", "check"}
          /\ strm[k].ends = "no" /\ strm[k].heldBase = strm[k].flushed
          /\ thr[k].pc = "ready" => strm[k].flushed = MayFlush(k)
          /\ thr[k].pc # "ready" => strm[k].flushed <= thr[k].to /\ thr[k].to = MayFlush(k)
    /\ thr[k].call = "end" =>
          /\ thr[k].pc \in {"slice", "create", "asklock", "answer", "write", "check", "group", "done"}
          /\ IF thr[k].pc \in {"group", "done"} THEN strm[k].flushed = EndFlush(k)
             ELSE strm[k].flushed <= thr[k].to /\ thr[k].to = EndFlush(k)
    /\ thr[k].call = "group" =>
          /\ thr[k].pc \in {"create", "asklock", "answer", "group", "done"}
          /\ strm[k].flushed = EndFlush(k)

\* A worker goes to a slice that has bytes to create its file and write them.
HasBytes(k) ==
    /\ /\ thr[k].pc \in {"create", "asklock", "answer", "write"} /\ thr[k].call \in {"write", "end"}
       /\ Slice(k).len # 0
       => FromPos(k) < ToPos(k)
    /\ thr[k].pc = "write" => /\ thr[k].call \in {"write", "end"} /\ Slice(k).len # 0
                              /\ outFile[Ent(k)].created

\* What a file still waits for is what its streams have not written.
Counted(e) ==
    /\ ~outFile[e].created => ~outFile[e].open /\ ~outFile[e].closed /\ ~outFile[e].cannot
    /\ ~outFile[e].created \/ Healthy(e) => outFile[e].remaining = Owed(e)
    /\ Healthy(e) => /\ outFile[e].open => outFile[e].remaining > 0
                     /\ outFile[e].remaining = 0 => outFile[e].closed

\* The slices that are out and do not match their checksums.
BadSlices(k) == {i \in strm[k].checked : strm[k].try \in Slices(k)[i].bad}

MismatchesCounted ==
    /\ mismatches = OverStreams([k \in Streams |-> Cardinality(BadSlices(k))])
    /\ \A k \in Streams :
          thr[k].call \in {"begin", "write"} => strm[k].pending = Cardinality(BadSlices(k))

SinkInv ==
    /\ SinkTypeOK
    /\ \A k \in Streams : AtSlice(k) /\ Flushed(k) /\ HasBytes(k)
    /\ OneAsks
    /\ \A e \in Entries : Decided(e) /\ Counted(e)
    /\ NewIsCreated
    /\ MismatchesCounted

-----------------------------------------------------------------------------
(* The layout of an extraction                                             *)

\* A stream is a sequence of slices.
LEMMA SliceFacts ==
    ASSUME job \in Cases, NEW k \in Streams
    PROVE  /\ Len(job.streams) \in Nat /\ Len(Slices(k)) \in Nat
           /\ DOMAIN Slices(k) = 1 .. Len(Slices(k))
           /\ \A i \in 1 .. Len(Slices(k)) :
                /\ Slices(k)[i].entry \in Entries /\ Slices(k)[i].len \in Nat
                /\ Slices(k)[i].group \in Nat \ {0} /\ Slices(k)[i].off \in Nat
<1>1. job.streams \in Seq(Seq(SliceOf))
  BY PSinkAssumption DEF Extraction
<1>2. job.streams[k] \in Seq(SliceOf)
  BY <1>1 DEF Streams
<1>3. PICK t \in Seq(SliceOf) : t = Slices(k)
  BY <1>2 DEF Slices
<1>4. Len(t) \in Nat /\ DOMAIN t = 1 .. Len(t) /\ \A i \in 1 .. Len(t) : t[i] \in SliceOf
  BY <1>3
<1>5. \A i \in 1 .. Len(t) : /\ t[i].entry \in Entries /\ t[i].len \in Nat
                             /\ t[i].group \in Nat \ {0} /\ t[i].off \in Nat
  BY <1>4 DEF SliceOf
<1> HIDE DEF SliceOf
<1>6. Len(job.streams) \in Nat
  BY <1>1
<1> QED BY <1>3, <1>4, <1>5, <1>6

\* Where a slice starts in its stream.
LEMMA SposType ==
    ASSUME job \in Cases, NEW k \in Streams, NEW i \in 1 .. Len(Slices(k)) + 1
    PROVE  Spos(k, i) \in Nat
<1> DEFINE lens == [j \in DOMAIN Slices(k) |-> Slices(k)[j].len]
<1>1. Len(Slices(k)) \in Nat /\ DOMAIN Slices(k) = 1 .. Len(Slices(k))
      /\ \A j \in 1 .. Len(Slices(k)) : Slices(k)[j].len \in Nat
  BY SliceFacts
<1>2. i \in Nat \ {0} /\ \A j \in 1 .. i - 1 : lens[j] \in Nat
  BY <1>1
<1> HIDE DEF lens
<1>3. SumBefore(lens, i) \in Nat
  BY <1>2, SumType
<1> QED BY <1>3 DEF Spos, lens

\* The group of a slice has a first slice.
LEMMA FirstOfType ==
    ASSUME job \in Cases, NEW k \in Streams, NEW g \in Groups(k)
    PROVE  FirstOf(k, g) \in 1 .. Len(Slices(k)) /\ GroupStart(k, g) \in Nat
<1> DEFINE S == {i \in 1 .. Len(Slices(k)) : Slices(k)[i].group = g}
<1>1. Len(Slices(k)) \in Nat
  BY SliceFacts
<1>2. S \in SUBSET Nat /\ S # {}
  BY <1>1 DEF Groups
<1> HIDE DEF S
<1>3. Min(S) \in S
  BY <1>2, MinOfNumbers
<1>4. FirstOf(k, g) \in 1 .. Len(Slices(k))
  BY <1>3 DEF S, FirstOf
<1>5. FirstOf(k, g) \in 1 .. Len(Slices(k)) + 1
  BY <1>1, <1>4
<1>6. Spos(k, FirstOf(k, g)) \in Nat
  <2>1. PICK i \in 1 .. Len(Slices(k)) + 1 : i = FirstOf(k, g)
    BY <1>5
  <2> QED BY <2>1, SposType
<1> QED BY <1>4, <1>6 DEF GroupStart

\* Rounding down to whole quanta.
LEMMA WholeQuanta ==
    ASSUME NEW n \in Nat, NEW m \in Nat, n <= m, NEW q \in Nat \ {0}
    PROVE  /\ (n \div q) * q \in Nat /\ (n \div q) * q <= n
           /\ (n \div q) * q <= (m \div q) * q
<1>1. /\ n \div q \in Nat /\ n = q * (n \div q) + (n % q) /\ n % q \in 0 .. q - 1
      /\ m \div q \in Nat /\ m = q * (m \div q) + (m % q) /\ m % q \in 0 .. q - 1
  OBVIOUS
<1>2. PICK a \in Nat, b \in Nat, r \in 0 .. q - 1, t \in 0 .. q - 1 :
         a = n \div q /\ b = m \div q /\ n = q * a + r /\ m = q * b + t
  BY <1>1
<1>3. a <= b
  <2>1. SUFFICES ASSUME b + 1 <= a PROVE FALSE
    BY <1>2
  <2>2. q * (b + 1) <= q * a
    BY <2>1, <1>2
  <2>3. q * (b + 1) = q * b + q
    BY <1>2
  <2> QED BY <1>2, <2>2, <2>3
<1>4. a * q <= b * q
  BY <1>2, <1>3
<1>5. a * q \in Nat /\ a * q = q * a
  BY <1>2
<1> QED BY <1>2, <1>4, <1>5

\* What a failure would flush is never more than was produced, and grows with it.
LEMMA SafeFlushFacts ==
    ASSUME job \in Cases, NEW k \in Streams, NEW p \in Nat, NEW q \in Nat, p <= q
    PROVE  /\ SafeFlushPoint(k, p) \in Nat /\ SafeFlushPoint(k, p) <= p
           /\ SafeFlushPoint(k, p) <= SafeFlushPoint(k, q)
<1> DEFINE G == {GroupStart(k, g) : g \in Groups(k)}
           S(n) == {0} \cup {s \in G : s <= n}
           Q == job.quantum
           F(n) == IF Q = 0 THEN Max(S(n)) ELSE Max(S(n)) + ((n - Max(S(n))) \div Q) * Q
<1>1. Q \in Nat
  BY PSinkAssumption DEF Extraction
<1>2. G \in SUBSET Nat
  BY FirstOfType
<1>3. SafeFlushPoint(k, p) = IF job.policy # "group" THEN p ELSE F(p)
  BY Zenon DEF SafeFlushPoint
<1>4. SafeFlushPoint(k, q) = IF job.policy # "group" THEN q ELSE F(q)
  BY Zenon DEF SafeFlushPoint
<1> HIDE DEF G, Q
<1>5. ASSUME NEW n \in Nat PROVE Max(S(n)) \in S(n) /\ \A s \in S(n) : s <= Max(S(n))
  <2>1. 0 \in S(n) /\ \A s \in S(n) : s \in Nat /\ s <= n
    BY <1>2
  <2> HIDE DEF S
  <2> QED BY <2>1, MaxOfBounded
<1>6. PICK a \in Nat, b \in Nat : a = Max(S(p)) /\ b = Max(S(q))
  <2>1. ASSUME NEW n \in Nat, NEW s \in S(n) PROVE s \in Nat
    BY <1>2, <2>1
  <2>2. Max(S(p)) \in Nat /\ Max(S(q)) \in Nat
    BY <1>5, <2>1
  <2> QED BY <2>2
<1>7. a <= p /\ b <= q /\ a <= b
  <2>1. a \in S(p) /\ b \in S(q) /\ a \in S(q)
    BY <1>2, <1>5, <1>6
  <2> QED BY <1>5, <1>6, <2>1
<1>8. b <= p => a = b
  <2>1. ASSUME b <= p PROVE b \in S(p)
    <3>1. b \in S(q)
      BY <1>5, <1>6
    <3> QED BY <2>1, <3>1
  <2>2. b \in S(p) => b <= a
    BY <1>5, <1>6
  <2> QED BY <1>7, <2>1, <2>2
<1>9. F(p) = (IF Q = 0 THEN a ELSE a + ((p - a) \div Q) * Q)
      /\ F(q) = (IF Q = 0 THEN b ELSE b + ((q - b) \div Q) * Q)
  BY <1>6
<1> HIDE DEF F, S
<1>10. CASE Q = 0
  <2>1. F(p) = a /\ F(q) = b
    BY <1>9, <1>10
  <2> QED BY <1>3, <1>4, <1>7, <2>1
<1>11. CASE Q # 0
  <2>1. PICK c \in Nat, d \in Nat : c = p - a /\ d = q - b
    BY <1>7
  <2>2. Q \in Nat \ {0}
    BY <1>1, <1>11
  <2>3. (c \div Q) * Q \in Nat /\ (c \div Q) * Q <= c
    BY <2>2, WholeQuanta
  <2>4. (d \div Q) * Q \in Nat
    BY <2>2, WholeQuanta
  <2>5. F(p) = a + (c \div Q) * Q /\ F(q) = b + (d \div Q) * Q
    BY <1>9, <1>11, <2>1
  <2>6. F(p) \in Nat /\ F(p) <= p /\ F(q) \in Nat
    BY <2>1, <2>3, <2>4, <2>5
  <2>7. F(p) <= F(q)
    <3>1. CASE b <= p
      <4>1. a = b /\ c <= d
        BY <1>8, <2>1, <3>1
      <4>2. (c \div Q) * Q <= (d \div Q) * Q
        BY <2>2, <4>1, WholeQuanta
      <4> QED BY <2>3, <2>4, <2>5, <4>1, <4>2
    <3>2. CASE ~ (b <= p)
      BY <2>4, <2>5, <2>6, <3>2
    <3> QED BY <3>1, <3>2
  <2> QED BY <1>3, <1>4, <2>6, <2>7
<1> QED BY <1>10, <1>11

\* The layout stays.
LEMMA LayoutKept ==
    ASSUME UNCHANGED job
    PROVE  /\ Streams' = Streams
           /\ \A k : Slices(k)' = Slices(k) /\ Total(k)' = Total(k)
           /\ \A k, i : Spos(k, i)' = Spos(k, i) /\ Send(k, i)' = Send(k, i)
           /\ \A k, p : SafeFlushPoint(k, p)' = SafeFlushPoint(k, p)
           /\ \A k, i, e : LenIn(k, i, e)' = LenIn(k, i, e)
           /\ \A k, i, e, p : Before(k, i, e, p)' = Before(k, i, e, p)
<1>1. Streams' = Streams
  BY DEF Streams
<1>2. \A k : Slices(k)' = Slices(k)
  BY DEF Slices
<1>3. \A k, i : Spos(k, i)' = Spos(k, i)
  BY Zenon DEF Spos, Slices
<1>4. \A k, i : Send(k, i)' = Send(k, i)
  BY Zenon DEF Spos, Slices, Send
<1>5. \A k, p : SafeFlushPoint(k, p)' = SafeFlushPoint(k, p)
  <2>1. \A k : Groups(k)' = Groups(k) /\ \A g : GroupStart(k, g)' = GroupStart(k, g)
    BY Zenon DEF GroupStart, Groups, FirstOf, Spos, Slices
  <2>2. ASSUME NEW k, NEW p
        PROVE  {s \in {GroupStart(k, g) : g \in Groups(k)} : s <= p}'
               = {s \in {GroupStart(k, g) : g \in Groups(k)} : s <= p}
    BY <2>1
  <2> QED BY <2>2, Zenon DEF SafeFlushPoint
<1>6. \A k, i, e : LenIn(k, i, e)' = LenIn(k, i, e)
  BY Zenon DEF LenIn, Slices
<1>7. \A k, i, e, p : Before(k, i, e, p)' = Before(k, i, e, p)
  BY Zenon DEF Before, Spos, Slices
<1>8. \A k : Total(k)' = Total(k)
  BY Zenon DEF Total, Spos, Slices
<1> QED BY <1>1, <1>2, <1>3, <1>4, <1>5, <1>6, <1>7, <1>8

-----------------------------------------------------------------------------
(* What the steps do                                                       *)

\* A worker that moves on, and the others that stay.
LEMMA GotoIs ==
    ASSUME SinkTypeOK, NEW k \in Streams, NEW place, Goto(k, place)
    PROVE  /\ thr'[k].pc = place
           /\ thr'[k].call = thr[k].call /\ thr'[k].i = thr[k].i /\ thr'[k].to = thr[k].to
           /\ \A m \in Streams \ {k} : thr'[m] = thr[m]
           /\ place \in {"start", "ready", "slice", "create", "asklock", "answer", "write", "check",
                         "group", "done"} => thr' \in [Streams -> WorkerState]
  BY DEF SinkTypeOK, WorkerState, Goto

\* The file of the slice a worker is at is one of the archive's.
LEMMA EntType ==
    ASSUME SinkTypeOK, NEW k \in Streams, AtSlice(k), thr[k].i <= Len(Slices(k))
    PROVE  Ent(k) \in Entries /\ Slice(k).len \in Nat /\ Slice(k) = Slices(k)[thr[k].i]
           /\ thr[k].i \in 1 .. Len(Slices(k))
<1>1. Len(Slices(k)) \in Nat /\ \A i \in 1 .. Len(Slices(k)) :
          Slices(k)[i].entry \in Entries /\ Slices(k)[i].len \in Nat
  BY SliceFacts DEF SinkTypeOK
<1>2. PICK i \in 1 .. Len(Slices(k)) : i = thr[k].i
  BY <1>1 DEF AtSlice
<1> QED BY <1>1, <1>2 DEF Ent, Slice

\* A file that is opened, or found to be open.
LEMMA OpenFileIs ==
    ASSUME SinkTypeOK, NEW k \in Streams, NEW decision \in BOOLEAN, OpenFile(k, decision),
           NEW e \in Entries, e = Ent(k), Slice(k).len \in Nat
    PROVE  LET opens == decision /\ ~outFile[e].created /\ e \notin job.locked
           IN /\ outFile' \in [Entries -> FileState]
              /\ \A d \in Entries \ {e} : outFile'[d] = outFile[d]
              /\ outFile'[e].decided /\ ~outFile'[e].deciding /\ outFile'[e].created
              /\ outFile'[e].writeIt = decision /\ outFile'[e].failed = outFile[e].failed
              /\ outFile'[e].remaining = outFile[e].remaining
              /\ outFile'[e].cannot
                 = (outFile[e].cannot \/ (decision /\ ~outFile[e].created /\ e \in job.locked))
              /\ outFile'[e].open = (outFile[e].open \/ (opens /\ outFile[e].remaining > 0))
              /\ outFile'[e].closed = (outFile[e].closed \/ (opens /\ outFile[e].remaining = 0))
              /\ outDisk' \in [Paths -> [state : {"absent", "old", "new"}, bytes : [Offsets -> Byte]]]
              /\ \A p \in Paths :
                    outDisk'[p].state = IF opens /\ p = job.path[e] THEN "new" ELSE outDisk[p].state
              /\ \E place \in {"ready", "group", "write", "check"} :
                    /\ Goto(k, place)
                    /\ place = "ready" <=> thr[k].call = "begin"
                    /\ place = "group" <=> thr[k].call = "group"
                    /\ place = "write" <=> /\ thr[k].call \in {"write", "end"} /\ Slice(k).len # 0
                                           /\ decision /\ ~outFile'[e].cannot
<1> DEFINE opens == decision /\ ~outFile[e].created /\ e \notin job.locked
           f == [outFile[e] EXCEPT
                   !.decided = TRUE, !.deciding = FALSE, !.writeIt = decision, !.created = TRUE,
                   !.cannot = @ \/ (decision /\ ~outFile[e].created /\ e \in job.locked),
                   !.open = @ \/ (opens /\ outFile[e].remaining > 0),
                   !.closed = @ \/ (opens /\ outFile[e].remaining = 0)]
<1>0. /\ outFile \in [Entries -> FileState] /\ job \in Cases /\ job.path \in [Entries -> Paths]
      /\ outDisk \in [Paths -> [state : {"absent", "old", "new"}, bytes : [Offsets -> Byte]]]
  BY PSinkAssumption DEF SinkTypeOK, Extraction
<1>1. /\ outFile' = [outFile EXCEPT ![e] = f]
      /\ outDisk' = IF opens
                    THEN [outDisk EXCEPT ![job.path[e]] =
                              [state |-> "new", bytes |-> [o \in Offsets |-> NoByte]]]
                    ELSE outDisk
      /\ Goto(k, AfterCreate(k, f))
  BY Zenon DEF OpenFile
<1>2. PICK o \in BOOLEAN : o = opens
  OBVIOUS
<1>3. PICK old \in FileState : old = outFile[e]
  BY <1>0
<1>4. PICK c \in BOOLEAN, p \in BOOLEAN, q \in BOOLEAN :
         /\ c = (old.cannot \/ (decision /\ ~old.created /\ e \in job.locked))
         /\ p = (old.open \/ (o /\ old.remaining > 0))
         /\ q = (old.closed \/ (o /\ old.remaining = 0))
  BY Zenon
<1>5. f = [old EXCEPT !.decided = TRUE, !.deciding = FALSE, !.writeIt = decision, !.created = TRUE,
                      !.cannot = c, !.open = p, !.closed = q]
  BY <1>2, <1>3, <1>4, Zenon
<1>6. /\ f \in FileState /\ f.decided /\ ~f.deciding /\ f.created /\ f.writeIt = decision
      /\ f.failed = old.failed /\ f.remaining = old.remaining
      /\ f.cannot = c /\ f.open = p /\ f.closed = q
  <2> DEFINE g == [old EXCEPT !.decided = TRUE, !.deciding = FALSE, !.writeIt = decision,
                              !.created = TRUE]
  <2>1. /\ g \in FileState /\ g.decided /\ ~g.deciding /\ g.created /\ g.writeIt = decision
        /\ g.failed = old.failed /\ g.remaining = old.remaining
    BY DEF FileState
  <2>2. f = [g EXCEPT !.cannot = c, !.open = p, !.closed = q]
    <3> HIDE DEF f
    <3> QED BY <1>5 DEF FileState
  <2> HIDE DEF f, g
  <2>3. PICK h \in FileState : h = g
    BY <2>1
  <2>4. f = [h EXCEPT !.cannot = c, !.open = p, !.closed = q]
    BY <2>2, <2>3
  <2>5. /\ f \in FileState /\ f.cannot = c /\ f.open = p /\ f.closed = q
        /\ f.decided = h.decided /\ f.deciding = h.deciding /\ f.created = h.created
        /\ f.writeIt = h.writeIt /\ f.failed = h.failed /\ f.remaining = h.remaining
    BY <2>4 DEF FileState
  <2> QED BY <2>1, <2>3, <2>5
<1> HIDE DEF f, opens
<1>7. outFile' \in [Entries -> FileState] /\ outFile'[e] = f
      /\ \A d \in Entries \ {e} : outFile'[d] = outFile[d]
  BY <1>0, <1>1, <1>6
<1>8. /\ outDisk' \in [Paths -> [state : {"absent", "old", "new"}, bytes : [Offsets -> Byte]]]
      /\ \A t \in Paths :
            outDisk'[t].state = IF o /\ t = job.path[e] THEN "new" ELSE outDisk[t].state
  <2>1. [o2 \in Offsets |-> NoByte] \in [Offsets -> Byte]
    BY PSinkAssumption DEF NoByte, Byte
  <2>2. CASE o
    BY <1>0, <1>1, <1>2, <2>1, <2>2
  <2>3. CASE ~o
    BY <1>0, <1>1, <1>2, <2>3
  <2> QED BY <2>2, <2>3
<1>9. thr[k].call \in {"begin", "write", "end", "group"}
  BY DEF SinkTypeOK, WorkerState
<1>10. /\ AfterCreate(k, f) \in {"ready", "group", "write", "check"}
       /\ AfterCreate(k, f) = "ready" <=> thr[k].call = "begin"
       /\ AfterCreate(k, f) = "group" <=> thr[k].call = "group"
       /\ AfterCreate(k, f) = "write" <=> /\ thr[k].call \in {"write", "end"} /\ Slice(k).len # 0
                                          /\ decision /\ ~c
  BY <1>6, <1>9 DEF AfterCreate
<1>11. PICK place \in {"ready", "group", "write", "check"} : place = AfterCreate(k, f)
  BY <1>10
<1>12. /\ Goto(k, place)
       /\ place = "ready" <=> thr[k].call = "begin"
       /\ place = "group" <=> thr[k].call = "group"
       /\ place = "write" <=> /\ thr[k].call \in {"write", "end"} /\ Slice(k).len # 0
                              /\ decision /\ ~outFile'[e].cannot
  BY <1>1, <1>6, <1>7, <1>10, <1>11
<1> QED BY <1>2, <1>3, <1>4, <1>6, <1>7, <1>8, <1>12 DEF opens

-----------------------------------------------------------------------------
(* What a file still waits for                                             *)

\* The part of slice i that entry e still waits for.
Rest(k, i, e) == LenIn(k, i, e) - Before(k, i, e, Reached(k, i))

RestOf(k, e) == [i \in DOMAIN Slices(k) |-> Rest(k, i, e)]

RestSum(k, e) == SumBefore(RestOf(k, e), Len(Slices(k)) + 1)

\* What a file waits for, stream by stream.
LEMMA OwedIsSum ==
    ASSUME NEW e
    PROVE  Owed(e) = SumBefore([k \in Streams |-> RestSum(k, e)], Len(job.streams) + 1)
  BY Zenon DEF Owed, OverStreams, OverSlices, RestSum, RestOf, Rest

\* What is before a point of a stream is part of the slice, more the further the point is.
LEMMA BeforeFacts ==
    ASSUME job \in Cases, NEW k \in Streams, NEW i \in 1 .. Len(Slices(k)), NEW e, NEW p \in Nat
    PROVE  /\ LenIn(k, i, e) \in Nat
           /\ Before(k, i, e, p) \in Nat /\ Before(k, i, e, p) <= LenIn(k, i, e)
           /\ Spos(k, i) \in Nat
           /\ Before(k, i, e, p) = IF Slices(k)[i].entry # e \/ p <= Spos(k, i) THEN 0
                                   ELSE IF p <= Spos(k, i) + Slices(k)[i].len THEN p - Spos(k, i)
                                   ELSE Slices(k)[i].len
<1>1. Slices(k)[i].len \in Nat /\ Len(Slices(k)) \in Nat
  BY SliceFacts
<1>2. Spos(k, i) \in Nat
  <2>1. i \in 1 .. Len(Slices(k)) + 1
    BY <1>1
  <2> QED BY <2>1, SposType
<1>3. PICK s \in Nat, n \in Nat : s = Spos(k, i) /\ n = Slices(k)[i].len
  BY <1>1, <1>2
<1>4. Min({p - s, n}) = IF p - s <= n THEN p - s ELSE n
  BY MinOfTwo
<1>5. Before(k, i, e, p) = IF Slices(k)[i].entry # e \/ p <= s THEN 0 ELSE Min({p - s, n})
  BY <1>3, Zenon DEF Before
<1>6. LenIn(k, i, e) = IF Slices(k)[i].entry = e THEN n ELSE 0
  BY <1>3 DEF LenIn
<1> QED BY <1>3, <1>4, <1>5, <1>6

\* How far a stream has come with a slice.
LEMMA ReachedIs ==
    ASSUME SinkTypeOK, NEW k \in Streams, NEW i \in Nat
    PROVE  /\ Reached(k, i) \in Nat
           /\ Reached(k, i) = IF /\ thr[k].call \in {"write", "end"}
                                 /\ thr[k].pc \notin {"ready", "group", "done"}
                                 /\ i < thr[k].i \/ (i = thr[k].i /\ thr[k].pc = "check")
                                 /\ strm[k].flushed <= thr[k].to
                              THEN thr[k].to ELSE strm[k].flushed
<1>1. strm[k].flushed \in Nat /\ thr[k].to \in Nat
  BY DEF SinkTypeOK, StreamState, WorkerState
<1>2. PICK a \in Nat, b \in Nat : a = strm[k].flushed /\ b = thr[k].to
  BY <1>1
<1>3. Max({a, b}) = IF a <= b THEN b ELSE a
  BY MaxOfTwo
<1>4. Reached(k, i) = IF /\ thr[k].call \in {"write", "end"}
                         /\ thr[k].pc \notin {"ready", "group", "done"}
                         /\ i < thr[k].i \/ (i = thr[k].i /\ thr[k].pc = "check")
                      THEN Max({a, b}) ELSE a
  BY <1>2, Zenon DEF Reached
<1> QED BY <1>2, <1>3, <1>4

\* What is left is never less than nothing.
LEMMA RestType ==
    ASSUME SinkTypeOK, NEW k \in Streams, NEW i \in 1 .. Len(Slices(k)), NEW e
    PROVE  Rest(k, i, e) \in Nat
<1>1. Reached(k, i) \in Nat /\ job \in Cases /\ Len(Slices(k)) \in Nat
  BY ReachedIs, SliceFacts DEF SinkTypeOK
<1>2. PICK p \in Nat : p = Reached(k, i)
  BY <1>1
<1>3. LenIn(k, i, e) \in Nat /\ Before(k, i, e, p) \in Nat /\ Before(k, i, e, p) <= LenIn(k, i, e)
  BY <1>1, BeforeFacts
<1> QED BY <1>2, <1>3 DEF Rest

\* The same of a whole stream.
LEMMA RestSumType ==
    ASSUME SinkTypeOK, NEW k \in Streams, NEW e
    PROVE  RestSum(k, e) \in Nat
           /\ \A i \in 1 .. Len(Slices(k)) : Rest(k, i, e) <= RestSum(k, e)
<1>1. Len(Slices(k)) \in Nat /\ DOMAIN Slices(k) = 1 .. Len(Slices(k))
  BY SliceFacts DEF SinkTypeOK
<1>2. PICK n \in Nat \ {0} : n = Len(Slices(k)) + 1
  BY <1>1
<1>3. \A i \in 1 .. n - 1 : RestOf(k, e)[i] = Rest(k, i, e) /\ Rest(k, i, e) \in Nat
  BY <1>1, <1>2, RestType DEF RestOf
<1>4. SumBefore(RestOf(k, e), n) \in Nat
  BY <1>3, SumType
<1>5. ASSUME NEW i \in 1 .. n - 1 PROVE RestOf(k, e)[i] <= SumBefore(RestOf(k, e), n)
  BY <1>3, SumPart
<1> QED BY <1>1, <1>2, <1>3, <1>4, <1>5 DEF RestSum

\* And of all streams.
LEMMA OwedType ==
    ASSUME SinkTypeOK, NEW e
    PROVE  Owed(e) \in Nat /\ \A k \in Streams : RestSum(k, e) <= Owed(e)
<1> DEFINE f == [k \in Streams |-> RestSum(k, e)]
<1>1. Len(job.streams) \in Nat
  BY PSinkAssumption DEF SinkTypeOK, Extraction
<1>2. PICK n \in Nat \ {0} : n = Len(job.streams) + 1
  BY <1>1
<1>3. \A k \in 1 .. n - 1 : f[k] = RestSum(k, e) /\ f[k] \in Nat
  BY <1>1, <1>2, RestSumType DEF Streams
<1> HIDE DEF f
<1>4. SumBefore(f, n) \in Nat
  BY <1>3, SumType
<1>5. ASSUME NEW k \in 1 .. n - 1 PROVE f[k] <= SumBefore(f, n)
  BY <1>3, SumPart
<1>6. Owed(e) = SumBefore(f, n)
  BY <1>2, OwedIsSum DEF f
<1> QED BY <1>1, <1>2, <1>3, <1>4, <1>5, <1>6 DEF Streams

\* A stream none of whose slices gets further.
LEMMA RestSumKept ==
    ASSUME SinkTypeOK, UNCHANGED job, NEW k \in Streams, NEW e,
           \A i \in 1 .. Len(Slices(k)) : Rest(k, i, e)' = Rest(k, i, e)
    PROVE  RestSum(k, e)' = RestSum(k, e)
<1>1. Len(Slices(k)) \in Nat /\ DOMAIN Slices(k) = 1 .. Len(Slices(k))
  BY SliceFacts DEF SinkTypeOK
<1>2. Slices(k)' = Slices(k)
  BY LayoutKept
<1>3. RestOf(k, e)' = RestOf(k, e)
  BY <1>1, <1>2 DEF RestOf
<1> QED BY <1>2, <1>3 DEF RestSum

\* A step in which no stream gets further with a file.
LEMMA OwedKept ==
    ASSUME SinkTypeOK, UNCHANGED job, NEW e,
           \A k \in Streams : RestSum(k, e)' = RestSum(k, e)
    PROVE  Owed(e)' = Owed(e)
<1>1. Streams' = Streams
  BY LayoutKept
<1>2. [k \in Streams |-> RestSum(k, e)]' = [k \in Streams |-> RestSum(k, e)]
  BY <1>1
<1>3. Owed(e)' = SumBefore([k \in Streams |-> RestSum(k, e)]', Len(job.streams)' + 1)
  BY Zenon DEF Owed, OverStreams, OverSlices, RestSum, RestOf, Rest
<1> QED BY <1>2, <1>3, OwedIsSum

\* A step in which one stream does.
LEMMA OwedChange ==
    ASSUME SinkTypeOK, UNCHANGED job, NEW e, NEW k \in Streams, NEW d \in Int,
           RestSum(k, e)' = RestSum(k, e) + d,
           \A m \in Streams \ {k} : RestSum(m, e)' = RestSum(m, e)
    PROVE  Owed(e)' = Owed(e) + d
<1> DEFINE f == [m \in Streams |-> RestSum(m, e)]
<1>1. Streams' = Streams /\ Len(job.streams) \in Nat
  BY LayoutKept, PSinkAssumption DEF SinkTypeOK, Extraction
<1>2. PICK n \in Nat \ {0} : n = Len(job.streams) + 1
  BY <1>1
<1>3. PICK g : g = f'
  OBVIOUS
<1>4. k \in 1 .. n - 1
  BY <1>1, <1>2 DEF Streams
<1>5. \A m \in 1 .. n - 1 : f[m] \in Nat
  BY <1>1, <1>2, RestSumType DEF Streams
<1>6. \A m \in 1 .. n - 1 : g[m] = IF m = k THEN f[m] + d ELSE f[m]
  BY <1>1, <1>2, <1>3 DEF Streams
<1>7. Owed(e)' = SumBefore(g, n)
  <2>1. Owed(e)' = SumBefore(f', Len(job.streams)' + 1)
    BY Zenon DEF Owed, OverStreams, OverSlices, RestSum, RestOf, Rest
  <2> QED BY <1>2, <1>3, <2>1
<1>8. Owed(e) = SumBefore(f, n)
  BY <1>2, OwedIsSum
<1>9. PICK h : h = f
  OBVIOUS
<1> HIDE DEF f
<1>10. SumBefore(g, n) = SumBefore(h, n) + d
  <2>1. \A m \in 1 .. n - 1 : h[m] \in Nat
    BY <1>5, <1>9
  <2>2. \A m \in 1 .. n - 1 : g[m] = IF m = k THEN h[m] + d ELSE h[m]
    BY <1>6, <1>9
  <2> QED BY ONLY n \in Nat \ {0}, <1>4, d \in Int, <2>1, <2>2, SumChange
<1> QED BY <1>7, <1>8, <1>9, <1>10

\* A step in which one stream gets further with one slice.
LEMMA RestSumChange ==
    ASSUME SinkTypeOK, UNCHANGED job, NEW e, NEW k \in Streams, NEW d \in Int,
           NEW i \in 1 .. Len(Slices(k)), Rest(k, i, e)' = Rest(k, i, e) + d,
           \A j \in 1 .. Len(Slices(k)) : j # i => Rest(k, j, e)' = Rest(k, j, e)
    PROVE  RestSum(k, e)' = RestSum(k, e) + d
<1>1. Len(Slices(k)) \in Nat /\ DOMAIN Slices(k) = 1 .. Len(Slices(k))
  BY SliceFacts DEF SinkTypeOK
<1>2. Slices(k)' = Slices(k)
  BY LayoutKept
<1>3. PICK n \in Nat \ {0} : n = Len(Slices(k)) + 1
  BY <1>1
<1>4. PICK f, g : f = RestOf(k, e) /\ g = RestOf(k, e)'
  OBVIOUS
<1>5. i \in 1 .. n - 1 /\ \A j \in 1 .. n - 1 : f[j] \in Nat
  BY <1>1, <1>3, <1>4, RestType DEF RestOf
<1>6. \A j \in 1 .. n - 1 : g[j] = IF j = i THEN f[j] + d ELSE f[j]
  BY <1>1, <1>2, <1>3, <1>4 DEF RestOf
<1>7. SumBefore(g, n) = SumBefore(f, n) + d
  BY ONLY n \in Nat \ {0}, d \in Int, <1>5, <1>6, SumChange
<1> QED BY <1>2, <1>3, <1>4, <1>7 DEF RestSum

\* A stream that starts over.
LEMMA RestSumRewind ==
    ASSUME SinkTypeOK, UNCHANGED job, NEW e, NEW k \in Streams,
           \A i \in 1 .. Len(Slices(k)) :
               /\ Reached(k, i) = strm[k].flushed /\ Reached(k, i)' = 0
    PROVE  WrittenOf(k, e) \in Nat /\ RestSum(k, e)' = RestSum(k, e) + WrittenOf(k, e)
<1>1. Len(Slices(k)) \in Nat /\ DOMAIN Slices(k) = 1 .. Len(Slices(k)) /\ job \in Cases
  BY SliceFacts DEF SinkTypeOK
<1>2. Slices(k)' = Slices(k)
  BY LayoutKept
<1>3. PICK n \in Nat \ {0} : n = Len(Slices(k)) + 1
  BY <1>1
<1>4. PICK p \in Nat : p = strm[k].flushed
  BY DEF SinkTypeOK, StreamState
<1> DEFINE w == [i \in DOMAIN Slices(k) |-> Before(k, i, e, strm[k].flushed)]
<1>5. PICK f, g, h : f = RestOf(k, e) /\ g = RestOf(k, e)' /\ h = w
  OBVIOUS
<1>6. ASSUME NEW j \in 1 .. n - 1
      PROVE  f[j] \in Nat /\ h[j] \in Nat /\ g[j] = f[j] + h[j]
  <2>1. j \in 1 .. Len(Slices(k)) /\ j \in DOMAIN Slices(k) /\ j \in DOMAIN Slices(k)'
    BY <1>1, <1>2, <1>3
  <2>2. f[j] = Rest(k, j, e) /\ g[j] = Rest(k, j, e)' /\ h[j] = Before(k, j, e, p)
    BY <1>4, <1>5, <2>1 DEF RestOf
  <2>3. LenIn(k, j, e) \in Nat /\ Before(k, j, e, p) \in Nat /\ Before(k, j, e, p) <= LenIn(k, j, e)
    BY <1>1, <2>1, BeforeFacts
  <2>4. PICK z \in Nat : z = 0
    OBVIOUS
  <2>5. Before(k, j, e, z) = 0
    BY <1>1, <2>1, <2>4, BeforeFacts
  <2>6. Rest(k, j, e) = LenIn(k, j, e) - Before(k, j, e, p)
    BY <1>4, <2>1 DEF Rest
  <2>7. Rest(k, j, e)' = LenIn(k, j, e) - Before(k, j, e, z)
    <3>1. Rest(k, j, e)' = LenIn(k, j, e)' - Before(k, j, e, Reached(k, j))'
      BY DEF Rest
    <3>2. Before(k, j, e, Reached(k, j))' = Before(k, j, e, z)
      BY <2>1, <2>4, <1>2, Zenon DEF Before, Spos, Slices
    <3>3. LenIn(k, j, e)' = LenIn(k, j, e)
      BY LayoutKept
    <3> QED BY <3>1, <3>2, <3>3
  <2> QED BY <2>2, <2>3, <2>5, <2>6, <2>7
<1> HIDE DEF w
<1>7. SumBefore(g, n) = SumBefore(f, n) + SumBefore(h, n)
  BY <1>6, SumPlus
<1>8. SumBefore(h, n) \in Nat
  BY <1>6, SumType
<1>9. WrittenOf(k, e) = SumBefore(h, n)
  BY <1>3, <1>5, Zenon DEF WrittenOf, OverSlices, w
<1> QED BY <1>2, <1>3, <1>5, <1>7, <1>8, <1>9 DEF RestSum

-----------------------------------------------------------------------------
(* Steps of one worker                                                     *)

\* How far a stream has come after a step.
LEMMA ReachedNext ==
    ASSUME NEW k, NEW i \in Nat, thr'[k] \in WorkerState, strm'[k] \in StreamState
    PROVE  /\ Reached(k, i)' \in Nat
           /\ Reached(k, i)' = IF /\ thr'[k].call \in {"write", "end"}
                                  /\ thr'[k].pc \notin {"ready", "group", "done"}
                                  /\ i < thr'[k].i \/ (i = thr'[k].i /\ thr'[k].pc = "check")
                                  /\ strm'[k].flushed <= thr'[k].to
                               THEN thr'[k].to ELSE strm'[k].flushed
<1>1. strm'[k].flushed \in Nat /\ thr'[k].to \in Nat
  BY DEF StreamState, WorkerState
<1>2. PICK a \in Nat, b \in Nat : a = strm'[k].flushed /\ b = thr'[k].to
  BY <1>1
<1>3. Max({a, b}) = IF a <= b THEN b ELSE a
  BY MaxOfTwo
<1>4. Reached(k, i)' = IF /\ thr'[k].call \in {"write", "end"}
                          /\ thr'[k].pc \notin {"ready", "group", "done"}
                          /\ i < thr'[k].i \/ (i = thr'[k].i /\ thr'[k].pc = "check")
                       THEN Max({a, b}) ELSE a
  BY <1>2, Zenon DEF Reached
<1> QED BY <1>2, <1>3, <1>4

\* What is left after a step.
LEMMA RestNext ==
    ASSUME UNCHANGED job, NEW k, NEW i, NEW e, NEW p, p = Reached(k, i)'
    PROVE  Rest(k, i, e)' = LenIn(k, i, e) - Before(k, i, e, p)
<1>1. Rest(k, i, e)' = LenIn(k, i, e)' - Before(k, i, e, Reached(k, i))'
  BY DEF Rest
<1>2. Before(k, i, e, Reached(k, i))' = Before(k, i, e, p)
  BY Zenon DEF Before, Spos, Slices
<1>3. LenIn(k, i, e)' = LenIn(k, i, e)
  BY LayoutKept
<1> QED BY <1>1, <1>2, <1>3

\* A worker that gets no further with a slice.
LEMMA RestKept ==
    ASSUME UNCHANGED job, NEW k, NEW i, NEW e, Reached(k, i)' = Reached(k, i)
    PROVE  Rest(k, i, e)' = Rest(k, i, e)
<1>1. PICK p : p = Reached(k, i)'
  OBVIOUS
<1>2. Rest(k, i, e)' = LenIn(k, i, e) - Before(k, i, e, p)
  BY <1>1, RestNext
<1> QED BY <1>1, <1>2 DEF Rest

\* How much may be flushed after a step.
LEMMA FlushNext ==
    ASSUME UNCHANGED job, NEW k, NEW p, p = strm'[k].produced
    PROVE  /\ MayFlush(k)' = SafeFlushPoint(k, p)
           /\ EndFlush(k)' = IF strm'[k].ends = "fail" THEN SafeFlushPoint(k, p) ELSE p
<1>1. SafeFlushPoint(k, strm[k].produced)' = SafeFlushPoint(k, p)'
  BY Zenon DEF SafeFlushPoint, GroupStart, Groups, FirstOf, Spos, Slices
<1>2. MayFlush(k)' = SafeFlushPoint(k, p)
  BY <1>1, LayoutKept DEF MayFlush
<1> QED BY <1>2 DEF EndFlush

\* What stays while the stream does not decode.
LEMMA FlushKept ==
    ASSUME UNCHANGED job, NEW k, strm'[k].produced = strm[k].produced, strm'[k].ends = strm[k].ends
    PROVE  MayFlush(k)' = MayFlush(k) /\ EndFlush(k)' = EndFlush(k)
<1>1. PICK p : p = strm'[k].produced
  OBVIOUS
<1>2. MayFlush(k)' = SafeFlushPoint(k, p)
      /\ EndFlush(k)' = IF strm'[k].ends = "fail" THEN SafeFlushPoint(k, p) ELSE p
  BY <1>1, FlushNext
<1> QED BY <1>1, <1>2 DEF MayFlush, EndFlush

\* A worker that does not move.
LEMMA StaysPut ==
    ASSUME UNCHANGED job, SinkTypeOK, NEW m \in Streams, thr'[m] = thr[m], strm'[m] = strm[m]
    PROVE  /\ AtSlice(m) => AtSlice(m)'
           /\ Flushed(m) => Flushed(m)'
           /\ Ent(m)' = Ent(m)
           /\ HasBytes(m) /\ (outFile[Ent(m)].created => outFile'[Ent(m)].created) => HasBytes(m)'
           /\ \A e : RestSum(m, e)' = RestSum(m, e)
           /\ BadSlices(m)' = BadSlices(m)
<1>0. /\ Slices(m)' = Slices(m) /\ \A p : SafeFlushPoint(m, p)' = SafeFlushPoint(m, p)
      /\ \A i : Spos(m, i)' = Spos(m, i) /\ Send(m, i)' = Send(m, i)
  BY LayoutKept
<1>1. AtSlice(m) => AtSlice(m)'
  BY <1>0 DEF AtSlice
<1>2. MayFlush(m)' = MayFlush(m) /\ EndFlush(m)' = EndFlush(m)
  BY FlushKept
<1>4. Flushed(m) => Flushed(m)'
  BY <1>2 DEF Flushed
<1>5. Slice(m)' = Slice(m) /\ Ent(m)' = Ent(m)
  BY <1>0 DEF Slice, Ent
<1>6. FromPos(m)' = FromPos(m) /\ ToPos(m)' = ToPos(m)
  BY Zenon DEF FromPos, ToPos, Spos, Send, Slices
<1>7. HasBytes(m) /\ (outFile[Ent(m)].created => outFile'[Ent(m)].created) => HasBytes(m)'
  BY <1>5, <1>6 DEF HasBytes
<1>8. ASSUME NEW e PROVE RestSum(m, e)' = RestSum(m, e)
  <2>1. ASSUME NEW i PROVE Rest(m, i, e)' = Rest(m, i, e)
    <3>1. Reached(m, i)' = Reached(m, i)
      BY Zenon DEF Reached
    <3> QED BY <3>1, RestKept
  <2> QED BY <2>1, RestSumKept
<1>9. BadSlices(m)' = BadSlices(m)
  BY <1>0 DEF BadSlices
<1> QED BY <1>1, <1>4, <1>5, <1>7, <1>8, <1>9

\* The count of mismatches in a step that judges no slice.
LEMMA MismatchesKept ==
    ASSUME MismatchesCounted, SinkTypeOK, UNCHANGED <<job, mismatches>>, NEW k \in Streams,
           \A m \in Streams \ {k} : thr'[m] = thr[m] /\ strm'[m] = strm[m],
           /\ strm'[k].checked = strm[k].checked /\ strm'[k].try = strm[k].try
           /\ strm'[k].pending = strm[k].pending,
           thr'[k].call \in {"begin", "write"} => thr[k].call \in {"begin", "write"}
    PROVE  MismatchesCounted'
<1>1. Streams' = Streams /\ \A m \in Streams : Slices(m)' = Slices(m)
  BY LayoutKept
<1>2. \A m \in Streams : BadSlices(m)' = BadSlices(m)
  BY <1>1 DEF BadSlices
<1>3. [m \in Streams |-> Cardinality(BadSlices(m))]' = [m \in Streams |-> Cardinality(BadSlices(m))]
  BY <1>1, <1>2
<1>4. mismatches' = OverStreams([m \in Streams |-> Cardinality(BadSlices(m))])'
  BY <1>3 DEF MismatchesCounted, OverStreams
<1>5. \A m \in Streams : thr'[m].call \in {"begin", "write"}
                         => strm'[m].pending = Cardinality(BadSlices(m))'
  BY <1>2 DEF MismatchesCounted
<1> QED BY <1>1, <1>4, <1>5 DEF MismatchesCounted

\* All workers, when one has moved and files are only created.
LEMMA WorkersKept ==
    ASSUME SinkTypeOK, UNCHANGED job, NEW k \in Streams,
           \A m \in Streams : AtSlice(m) /\ Flushed(m) /\ HasBytes(m),
           \A m \in Streams \ {k} : thr'[m] = thr[m] /\ strm'[m] = strm[m],
           \A d \in Entries : outFile[d].created => outFile'[d].created,
           AtSlice(k)', Flushed(k)', HasBytes(k)'
    PROVE  (\A m \in Streams : AtSlice(m) /\ Flushed(m) /\ HasBytes(m))'
<1>1. Streams' = Streams
  BY LayoutKept
<1>2. ASSUME NEW m \in Streams \ {k} PROVE AtSlice(m)' /\ Flushed(m)' /\ HasBytes(m)'
  <2>1. AtSlice(m)' /\ Flushed(m)'
    BY StaysPut
  <2>2. CASE thr[m].pc = "write"
    <3>1. Ent(m) \in Entries
      BY <2>2, EntType DEF AtSlice
    <3> QED BY <2>1, <3>1, StaysPut
  <2>3. CASE thr[m].pc # "write"
    <3>1. Slice(m)' = Slice(m)
      BY LayoutKept DEF Slice
    <3>2. FromPos(m)' = FromPos(m) /\ ToPos(m)' = ToPos(m)
      BY Zenon DEF FromPos, ToPos, Spos, Send, Slices
    <3> QED BY <2>1, <2>3, <3>1, <3>2 DEF HasBytes
  <2> QED BY <2>2, <2>3
<1> QED BY <1>1, <1>2

\* A step that leaves the files, the disk and the questions alone.
LEMMA QuietStep ==
    ASSUME SinkInv, NEW k \in Streams, UNCHANGED <<job, outFile, outDisk, declined>>, SinkTypeOK',
           \A m \in Streams \ {k} : thr'[m] = thr[m] /\ strm'[m] = strm[m],
           AtSlice(k)', Flushed(k)', HasBytes(k)',
           thr'[k].pc \in {"asklock", "answer"}
              => thr[k].pc \in {"asklock", "answer"} /\ thr'[k].i = thr[k].i,
           \A e \in Entries : \A i \in 1 .. Len(Slices(k)) : Rest(k, i, e)' = Rest(k, i, e),
           MismatchesCounted'
    PROVE  SinkInv'
<1>1. (\A m \in Streams : AtSlice(m) /\ Flushed(m) /\ HasBytes(m))'
  BY WorkersKept DEF SinkInv
<1>2. Streams' = Streams /\ \A m \in Streams : Slices(m)' = Slices(m)
  BY LayoutKept
<1>3. OneAsks'
  <2>1. \A m \in Streams : thr'[m].pc \in {"asklock", "answer"}
                           => thr[m].pc \in {"asklock", "answer"} /\ Ent(m)' = Ent(m)
    BY <1>2 DEF Ent, Slice
  <2> QED BY <1>2, <2>1 DEF OneAsks, SinkInv, AsksAbout
<1>4. ASSUME NEW e \in Entries PROVE Decided(e)' /\ Counted(e)'
  <2>1. \A m \in Streams : RestSum(m, e)' = RestSum(m, e)
    <3>1. RestSum(k, e)' = RestSum(k, e)
      BY RestSumKept DEF SinkInv
    <3>2. \A m \in Streams \ {k} : RestSum(m, e)' = RestSum(m, e)
      BY StaysPut DEF SinkInv
    <3> QED BY <3>1, <3>2
  <2>2. Owed(e)' = Owed(e)
    BY <2>1, OwedKept DEF SinkInv
  <2> QED BY <2>2 DEF SinkInv, Decided, Counted, Healthy
<1>5. NewIsCreated'
  BY DEF SinkInv, NewIsCreated
<1> QED BY <1>1, <1>3, <1>4, <1>5 DEF SinkInv

\* What the stream of a worker holds when it is between two calls.
LEMMA AtRest ==
    ASSUME SinkTypeOK, NEW k \in Streams, Flushed(k), thr[k].pc \in {"start", "ready"}
    PROVE  /\ thr[k].call \in {"begin", "write"} /\ strm[k].ends = "no"
           /\ strm[k].flushed = SafeFlushPoint(k, strm[k].produced)
           /\ strm[k].heldBase = strm[k].flushed
           /\ ~job.incremental => strm[k].produced = 0
<1>1. thr[k].call \in {"begin", "write", "end", "group"}
  BY DEF SinkTypeOK, WorkerState
<1> QED BY <1>1 DEF Flushed, MayFlush

\* The types of a step that moves one worker.
LEMMA TypeKept ==
    ASSUME SinkTypeOK, NEW k \in Streams, NEW v \in WorkerState, NEW u \in StreamState,
           thr' = [thr EXCEPT ![k] = v], strm' = [strm EXCEPT ![k] = u],
           UNCHANGED <<job, outFile, outDisk, always, declined, allClosed>>,
           asking' \in {0} \cup Streams, mismatches' \in Nat
    PROVE  /\ SinkTypeOK' /\ thr'[k] = v /\ strm'[k] = u
           /\ \A m \in Streams \ {k} : thr'[m] = thr[m] /\ strm'[m] = strm[m]
<1>1. Streams' = Streams
  BY LayoutKept
<1>2. thr' \in [Streams -> WorkerState] /\ strm' \in [Streams -> StreamState]
  BY DEF SinkTypeOK
<1> QED BY <1>1, <1>2 DEF SinkTypeOK

\* StreamBegin: the worker creates its first file, or has none.
LEMMA BeginInv ==
    ASSUME SinkInv, NEW k \in Streams, StreamBegin(k)
    PROVE  SinkInv'
<1>1. /\ SinkTypeOK /\ AtSlice(k) /\ Flushed(k) /\ HasBytes(k) /\ MismatchesCounted
      /\ thr[k].pc = "start" /\ job \in Cases
  BY DEF SinkInv, StreamBegin, SinkTypeOK
<1>2. UNCHANGED <<job, outFile, outDisk, always, asking, declined, mismatches, allClosed>>
  BY DEF StreamBegin
<1>3. /\ thr[k] \in WorkerState /\ strm[k] \in StreamState /\ thr[k].call = "begin"
      /\ thr \in [Streams -> WorkerState] /\ strm \in [Streams -> StreamState]
  BY <1>1 DEF SinkTypeOK, Flushed
<1> DEFINE first == Slices(k) # <<>>
           v == IF first THEN [thr[k] EXCEPT !.pc = "create", !.call = "begin", !.i = 1]
                ELSE [thr[k] EXCEPT !.pc = "ready"]
           u == IF first THEN [strm[k] EXCEPT !.entered = 1] ELSE strm[k]
<1>4. thr' = [thr EXCEPT ![k] = v] /\ strm' = [strm EXCEPT ![k] = u]
  BY <1>3, Zenon DEF StreamBegin, Goto
<1>5. /\ v \in WorkerState /\ u \in StreamState /\ v.call = "begin"
      /\ v.pc = IF first THEN "create" ELSE "ready"
      /\ v.i = IF first THEN 1 ELSE thr[k].i
      /\ u.flushed = strm[k].flushed /\ u.produced = strm[k].produced /\ u.ends = strm[k].ends
      /\ u.heldBase = strm[k].heldBase /\ u.checked = strm[k].checked /\ u.try = strm[k].try
      /\ u.pending = strm[k].pending
  BY <1>3 DEF WorkerState, StreamState
<1> HIDE DEF v, u, first
<1>6. /\ SinkTypeOK' /\ thr'[k] = v /\ strm'[k] = u
      /\ \A m \in Streams \ {k} : thr'[m] = thr[m] /\ strm'[m] = strm[m]
  BY <1>1, <1>2, <1>4, <1>5, TypeKept DEF SinkTypeOK
<1>7. AtSlice(k)'
  <2>1. first => 1 <= Len(Slices(k))
    BY SliceFacts, <1>1 DEF first
  <2>2. Len(Slices(k)) \in Nat /\ Slices(k)' = Slices(k)
    BY SliceFacts, LayoutKept, <1>1, <1>2
  <2> QED BY <1>1, <1>5, <1>6, <2>1, <2>2 DEF AtSlice
<1>8. Flushed(k)'
  BY <1>1, <1>2, <1>3, <1>5, <1>6, FlushKept DEF Flushed
<1>9. HasBytes(k)'
  BY <1>5, <1>6 DEF HasBytes
<1>10. ASSUME NEW e \in Entries, NEW i \in 1 .. Len(Slices(k)) PROVE Rest(k, i, e)' = Rest(k, i, e)
  <2>1. i \in Nat
    OBVIOUS
  <2>2. Reached(k, i)' = Reached(k, i)
    BY <1>1, <1>3, <1>5, <1>6, <2>1, ReachedIs, ReachedNext
  <2> QED BY <1>2, <2>2, RestKept
<1>11. MismatchesCounted'
  BY <1>1, <1>2, <1>3, <1>5, <1>6, MismatchesKept
<1>12. thr'[k].pc \notin {"asklock", "answer"}
  BY <1>5, <1>6
<1> QED BY <1>2, <1>6, <1>7, <1>8, <1>9, <1>10, <1>11, <1>12, QuietStep

\* The length of a stream is a number.
LEMMA TotalType ==
    ASSUME job \in Cases, NEW k \in Streams
    PROVE  Total(k) \in Nat
<1>1. Len(Slices(k)) \in Nat
  BY SliceFacts
<1>2. PICK i \in 1 .. Len(Slices(k)) + 1 : i = Len(Slices(k)) + 1
  BY <1>1
<1>3. Spos(k, i) \in Nat
  BY SposType
<1> QED BY <1>2, <1>3 DEF Total

\* StreamWrite: more is decoded, and more may be flushed.
LEMMA WriteInv ==
    ASSUME SinkInv, NEW k \in Streams, NEW n \in 1 .. MaxChunk, StreamWrite(k, n)
    PROVE  SinkInv'
<1>1. /\ SinkTypeOK /\ AtSlice(k) /\ Flushed(k) /\ HasBytes(k) /\ MismatchesCounted
      /\ thr[k].pc = "ready" /\ job.incremental /\ job \in Cases
  BY DEF SinkInv, StreamWrite, SinkTypeOK
<1>2. UNCHANGED <<job, outFile, outDisk, always, asking, declined, mismatches, allClosed>>
  BY DEF StreamWrite
<1>3. /\ thr[k] \in WorkerState /\ strm[k] \in StreamState
      /\ thr \in [Streams -> WorkerState] /\ strm \in [Streams -> StreamState]
  BY <1>1 DEF SinkTypeOK
<1>4. PICK p \in Nat : p = strm[k].produced
  BY <1>3 DEF StreamState
<1>5. PICK to \in Nat : to = Min({p + n, Total(k)}) /\ p <= to
  <2>1. PICK t \in Nat : t = Total(k)
    BY <1>1, TotalType
  <2>2. PICK m \in Nat : m = p + n
    BY PSinkAssumption
  <2>3. Min({m, t}) = IF m <= t THEN m ELSE t
    BY MinOfTwo
  <2>4. p < t
    BY <1>4, <2>1 DEF StreamWrite
  <2> QED BY <2>1, <2>2, <2>3, <2>4, PSinkAssumption
<1>6. /\ SafeFlushPoint(k, p) \in Nat /\ SafeFlushPoint(k, to) \in Nat
      /\ SafeFlushPoint(k, p) <= SafeFlushPoint(k, to)
  <2>1. to <= to
    OBVIOUS
  <2>2. SafeFlushPoint(k, p) \in Nat /\ SafeFlushPoint(k, p) <= SafeFlushPoint(k, to)
    BY <1>1, <1>5, SafeFlushFacts
  <2>3. SafeFlushPoint(k, to) \in Nat
    BY <1>1, <2>1, SafeFlushFacts
  <2> QED BY <2>2, <2>3
<1>7. PICK f \in Nat : f = SafeFlushPoint(k, to)
  BY <1>6
<1>8. PICK h \in Nat : h = IF job.policy = "group" THEN strm[k].heldBase ELSE p
  BY <1>3 DEF StreamState
<1> DEFINE v == [thr[k] EXCEPT !.pc = "slice", !.call = "write", !.i = 1, !.to = f]
           u == [strm[k] EXCEPT !.produced = to, !.heldBase = h]
<1>9. thr' = [thr EXCEPT ![k] = v] /\ strm' = [strm EXCEPT ![k] = u]
  <2>1. /\ strm' = [strm EXCEPT ![k].produced = to,
                                ![k].heldBase = IF job.policy = "group" THEN @ ELSE strm[k].produced]
        /\ thr' = [thr EXCEPT ![k].pc = "slice", ![k].call = "write", ![k].i = 1,
                              ![k].to = SafeFlushPoint(k, to)]
    BY <1>4, <1>5, Zenon DEF StreamWrite
  <2>2. strm' = [strm EXCEPT ![k] = u]
    BY <1>3, <1>4, <1>8, <2>1 DEF StreamState
  <2>3. thr' = [thr EXCEPT ![k] = v]
    BY <1>3, <1>7, <2>1 DEF WorkerState
  <2> QED BY <2>2, <2>3
<1>10. /\ v \in WorkerState /\ u \in StreamState /\ v.call = "write" /\ v.pc = "slice" /\ v.i = 1
       /\ v.to = f /\ u.flushed = strm[k].flushed /\ u.produced = to /\ u.ends = strm[k].ends
       /\ u.heldBase = h /\ u.checked = strm[k].checked /\ u.try = strm[k].try
       /\ u.pending = strm[k].pending
  BY <1>3 DEF WorkerState, StreamState
<1> HIDE DEF v, u
<1>11. /\ SinkTypeOK' /\ thr'[k] = v /\ strm'[k] = u
       /\ \A m \in Streams \ {k} : thr'[m] = thr[m] /\ strm'[m] = strm[m]
  BY <1>1, <1>2, <1>9, <1>10, TypeKept DEF SinkTypeOK
<1>12. AtSlice(k)'
  <2>1. Len(Slices(k)) \in Nat /\ Slices(k)' = Slices(k)
    BY SliceFacts, LayoutKept, <1>1, <1>2
  <2> QED BY <1>1, <1>10, <1>11, <2>1 DEF AtSlice
<1>13. /\ thr[k].call \in {"begin", "write"} /\ strm[k].ends = "no"
       /\ strm[k].flushed = SafeFlushPoint(k, p) /\ strm[k].heldBase = strm[k].flushed
  BY <1>1, <1>4, AtRest
<1>14. h = strm[k].flushed
  <2>1. job.policy # "group" => SafeFlushPoint(k, p) = p
    BY DEF SafeFlushPoint
  <2> QED BY <1>8, <1>13, <2>1
<1>15. Flushed(k)'
  <2>1. MayFlush(k)' = SafeFlushPoint(k, to)
    BY <1>2, <1>10, <1>11, FlushNext
  <2> QED BY <1>1, <1>2, <1>6, <1>7, <1>10, <1>11, <1>13, <1>14, <2>1 DEF Flushed
<1>16. HasBytes(k)'
  BY <1>10, <1>11 DEF HasBytes
<1>17. ASSUME NEW e \in Entries, NEW i \in 1 .. Len(Slices(k)) PROVE Rest(k, i, e)' = Rest(k, i, e)
  <2>1. i \in Nat /\ ~ (i < 1)
    OBVIOUS
  <2>2. Reached(k, i)' = strm[k].flushed
    BY <1>10, <1>11, <2>1, ReachedNext
  <2>3. Reached(k, i) = strm[k].flushed
    BY <1>1, <2>1, ReachedIs
  <2> QED BY <1>2, <2>2, <2>3, RestKept
<1>18. MismatchesCounted'
  BY <1>1, <1>2, <1>10, <1>11, <1>13, MismatchesKept
<1>19. thr'[k].pc \notin {"asklock", "answer"}
  BY <1>10, <1>11
<1> QED BY <1>2, <1>11, <1>12, <1>15, <1>16, <1>17, <1>18, <1>19, QuietStep

\* StreamEnd: what is flushed at last is what the way it ended leaves.
LEMMA EndInv ==
    ASSUME SinkInv, NEW k \in Streams, NEW ends \in {"ok", "fail", "clean"}, NEW p \in 0 .. Total(k),
           StreamEnd(k, ends, p)
    PROVE  SinkInv'
<1>1. /\ SinkTypeOK /\ AtSlice(k) /\ Flushed(k) /\ HasBytes(k) /\ MismatchesCounted
      /\ thr[k].pc \in {"start", "ready"} /\ job \in Cases /\ p \in Nat
      /\ job.incremental => p = strm[k].produced
  BY TotalType DEF SinkInv, StreamEnd, SinkTypeOK
<1>2. UNCHANGED <<job, outFile, outDisk, always, asking, declined, mismatches, allClosed>>
  BY DEF StreamEnd
<1>3. /\ thr[k] \in WorkerState /\ strm[k] \in StreamState
      /\ thr \in [Streams -> WorkerState] /\ strm \in [Streams -> StreamState]
  BY <1>1 DEF SinkTypeOK
<1>4. PICK o \in Nat : o = strm[k].produced
  BY <1>3 DEF StreamState
<1>5. SafeFlushPoint(k, p) \in Nat /\ SafeFlushPoint(k, p) <= p
      /\ SafeFlushPoint(k, o) \in Nat /\ SafeFlushPoint(k, o) <= o
  <2>1. p <= p /\ o <= o
    BY <1>1
  <2>2. SafeFlushPoint(k, p) \in Nat /\ SafeFlushPoint(k, p) <= p
    BY <1>1, <2>1, SafeFlushFacts
  <2>3. SafeFlushPoint(k, o) \in Nat /\ SafeFlushPoint(k, o) <= o
    BY <1>1, <2>1, SafeFlushFacts
  <2> QED BY <2>2, <2>3
<1>6. PICK f \in Nat : f = IF ends = "fail" THEN SafeFlushPoint(k, p) ELSE p
  BY <1>1, <1>5
<1> DEFINE v == [thr[k] EXCEPT !.pc = "slice", !.call = "end", !.i = 1, !.to = f]
           u == [strm[k] EXCEPT !.produced = p, !.ends = ends]
<1>7. thr' = [thr EXCEPT ![k] = v] /\ strm' = [strm EXCEPT ![k] = u]
  <2>1. /\ strm' = [strm EXCEPT ![k].produced = p, ![k].ends = ends]
        /\ thr' = [thr EXCEPT ![k].pc = "slice", ![k].call = "end", ![k].i = 1,
                              ![k].to = IF ends = "fail" THEN SafeFlushPoint(k, p) ELSE p]
    BY Zenon DEF StreamEnd
  <2>2. strm' = [strm EXCEPT ![k] = u]
    BY <1>3, <2>1 DEF StreamState
  <2>3. thr' = [thr EXCEPT ![k] = v]
    BY <1>3, <1>6, <2>1 DEF WorkerState
  <2> QED BY <2>2, <2>3
<1>8. /\ v \in WorkerState /\ u \in StreamState /\ v.call = "end" /\ v.pc = "slice" /\ v.i = 1
      /\ v.to = f /\ u.flushed = strm[k].flushed /\ u.produced = p /\ u.ends = ends
      /\ u.heldBase = strm[k].heldBase /\ u.checked = strm[k].checked /\ u.try = strm[k].try
      /\ u.pending = strm[k].pending
  BY <1>1, <1>3 DEF WorkerState, StreamState
<1> HIDE DEF v, u
<1>9. /\ SinkTypeOK' /\ thr'[k] = v /\ strm'[k] = u
      /\ \A m \in Streams \ {k} : thr'[m] = thr[m] /\ strm'[m] = strm[m]
  BY <1>1, <1>2, <1>7, <1>8, TypeKept DEF SinkTypeOK
<1>10. AtSlice(k)'
  <2>1. Len(Slices(k)) \in Nat /\ Slices(k)' = Slices(k)
    BY SliceFacts, LayoutKept, <1>1, <1>2
  <2> QED BY <1>1, <1>8, <1>9, <2>1 DEF AtSlice
<1>11. /\ thr[k].call \in {"begin", "write"} /\ strm[k].flushed = SafeFlushPoint(k, o)
       /\ ~job.incremental => o = 0
  BY <1>1, <1>4, AtRest
<1>12. strm[k].flushed <= f
  <2>1. CASE job.incremental
    BY <1>1, <1>4, <1>5, <1>6, <1>11, <2>1
  <2>2. CASE ~job.incremental
    <3>1. strm[k].flushed = 0
      BY <1>5, <1>11, <2>2
    <3> QED BY <3>1
  <2> QED BY <2>1, <2>2
<1>13. Flushed(k)'
  <2>1. EndFlush(k)' = f
    BY <1>2, <1>6, <1>8, <1>9, FlushNext
  <2> QED BY <1>1, <1>2, <1>8, <1>9, <1>12, <2>1 DEF Flushed
<1>14. HasBytes(k)'
  BY <1>8, <1>9 DEF HasBytes
<1>15. ASSUME NEW e \in Entries, NEW i \in 1 .. Len(Slices(k)) PROVE Rest(k, i, e)' = Rest(k, i, e)
  <2>1. i \in Nat /\ ~ (i < 1)
    OBVIOUS
  <2>2. Reached(k, i)' = strm[k].flushed
    BY <1>8, <1>9, <2>1, ReachedNext
  <2>3. Reached(k, i) = strm[k].flushed
    <3>1. thr[k].pc = "start" => thr[k].call = "begin"
      BY <1>1 DEF Flushed
    <3> QED BY <1>1, <2>1, <3>1, ReachedIs
  <2> QED BY <1>2, <2>2, <2>3, RestKept
<1>16. MismatchesCounted'
  BY <1>1, <1>2, <1>8, <1>9, MismatchesKept
<1>17. thr'[k].pc \notin {"asklock", "answer"}
  BY <1>8, <1>9
<1> QED BY <1>2, <1>9, <1>10, <1>13, <1>14, <1>15, <1>16, <1>17, QuietStep

-----------------------------------------------------------------------------
(* The slices                                                              *)

\* The part of its slice a worker has to write.
LEMMA PartIs ==
    ASSUME SinkTypeOK, NEW k \in Streams, AtSlice(k), thr[k].i <= Len(Slices(k)), Flushed(k),
           thr[k].call \in {"write", "end"},
           NEW s, NEW n, NEW f, NEW t, s = Spos(k, thr[k].i), n = Slice(k).len,
           f = strm[k].flushed, t = thr[k].to
    PROVE  /\ s \in Nat /\ n \in Nat /\ f \in Nat /\ t \in Nat
           /\ FromPos(k) = IF s <= f THEN f ELSE s
           /\ ToPos(k) = IF s + n <= t THEN s + n ELSE t
<1>1. thr[k].i \in 1 .. Len(Slices(k)) /\ n \in Nat /\ Slice(k) = Slices(k)[thr[k].i]
  BY EntType
<1>2. s \in Nat
  <2>1. PICK j \in 1 .. Len(Slices(k)) : j = thr[k].i
    BY <1>1
  <2>2. j \in 1 .. Len(Slices(k)) + 1 /\ job \in Cases
    BY SliceFacts DEF SinkTypeOK
  <2> QED BY <2>1, <2>2, SposType
<1>3. f \in Nat /\ t \in Nat
  BY DEF SinkTypeOK, StreamState, WorkerState
<1>4. thr[k].call = "write" => strm[k].heldBase = f
  BY DEF Flushed
<1>5. FromPos(k) = Max({s, f})
  BY <1>4, Zenon DEF FromPos
<1>6. ToPos(k) = Min({s + n, t})
  BY <1>1, Zenon DEF ToPos, Send
<1>7. PICK a \in Nat, b \in Nat, c \in Nat, z \in Nat : a = s /\ b = f /\ c = t /\ z = s + n
  <2>1. s + n \in Nat
    BY ONLY <1>1, <1>2
  <2> QED BY ONLY <1>2, <1>3, <2>1
<1>8. Max({a, b}) = IF a <= b THEN b ELSE a
  BY MaxOfTwo
<1>9. Min({z, c}) = IF z <= c THEN z ELSE c
  BY MinOfTwo
<1> QED BY <1>1, <1>2, <1>3, <1>5, <1>6, <1>7, <1>8, <1>9

\* NextSlice: to the file of a slice that has something to write, or past it.
LEMMA NextSliceInv ==
    ASSUME SinkInv, NEW k \in Streams, NextSlice(k)
    PROVE  SinkInv'
<1>1. /\ SinkTypeOK /\ AtSlice(k) /\ Flushed(k) /\ HasBytes(k) /\ MismatchesCounted
      /\ thr[k].pc = "slice" /\ thr[k].i <= Len(Slices(k)) /\ job \in Cases
  BY DEF SinkInv, NextSlice, SinkTypeOK
<1>2. UNCHANGED <<job, outFile, outDisk, strm, always, asking, declined, mismatches, allClosed>>
  BY DEF NextSlice
<1>3. /\ thr[k] \in WorkerState /\ strm[k] \in StreamState
      /\ thr \in [Streams -> WorkerState] /\ strm \in [Streams -> StreamState]
  BY <1>1 DEF SinkTypeOK
<1>4. thr[k].call \in {"write", "end"} /\ strm[k].flushed <= thr[k].to
  BY <1>1, <1>3 DEF Flushed, WorkerState
<1>5. PICK j \in 1 .. Len(Slices(k)) : j = thr[k].i
  BY <1>1, EntType
<1>6. PICK s \in Nat, n \in Nat, f \in Nat, t \in Nat :
          /\ s = Spos(k, j) /\ n = Slice(k).len /\ f = strm[k].flushed /\ t = thr[k].to
          /\ FromPos(k) = IF s <= f THEN f ELSE s
          /\ ToPos(k) = IF s + n <= t THEN s + n ELSE t
  <2>1. PICK s, n, f, t : s = Spos(k, thr[k].i) /\ n = Slice(k).len
                          /\ f = strm[k].flushed /\ t = thr[k].to
    OBVIOUS
  <2> QED BY <1>1, <1>4, <1>5, <2>1, PartIs
<1>7. PICK place \in {"create", "slice", "check"}, i \in Nat :
          /\ thr' = [thr EXCEPT ![k] = [thr[k] EXCEPT !.pc = place, !.i = i]]
          /\ i = IF place = "slice" THEN j + 1 ELSE j
          /\ place = "slice" => n = 0
          /\ n # 0 => (place = "create" <=> FromPos(k) < ToPos(k))
          /\ n = 0 => place # "check"
  <2>1. CASE n = 0 /\ Passed(k)
    <3>1. thr' = [thr EXCEPT ![k].pc = "create"]
      BY <1>6, <2>1, Zenon DEF NextSlice
    <3>2. thr' = [thr EXCEPT ![k] = [thr[k] EXCEPT !.pc = "create", !.i = j]]
      BY <1>3, <1>5, <3>1 DEF WorkerState
    <3> WITNESS "create" \in {"create", "slice", "check"}, j \in Nat
    <3> QED BY <2>1, <3>2
  <2>2. CASE n = 0 /\ ~Passed(k)
    <3>1. thr' = [thr EXCEPT ![k].i = @ + 1]
      BY <1>6, <2>2, Zenon DEF NextSlice
    <3>2. PICK i \in Nat : i = j + 1
      OBVIOUS
    <3>3. thr' = [thr EXCEPT ![k] = [thr[k] EXCEPT !.pc = "slice", !.i = i]]
      BY <1>1, <1>3, <1>5, <3>1, <3>2 DEF WorkerState
    <3> WITNESS "slice" \in {"create", "slice", "check"}, i \in Nat
    <3> QED BY <2>2, <3>2, <3>3
  <2>3. CASE n # 0 /\ FromPos(k) < ToPos(k)
    <3>1. thr' = [thr EXCEPT ![k].pc = "create"]
      BY <1>6, <2>3, Zenon DEF NextSlice
    <3>2. thr' = [thr EXCEPT ![k] = [thr[k] EXCEPT !.pc = "create", !.i = j]]
      BY <1>3, <1>5, <3>1 DEF WorkerState
    <3> WITNESS "create" \in {"create", "slice", "check"}, j \in Nat
    <3> QED BY <2>3, <3>2
  <2>4. CASE n # 0 /\ ~(FromPos(k) < ToPos(k))
    <3>1. thr' = [thr EXCEPT ![k].pc = "check"]
      BY <1>6, <2>4, Zenon DEF NextSlice
    <3>2. thr' = [thr EXCEPT ![k] = [thr[k] EXCEPT !.pc = "check", !.i = j]]
      BY <1>3, <1>5, <3>1 DEF WorkerState
    <3> WITNESS "check" \in {"create", "slice", "check"}, j \in Nat
    <3> QED BY <2>4, <3>2
  <2> QED BY <2>1, <2>2, <2>3, <2>4
<1> DEFINE v == [thr[k] EXCEPT !.pc = place, !.i = i]
<1>8. /\ v \in WorkerState /\ v.call = thr[k].call /\ v.pc = place /\ v.i = i /\ v.to = thr[k].to
      /\ strm' = [strm EXCEPT ![k] = strm[k]]
  BY <1>2, <1>3 DEF WorkerState
<1>9. PICK w \in WorkerState : w = v
  BY <1>8
<1>10. thr' = [thr EXCEPT ![k] = w]
  BY <1>7, <1>9
<1> HIDE DEF v
<1>11. /\ SinkTypeOK' /\ thr'[k] = v /\ strm'[k] = strm[k]
       /\ \A m \in Streams \ {k} : thr'[m] = thr[m] /\ strm'[m] = strm[m]
  BY <1>1, <1>2, <1>3, <1>8, <1>9, <1>10, TypeKept DEF SinkTypeOK
<1>12. Slices(k)' = Slices(k) /\ Len(Slices(k)) \in Nat
  BY SliceFacts, LayoutKept, <1>1, <1>2
<1>13. AtSlice(k)'
  BY <1>1, <1>5, <1>7, <1>8, <1>11, <1>12 DEF AtSlice
<1>14. Flushed(k)'
  BY <1>1, <1>2, <1>4, <1>7, <1>8, <1>11, FlushKept DEF Flushed
<1>15. HasBytes(k)'
  <2>1. place = "create" => i = j
    BY <1>7
  <2>2. ASSUME place = "create"
        PROVE  Slice(k)' = Slice(k) /\ FromPos(k)' = FromPos(k) /\ ToPos(k)' = ToPos(k)
    <3>1. /\ thr'[k].i = thr[k].i /\ thr'[k].call = thr[k].call /\ thr'[k].to = thr[k].to
          /\ job' = job /\ strm' = strm
      BY <1>2, <1>5, <1>8, <1>11, <2>1, <2>2
    <3> QED BY <3>1, Zenon DEF Slice, FromPos, ToPos, Spos, Send, Slices
  <2>3. place # "create" => HasBytes(k)'
    BY <1>7, <1>8, <1>11 DEF HasBytes
  <2>4. place = "create" => HasBytes(k)'
    BY <1>6, <1>7, <1>8, <1>11, <2>2 DEF HasBytes
  <2> QED BY <2>3, <2>4
<1>16. ASSUME NEW e \in Entries, NEW m \in 1 .. Len(Slices(k)) PROVE Rest(k, m, e)' = Rest(k, m, e)
  <2>1. m \in Nat
    OBVIOUS
  <2>2. Reached(k, m) = IF m < j THEN t ELSE f
    BY <1>1, <1>4, <1>5, <1>6, <2>1, ReachedIs
  <2>3. Reached(k, m)' = IF m < i \/ (m = i /\ place = "check") THEN t ELSE f
    <3>1. /\ thr'[k] \in WorkerState /\ strm'[k] \in StreamState
          /\ thr'[k].call \in {"write", "end"} /\ thr'[k].pc = place /\ thr'[k].i = i
          /\ thr'[k].to = t /\ strm'[k].flushed = f /\ f <= t
      BY <1>2, <1>3, <1>4, <1>6, <1>8, <1>11
    <3>2. place \notin {"ready", "group", "done"}
      BY <1>7
    <3> QED BY ONLY <2>1, <3>1, <3>2, ReachedNext
  <2>4. CASE m # j \/ place = "create"
    <3>1. Reached(k, m)' = Reached(k, m)
      BY <1>7, <2>2, <2>3, <2>4
    <3> QED BY <1>2, <3>1, RestKept
  <2>5. CASE m = j /\ place # "create"
    <3>1. Reached(k, m) = f /\ Reached(k, m)' = t
      BY <1>7, <2>2, <2>3, <2>5
    <3>2. Rest(k, m, e)' = LenIn(k, m, e) - Before(k, m, e, t)
      BY <1>2, <3>1, RestNext
    <3>3. Rest(k, m, e) = LenIn(k, m, e) - Before(k, m, e, f)
      BY <3>1 DEF Rest
    <3>4. Slices(k)[m].len = n /\ Spos(k, m) = s
      BY <1>5, <1>6, <2>5 DEF Slice
    <3>5. /\ Before(k, m, e, f) = IF Slices(k)[m].entry # e \/ f <= s THEN 0
                                  ELSE IF f <= s + n THEN f - s ELSE n
          /\ Before(k, m, e, t) = IF Slices(k)[m].entry # e \/ t <= s THEN 0
                                  ELSE IF t <= s + n THEN t - s ELSE n
      <4>1. Before(k, m, e, f) = IF Slices(k)[m].entry # e \/ f <= Spos(k, m) THEN 0
                                 ELSE IF f <= Spos(k, m) + Slices(k)[m].len THEN f - Spos(k, m)
                                 ELSE Slices(k)[m].len
        BY <1>1, BeforeFacts
      <4>2. Before(k, m, e, t) = IF Slices(k)[m].entry # e \/ t <= Spos(k, m) THEN 0
                                 ELSE IF t <= Spos(k, m) + Slices(k)[m].len THEN t - Spos(k, m)
                                 ELSE Slices(k)[m].len
        BY <1>1, BeforeFacts
      <4> QED BY <3>4, <4>1, <4>2
    <3>6. Before(k, m, e, f) = Before(k, m, e, t)
      <4>1. f <= t
        BY <1>4, <1>6
      <4>2. CASE n = 0
        BY <3>5, <4>2
      <4>3. CASE n # 0
        <5>1. ~ (FromPos(k) < ToPos(k))
          BY <1>7, <2>5, <4>3
        <5>2. ~ ((IF s <= f THEN f ELSE s) < (IF s + n <= t THEN s + n ELSE t))
          BY <1>6, <5>1
        <5> HIDE <1>5, <1>6, <2>2, <2>3
        <5> QED BY <3>5, <4>1, <4>3, <5>2
      <4> QED BY <4>2, <4>3
    <3> QED BY <3>2, <3>3, <3>6
  <2> QED BY <2>4, <2>5
<1>17. MismatchesCounted'
  BY <1>1, <1>2, <1>8, <1>11, MismatchesKept
<1>18. thr'[k].pc \notin {"asklock", "answer"}
  BY <1>7, <1>8, <1>11
<1> QED BY <1>2, <1>11, <1>13, <1>14, <1>15, <1>16, <1>17, <1>18, QuietStep

\* EndSlices: what the call flushed is counted.
LEMMA EndSlicesInv ==
    ASSUME SinkInv, NEW k \in Streams, EndSlices(k)
    PROVE  SinkInv'
<1>1. /\ SinkTypeOK /\ AtSlice(k) /\ Flushed(k) /\ HasBytes(k) /\ MismatchesCounted
      /\ thr[k].pc = "slice" /\ thr[k].i > Len(Slices(k)) /\ job \in Cases
  BY DEF SinkInv, EndSlices, SinkTypeOK
<1>2. UNCHANGED <<job, outFile, outDisk, always, asking, declined, mismatches, allClosed>>
  BY DEF EndSlices
<1>3. /\ thr[k] \in WorkerState /\ strm[k] \in StreamState
      /\ thr \in [Streams -> WorkerState] /\ strm \in [Streams -> StreamState]
  BY <1>1 DEF SinkTypeOK
<1>4. thr[k].call \in {"write", "end"} /\ strm[k].flushed <= thr[k].to
  BY <1>1, <1>3 DEF Flushed, WorkerState
<1>5. PICK f \in Nat, t \in Nat, h \in Nat :
          f = strm[k].flushed /\ t = thr[k].to
          /\ h = IF thr[k].call = "write" THEN thr[k].to ELSE strm[k].heldBase
  BY <1>3 DEF WorkerState, StreamState
<1>6. Max({f, t}) = t
  BY <1>4, <1>5, MaxOfTwo
<1>7. PICK place \in {"ready", "group", "done"} :
          /\ Goto(k, place)
          /\ place = "ready" <=> thr[k].call = "write"
  BY Zenon DEF EndSlices
<1> DEFINE v == [thr[k] EXCEPT !.pc = place]
           u == [strm[k] EXCEPT !.flushed = t, !.heldBase = h]
<1>8. thr' = [thr EXCEPT ![k] = v] /\ strm' = [strm EXCEPT ![k] = u]
  <2>1. strm' = [strm EXCEPT ![k].flushed = Max({@, t}), ![k].heldBase = h]
    <3>1. strm' = [strm EXCEPT ![k].flushed = Max({@, thr[k].to}),
                               ![k].heldBase = IF thr[k].call = "write" THEN thr[k].to ELSE @]
      BY Zenon DEF EndSlices
    <3>2. [strm[k] EXCEPT !.flushed = Max({@, thr[k].to}),
                          !.heldBase = IF thr[k].call = "write" THEN thr[k].to ELSE @]
          = [strm[k] EXCEPT !.flushed = Max({@, t}), !.heldBase = h]
      BY <1>3, <1>5 DEF StreamState
    <3> QED BY <1>3, <1>5, <3>1, <3>2
  <2>2. [strm[k] EXCEPT !.flushed = Max({@, t}), !.heldBase = h] = u
    BY <1>3, <1>5, <1>6
  <2>3. strm' = [strm EXCEPT ![k] = u]
    BY <1>3, <1>5, <1>6, <2>1, <2>2
  <2>4. thr' = [thr EXCEPT ![k].pc = place]
    BY <1>7 DEF Goto
  <2>5. thr' = [thr EXCEPT ![k] = v]
    BY <1>3, <2>4
  <2> QED BY <2>3, <2>5
<1>9. /\ v \in WorkerState /\ u \in StreamState /\ v.call = thr[k].call /\ v.pc = place
      /\ v.i = thr[k].i /\ v.to = t /\ u.flushed = t /\ u.produced = strm[k].produced
      /\ u.ends = strm[k].ends /\ u.heldBase = h /\ u.checked = strm[k].checked
      /\ u.try = strm[k].try /\ u.pending = strm[k].pending
  BY <1>3, <1>5 DEF WorkerState, StreamState
<1> HIDE DEF v, u
<1>10. /\ SinkTypeOK' /\ thr'[k] = v /\ strm'[k] = u
       /\ \A m \in Streams \ {k} : thr'[m] = thr[m] /\ strm'[m] = strm[m]
  BY <1>1, <1>2, <1>8, <1>9, TypeKept DEF SinkTypeOK
<1>11. AtSlice(k)'
  <2>1. Len(Slices(k)) \in Nat /\ Slices(k)' = Slices(k)
    BY SliceFacts, LayoutKept, <1>1, <1>2
  <2> QED BY <1>1, <1>9, <1>10, <2>1 DEF AtSlice
<1>12. Flushed(k)'
  <2>1. MayFlush(k)' = MayFlush(k) /\ EndFlush(k)' = EndFlush(k)
    BY <1>2, <1>9, <1>10, FlushKept
  <2>2. CASE thr[k].call = "write"
    BY <1>1, <1>2, <1>5, <1>7, <1>9, <1>10, <2>1, <2>2 DEF Flushed
  <2>3. CASE thr[k].call = "end"
    <3>1. t = EndFlush(k) /\ place \in {"group", "done"}
      BY <1>1, <1>5, <1>7, <2>3 DEF Flushed
    <3>2. /\ thr'[k].call = "end" /\ thr'[k].pc \in {"group", "done"}
          /\ strm'[k].flushed = EndFlush(k)'
      BY <1>9, <1>10, <2>1, <2>3, <3>1
    <3> QED BY <3>2 DEF Flushed
  <2> QED BY <1>4, <2>2, <2>3
<1>13. HasBytes(k)'
  BY <1>9, <1>10 DEF HasBytes
<1>14. ASSUME NEW e \in Entries, NEW i \in 1 .. Len(Slices(k)) PROVE Rest(k, i, e)' = Rest(k, i, e)
  <2>1. i \in Nat /\ i < thr[k].i
    BY <1>1, <1>3 DEF WorkerState
  <2>2. Reached(k, i)' = t
    BY <1>9, <1>10, <2>1, ReachedNext
  <2>3. Reached(k, i) = t
    BY <1>1, <1>4, <1>5, <2>1, ReachedIs
  <2> QED BY <1>2, <2>2, <2>3, RestKept
<1>15. MismatchesCounted'
  BY <1>1, <1>2, <1>9, <1>10, MismatchesKept
<1>16. thr'[k].pc \notin {"asklock", "answer"}
  BY <1>9, <1>10
<1> QED BY <1>2, <1>10, <1>11, <1>12, <1>13, <1>14, <1>15, <1>16, QuietStep

\* The bad slices of a stream are a number of them.
LEMMA BadCount ==
    ASSUME SinkTypeOK, NEW k \in Streams, AtSlice(k)
    PROVE  IsFiniteSet(BadSlices(k)) /\ Cardinality(BadSlices(k)) \in Nat
<1>1. Len(Slices(k)) \in Nat
  BY SliceFacts DEF SinkTypeOK
<1>2. IsFiniteSet(1 .. Len(Slices(k)))
  BY <1>1, FS_Interval
<1>3. BadSlices(k) \in SUBSET (1 .. Len(Slices(k)))
  BY DEF BadSlices, AtSlice
<1>4. IsFiniteSet(BadSlices(k))
  BY <1>2, <1>3, FS_Subset
<1> QED BY <1>4, FS_CardinalityType

\* A step that changes the mismatches counted of one stream.
LEMMA MismatchesChange ==
    ASSUME MismatchesCounted, SinkTypeOK, UNCHANGED job, NEW k \in Streams, NEW d \in Int,
           \A m \in Streams : AtSlice(m),
           \A m \in Streams \ {k} : thr'[m] = thr[m] /\ strm'[m] = strm[m],
           mismatches' = mismatches + d,
           Cardinality(BadSlices(k))' = Cardinality(BadSlices(k)) + d,
           thr'[k].call \in {"begin", "write"} => /\ thr[k].call \in {"begin", "write"}
                                                  /\ strm'[k].pending = strm[k].pending + d
    PROVE  MismatchesCounted'
<1> DEFINE f == [m \in Streams |-> Cardinality(BadSlices(m))]
<1>1. Streams' = Streams /\ Len(job.streams) \in Nat /\ \A m \in Streams : Slices(m)' = Slices(m)
  BY LayoutKept, PSinkAssumption DEF SinkTypeOK, Extraction
<1>2. PICK n \in Nat \ {0} : n = Len(job.streams) + 1
  BY <1>1
<1>3. PICK g, h : g = f' /\ h = f
  OBVIOUS
<1>4. k \in 1 .. n - 1 /\ Streams = 1 .. n - 1
  BY <1>1, <1>2 DEF Streams
<1>5. \A m \in 1 .. n - 1 : h[m] \in Nat
  BY <1>3, <1>4, BadCount
<1>6. \A m \in Streams \ {k} : BadSlices(m)' = BadSlices(m)
  BY <1>1 DEF BadSlices
<1>7. \A m \in 1 .. n - 1 : g[m] = IF m = k THEN h[m] + d ELSE h[m]
  <2>1. ASSUME NEW m \in Streams
        PROVE  Cardinality(BadSlices(m))' = IF m = k THEN Cardinality(BadSlices(m)) + d
                                            ELSE Cardinality(BadSlices(m))
    BY <1>6
  <2>2. ASSUME NEW m \in Streams
        PROVE  g[m] = Cardinality(BadSlices(m))' /\ h[m] = Cardinality(BadSlices(m))
    BY <1>1, <1>3
  <2> QED BY <1>4, <2>1, <2>2
<1>8. SumBefore(g, n) = SumBefore(h, n) + d
  BY ONLY n \in Nat \ {0}, <1>4, d \in Int, <1>5, <1>7, SumChange
<1>9. mismatches = SumBefore(h, n)
  BY <1>2, <1>3 DEF MismatchesCounted, OverStreams
<1>10. OverStreams([m \in Streams |-> Cardinality(BadSlices(m))])' = SumBefore(g, n)
  BY <1>2, <1>3 DEF OverStreams
<1> HIDE DEF f
<1>11. ASSUME NEW m \in Streams, thr'[m].call \in {"begin", "write"}
       PROVE  strm'[m].pending = Cardinality(BadSlices(m))'
  <2>1. CASE m = k
    BY <1>11, <2>1 DEF MismatchesCounted
  <2>2. CASE m # k
    BY <1>6, <1>11, <2>2 DEF MismatchesCounted
  <2> QED BY <2>1, <2>2
<1>12. mismatches' = OverStreams([m \in Streams |-> Cardinality(BadSlices(m))])'
  BY <1>8, <1>9, <1>10
<1> QED BY <1>1, <1>11, <1>12 DEF MismatchesCounted

\* Check: a slice that is out is judged, once in an attempt.
LEMMA CheckInv ==
    ASSUME SinkInv, NEW k \in Streams, Check(k)
    PROVE  SinkInv'
<1>1. /\ SinkTypeOK /\ AtSlice(k) /\ Flushed(k) /\ HasBytes(k) /\ MismatchesCounted
      /\ thr[k].pc = "check" /\ thr[k].i <= Len(Slices(k)) /\ job \in Cases
  BY DEF SinkInv, Check, SinkTypeOK, AtSlice
<1>2. UNCHANGED <<job, outFile, outDisk, always, asking, declined, allClosed>>
  BY DEF Check
<1>3. /\ thr[k] \in WorkerState /\ strm[k] \in StreamState
      /\ thr \in [Streams -> WorkerState] /\ strm \in [Streams -> StreamState]
  BY <1>1 DEF SinkTypeOK
<1>4. thr[k].call \in {"write", "end"} /\ strm[k].flushed <= thr[k].to
  BY <1>1, <1>3 DEF Flushed, WorkerState
<1>5. PICK j \in 1 .. Len(Slices(k)) : j = thr[k].i
  BY <1>1, EntType
<1>6. PICK f \in Nat, t \in Nat : f = strm[k].flushed /\ t = thr[k].to
  BY <1>3 DEF WorkerState, StreamState
<1>7. PICK judged \in BOOLEAN : judged = (IsOut(k) /\ j \notin strm[k].checked)
  OBVIOUS
<1>8. PICK bad \in {0, 1} : bad = IF judged /\ strm[k].try \in Slice(k).bad THEN 1 ELSE 0
  OBVIOUS
<1>9. PICK c \in SUBSET (1 .. Len(Slices(k))) :
         c = IF judged THEN strm[k].checked \cup {j} ELSE strm[k].checked
  BY <1>1 DEF AtSlice
<1>10. PICK q \in Nat : q = IF thr[k].call = "write" THEN strm[k].pending + bad ELSE strm[k].pending
  BY <1>3, <1>8 DEF StreamState
<1>11. PICK l \in Nat : l = j + 1
  OBVIOUS
<1> DEFINE v == [thr[k] EXCEPT !.pc = "slice", !.i = l]
           u == [strm[k] EXCEPT !.checked = c, !.pending = q]
<1>12. /\ thr' = [thr EXCEPT ![k] = v] /\ strm' = [strm EXCEPT ![k] = u]
       /\ mismatches' = mismatches + bad
  <2>1. /\ mismatches' = mismatches + bad
        /\ strm' = [strm EXCEPT ![k].checked = IF judged THEN @ \cup {thr[k].i} ELSE @,
                                ![k].pending = IF thr[k].call = "write" THEN @ + bad ELSE @]
        /\ thr' = [thr EXCEPT ![k].pc = "slice", ![k].i = @ + 1]
    <3>1. judged = (IsOut(k) /\ thr[k].i \notin strm[k].checked)
      BY <1>5, <1>7
    <3> QED BY <1>8, <3>1, Zenon DEF Check
  <2>2. strm' = [strm EXCEPT ![k] = u]
    BY <1>3, <1>5, <1>9, <1>10, <2>1 DEF StreamState
  <2>3. thr' = [thr EXCEPT ![k] = v]
    BY <1>3, <1>5, <1>11, <2>1 DEF WorkerState
  <2> QED BY <2>1, <2>2, <2>3
<1>13. /\ v \in WorkerState /\ u \in StreamState /\ v.call = thr[k].call /\ v.pc = "slice"
       /\ v.i = l /\ v.to = t /\ u.flushed = f /\ u.produced = strm[k].produced
       /\ u.ends = strm[k].ends /\ u.heldBase = strm[k].heldBase /\ u.checked = c
       /\ u.try = strm[k].try /\ u.pending = q
  <2>1. PICK d \in SUBSET Nat : d = c
    <3>1. 1 .. Len(Slices(k)) \subseteq Nat
      OBVIOUS
    <3>2. c \in SUBSET Nat
      BY <3>1, Zenon
    <3> QED BY <3>2, Zenon
  <2>2. v \in WorkerState /\ v.call = thr[k].call /\ v.pc = "slice" /\ v.i = l /\ v.to = t
    BY <1>3, <1>6 DEF WorkerState
  <2>3. /\ u \in StreamState /\ u.flushed = f /\ u.produced = strm[k].produced
        /\ u.ends = strm[k].ends /\ u.heldBase = strm[k].heldBase /\ u.checked = d
        /\ u.try = strm[k].try /\ u.pending = q
    BY <1>3, <1>6, <2>1 DEF StreamState
  <2> QED BY <2>1, <2>2, <2>3
<1> HIDE DEF v, u
<1>14. mismatches' \in Nat
  BY <1>1, <1>8, <1>12 DEF SinkTypeOK
<1>15. /\ SinkTypeOK' /\ thr'[k] = v /\ strm'[k] = u
       /\ \A m \in Streams \ {k} : thr'[m] = thr[m] /\ strm'[m] = strm[m]
  BY <1>1, <1>2, <1>12, <1>13, <1>14, TypeKept DEF SinkTypeOK
<1>16. Slices(k)' = Slices(k) /\ Len(Slices(k)) \in Nat
  BY SliceFacts, LayoutKept, <1>1, <1>2
<1>17. AtSlice(k)'
  BY <1>9, <1>11, <1>13, <1>15, <1>16 DEF AtSlice
<1>18. Flushed(k)'
  <2>1. MayFlush(k)' = MayFlush(k) /\ EndFlush(k)' = EndFlush(k)
    BY <1>2, <1>13, <1>15, FlushKept
  <2>2. CASE thr[k].call = "write"
    BY <1>1, <1>2, <1>6, <1>13, <1>15, <2>1, <2>2 DEF Flushed
  <2>3. CASE thr[k].call = "end"
    BY <1>1, <1>2, <1>6, <1>13, <1>15, <2>1, <2>3 DEF Flushed
  <2> QED BY <1>4, <2>2, <2>3
<1>19. HasBytes(k)'
  BY <1>13, <1>15 DEF HasBytes
<1>20. ASSUME NEW e \in Entries, NEW i \in 1 .. Len(Slices(k)) PROVE Rest(k, i, e)' = Rest(k, i, e)
  <2>1. i \in Nat /\ (i < l <=> (i < j \/ i = j))
    BY <1>11
  <2>2. Reached(k, i)' = IF i < l THEN t ELSE f
    BY <1>4, <1>6, <1>13, <1>15, <2>1, ReachedNext
  <2>3. Reached(k, i) = IF i < j \/ i = j THEN t ELSE f
    BY <1>1, <1>4, <1>5, <1>6, <2>1, ReachedIs
  <2> QED BY <1>2, <2>1, <2>2, <2>3, RestKept
<1>21. Cardinality(BadSlices(k))' = Cardinality(BadSlices(k)) + bad
  <2>1. IsFiniteSet(BadSlices(k)) /\ Cardinality(BadSlices(k)) \in Nat
    BY <1>1, BadCount
  <2>2. BadSlices(k)' = {i \in c : strm[k].try \in Slices(k)[i].bad}
    BY <1>13, <1>15, <1>16 DEF BadSlices
  <2>3. Slice(k).bad = Slices(k)[j].bad
    BY <1>5 DEF Slice
  <2>4. CASE bad = 1
    <3>1. BadSlices(k)' = BadSlices(k) \cup {j} /\ j \notin BadSlices(k)
      <4>1. judged /\ strm[k].try \in Slices(k)[j].bad /\ j \notin strm[k].checked
        <5>1. judged /\ strm[k].try \in Slice(k).bad
          BY <1>8, <2>4
        <5>2. j \notin strm[k].checked
          BY <1>7, <5>1, Zenon
        <5> QED BY <2>3, <5>1, <5>2, Zenon
      <4>2. c = strm[k].checked \cup {j}
        BY <1>9, <4>1
      <4> QED BY <2>2, <4>1, <4>2, Zenon DEF BadSlices
    <3>2. Cardinality(BadSlices(k) \cup {j}) = Cardinality(BadSlices(k)) + 1
      BY <2>1, <3>1, FS_AddElement
    <3> QED BY <2>4, <3>1, <3>2
  <2>5. CASE bad = 0
    <3>1. BadSlices(k)' = BadSlices(k)
      BY <1>8, <1>9, <2>2, <2>3, <2>5 DEF BadSlices
    <3> QED BY <2>1, <2>5, <3>1
  <2> QED BY <1>8, <2>4, <2>5
<1>22. MismatchesCounted'
  <2>1. /\ bad \in Int /\ \A m \in Streams : AtSlice(m)
        /\ thr'[k].call \in {"begin", "write"} => /\ thr[k].call \in {"begin", "write"}
                                                  /\ strm'[k].pending = strm[k].pending + bad
    BY <1>4, <1>8, <1>10, <1>13, <1>15 DEF SinkInv
  <2> QED BY <1>1, <1>2, <1>12, <1>15, <1>21, <2>1, MismatchesChange
<1>23. thr'[k].pc \notin {"asklock", "answer"}
  BY <1>13, <1>15
<1> QED BY <1>2, <1>15, <1>17, <1>18, <1>19, <1>20, <1>22, <1>23, QuietStep

\* EnterGroup: the next group's first file, or the end of the worker.
LEMMA EnterGroupInv ==
    ASSUME SinkInv, NEW k \in Streams, EnterGroup(k)
    PROVE  SinkInv'
<1>1. /\ SinkTypeOK /\ AtSlice(k) /\ Flushed(k) /\ HasBytes(k) /\ MismatchesCounted
      /\ thr[k].pc = "group" /\ job \in Cases
  BY DEF SinkInv, EnterGroup, SinkTypeOK
<1>2. UNCHANGED <<job, outFile, outDisk, always, asking, declined, mismatches, allClosed>>
  BY DEF EnterGroup
<1>3. /\ thr[k] \in WorkerState /\ strm[k] \in StreamState
      /\ thr \in [Streams -> WorkerState] /\ strm \in [Streams -> StreamState]
  BY <1>1 DEF SinkTypeOK
<1>4. thr[k].call \in {"end", "group"} /\ strm[k].flushed = EndFlush(k)
  BY <1>1, <1>3 DEF Flushed, WorkerState
<1>5. PICK g \in Nat : g = strm[k].entered + 1
  BY <1>3 DEF StreamState
<1>6. PICK goes \in BOOLEAN : goes = (g \in Groups(k) /\ GroupStart(k, g) <= strm[k].produced)
  OBVIOUS
<1>7. PICK i \in Nat : /\ i = IF goes THEN FirstOf(k, g) ELSE thr[k].i
                       /\ i \in 1 .. Len(Slices(k)) + 1
                       /\ goes => i <= Len(Slices(k))
  <2>1. Len(Slices(k)) \in Nat
    BY <1>1, SliceFacts
  <2>2. CASE goes
    <3>1. FirstOf(k, g) \in 1 .. Len(Slices(k))
      BY <1>1, <1>6, <2>2, FirstOfType
    <3> QED BY <2>1, <2>2, <3>1
  <2>3. CASE ~goes
    BY <1>1, <2>1, <2>3 DEF AtSlice
  <2> QED BY <2>2, <2>3
<1>8. PICK call \in {"end", "group"}, pc \in {"create", "done"}, n \in Nat :
         /\ call = IF goes THEN "group" ELSE thr[k].call
         /\ pc = IF goes THEN "create" ELSE "done"
         /\ n = IF goes THEN g ELSE strm[k].entered
  BY <1>3, <1>4 DEF StreamState
<1> DEFINE v == [thr[k] EXCEPT !.pc = pc, !.call = call, !.i = i]
           u == [strm[k] EXCEPT !.entered = n]
<1>9. thr' = [thr EXCEPT ![k] = v] /\ strm' = [strm EXCEPT ![k] = u]
  <2>1. CASE goes
    <3>1. /\ strm' = [strm EXCEPT ![k].entered = g]
          /\ thr' = [thr EXCEPT ![k].pc = "create", ![k].call = "group", ![k].i = i]
      BY <1>5, <1>6, <1>7, <2>1, Zenon DEF EnterGroup
    <3> QED BY <1>3, <1>8, <2>1, <3>1 DEF WorkerState, StreamState
  <2>2. CASE ~goes
    <3>1. thr' = [thr EXCEPT ![k].pc = "done"] /\ strm' = strm
      BY <1>5, <1>6, <2>2, Zenon DEF EnterGroup, Goto
    <3>2. v = [thr[k] EXCEPT !.pc = "done"] /\ u = strm[k]
      BY <1>3, <1>7, <1>8, <2>2 DEF WorkerState, StreamState
    <3> HIDE DEF v, u
    <3> QED BY <1>3, <3>1, <3>2
  <2> QED BY <2>1, <2>2
<1>10. /\ v \in WorkerState /\ u \in StreamState /\ v.call = call /\ v.pc = pc
       /\ v.i = i /\ v.to = thr[k].to /\ u.flushed = strm[k].flushed
       /\ u.produced = strm[k].produced /\ u.ends = strm[k].ends
       /\ u.heldBase = strm[k].heldBase /\ u.checked = strm[k].checked
       /\ u.try = strm[k].try /\ u.pending = strm[k].pending
  BY <1>3 DEF WorkerState, StreamState
<1> HIDE DEF v, u
<1>11. /\ SinkTypeOK' /\ thr'[k] = v /\ strm'[k] = u
       /\ \A m \in Streams \ {k} : thr'[m] = thr[m] /\ strm'[m] = strm[m]
  BY <1>1, <1>2, <1>9, <1>10, TypeKept DEF SinkTypeOK
<1>12. AtSlice(k)'
  <2>1. Len(Slices(k)) \in Nat /\ Slices(k)' = Slices(k)
    BY SliceFacts, LayoutKept, <1>1, <1>2
  <2> QED BY <1>1, <1>7, <1>8, <1>10, <1>11, <2>1 DEF AtSlice
<1>13. Flushed(k)'
  <2>1. EndFlush(k)' = EndFlush(k)
    BY <1>2, <1>10, <1>11, FlushKept
  <2>2. CASE goes
    BY <1>4, <1>8, <1>10, <1>11, <2>1, <2>2 DEF Flushed
  <2>3. CASE ~goes
    BY <1>4, <1>8, <1>10, <1>11, <2>1, <2>3 DEF Flushed
  <2> QED BY <2>2, <2>3
<1>14. HasBytes(k)'
  BY <1>8, <1>10, <1>11 DEF HasBytes
<1>15. ASSUME NEW e \in Entries, NEW m \in 1 .. Len(Slices(k)) PROVE Rest(k, m, e)' = Rest(k, m, e)
  <2>1. m \in Nat
    OBVIOUS
  <2>2. Reached(k, m)' = strm[k].flushed
    BY <1>8, <1>10, <1>11, <2>1, ReachedNext
  <2>3. Reached(k, m) = strm[k].flushed
    BY <1>1, <2>1, ReachedIs
  <2> QED BY <1>2, <2>2, <2>3, RestKept
<1>16. MismatchesCounted'
  BY <1>1, <1>2, <1>8, <1>10, <1>11, MismatchesKept
<1>17. thr'[k].pc \notin {"asklock", "answer"}
  BY <1>8, <1>10, <1>11
<1> QED BY <1>2, <1>11, <1>12, <1>13, <1>14, <1>15, <1>16, <1>17, QuietStep

-----------------------------------------------------------------------------
(* The files                                                               *)

\* A worker that goes on with its slice has not got further with another file.
LEMMA RestMoved ==
    ASSUME SinkTypeOK, UNCHANGED <<job, strm>>, NEW k \in Streams, AtSlice(k), Flushed(k),
           thr[k].pc \in {"create", "asklock", "answer", "write"}, thr[k].i <= Len(Slices(k)),
           NEW place \in {"ready", "group", "write", "check", "asklock", "answer"}, Goto(k, place),
           place = "ready" => thr[k].call = "begin", place = "group" => thr[k].call = "group",
           NEW e, NEW i \in 1 .. Len(Slices(k)),
           place = "check" /\ i = thr[k].i => Slice(k).entry # e \/ Slice(k).len = 0
    PROVE  Rest(k, i, e)' = Rest(k, i, e)
<1>1. /\ thr'[k].pc = place /\ thr'[k].call = thr[k].call /\ thr'[k].i = thr[k].i
      /\ thr'[k].to = thr[k].to /\ thr' \in [Streams -> WorkerState]
  BY GotoIs
<1>2. thr'[k] \in WorkerState /\ strm'[k] \in StreamState /\ strm'[k] = strm[k] /\ job \in Cases
  BY <1>1 DEF SinkTypeOK
<1>3. i \in Nat
  OBVIOUS
<1>4. CASE i = thr[k].i /\ place = "check"
  <2>1. Slice(k) = Slices(k)[i]
    BY <1>4 DEF Slice
  <2>2. PICK p \in Nat, q \in Nat : p = Reached(k, i) /\ q = Reached(k, i)'
    BY <1>2, <1>3, ReachedIs, ReachedNext
  <2>3. LenIn(k, i, e) = 0
    BY <1>4, <2>1, Zenon DEF LenIn
  <2>4. /\ Before(k, i, e, p) \in Nat /\ Before(k, i, e, p) <= LenIn(k, i, e)
    BY <1>2, BeforeFacts
  <2>5. /\ Before(k, i, e, q) \in Nat /\ Before(k, i, e, q) <= LenIn(k, i, e)
    BY <1>2, BeforeFacts
  <2>6. Before(k, i, e, p) = Before(k, i, e, q)
    BY <2>3, <2>4, <2>5
  <2>7. Rest(k, i, e)' = LenIn(k, i, e) - Before(k, i, e, q)
    BY <2>2, RestNext
  <2> QED BY <2>2, <2>6, <2>7 DEF Rest
<1>5. CASE ~ (i = thr[k].i /\ place = "check")
  <2>1. Reached(k, i) = IF /\ thr[k].call \in {"write", "end"} /\ i < thr[k].i
                           /\ strm[k].flushed <= thr[k].to
                        THEN thr[k].to ELSE strm[k].flushed
    BY <1>3, ReachedIs
  <2>2. Reached(k, i)' = IF /\ thr[k].call \in {"write", "end"} /\ i < thr[k].i
                            /\ strm[k].flushed <= thr[k].to
                         THEN thr[k].to ELSE strm[k].flushed
    <3>1. Reached(k, i)' = IF /\ thr[k].call \in {"write", "end"} /\ place \notin {"ready", "group", "done"}
                              /\ i < thr[k].i \/ (i = thr[k].i /\ place = "check")
                              /\ strm[k].flushed <= thr[k].to
                           THEN thr[k].to ELSE strm[k].flushed
      BY <1>1, <1>2, <1>3, ReachedNext
    <3>2. thr[k].call \in {"write", "end"} => place \notin {"ready", "group", "done"}
      OBVIOUS
    <3> QED BY <1>5, <3>1, <3>2
  <2> QED BY <2>1, <2>2, RestKept
<1> QED BY <1>4, <1>5

\* What a step leaves of a worker that goes on with its slice.
LEMMA WorkerMoved ==
    ASSUME SinkInv, UNCHANGED <<job, strm>>, NEW k \in Streams,
           thr[k].pc \in {"create", "asklock", "answer", "write"},
           NEW place \in {"ready", "group", "write", "check", "asklock", "answer"}, Goto(k, place),
           place = "ready" <=> thr[k].call = "begin" /\ place \notin {"asklock", "answer"},
           place = "group" <=> thr[k].call = "group" /\ place \notin {"asklock", "answer"},
           place = "write" => Slice(k).len # 0 /\ outFile'[Ent(k)].created
    PROVE  AtSlice(k)' /\ Flushed(k)' /\ HasBytes(k)'
<1>1. /\ SinkTypeOK /\ AtSlice(k) /\ Flushed(k) /\ HasBytes(k) /\ job \in Cases
      /\ thr[k].i <= Len(Slices(k))
  BY DEF SinkInv, SinkTypeOK, AtSlice
<1>2. /\ thr'[k].pc = place /\ thr'[k].call = thr[k].call /\ thr'[k].i = thr[k].i
      /\ thr'[k].to = thr[k].to
  BY <1>1, GotoIs
<1>3. thr[k].call \in {"begin", "write", "end", "group"}
  BY <1>1 DEF SinkTypeOK, WorkerState
<1>4. AtSlice(k)'
  <2>1. Slices(k)' = Slices(k)
    BY LayoutKept
  <2> QED BY <1>1, <1>2, <2>1 DEF AtSlice
<1>5. MayFlush(k)' = MayFlush(k) /\ EndFlush(k)' = EndFlush(k)
  BY FlushKept
<1>6. Flushed(k)'
  <2>1. CASE thr[k].call = "begin"
    <3>1. place \in {"ready", "asklock", "answer"}
      BY <2>1
    <3> QED BY <1>1, <1>2, <1>5, <2>1, <3>1 DEF Flushed
  <2>2. CASE thr[k].call = "write"
    <3>1. place \in {"asklock", "answer", "write", "check"}
      BY <2>2
    <3>2. /\ ~job.incremental => strm[k].produced = 0
          /\ strm[k].ends = "no" /\ strm[k].heldBase = strm[k].flushed
          /\ strm[k].flushed <= thr[k].to /\ thr[k].to = MayFlush(k)
      BY <1>1, <2>2 DEF Flushed
    <3> QED BY <1>2, <1>5, <2>2, <3>1, <3>2 DEF Flushed
  <2>3. CASE thr[k].call = "end"
    <3>1. place \in {"asklock", "answer", "write", "check"}
      BY <2>3
    <3>2. strm[k].flushed <= thr[k].to /\ thr[k].to = EndFlush(k)
      BY <1>1, <2>3 DEF Flushed
    <3> QED BY <1>2, <1>5, <2>3, <3>1, <3>2 DEF Flushed
  <2>4. CASE thr[k].call = "group"
    <3>1. place \in {"asklock", "answer", "group"}
      BY <2>4
    <3>2. strm[k].flushed = EndFlush(k)
      BY <1>1, <2>4 DEF Flushed
    <3> QED BY <1>2, <1>5, <2>4, <3>1, <3>2 DEF Flushed
  <2> QED BY <1>3, <2>1, <2>2, <2>3, <2>4
<1>7. HasBytes(k)'
  <2>1. Slice(k)' = Slice(k) /\ Ent(k)' = Ent(k)
    <3>1. Slices(k)' = Slices(k)
      BY LayoutKept
    <3> QED BY <1>2, <3>1 DEF Slice, Ent
  <2>2. FromPos(k)' = FromPos(k) /\ ToPos(k)' = ToPos(k)
    BY <1>2, Zenon DEF FromPos, ToPos, Spos, Send, Slices
  <2>3. thr[k].call \in {"write", "end"} /\ Slice(k).len # 0 => FromPos(k) < ToPos(k)
    BY <1>1 DEF HasBytes
  <2>4. place = "write" => thr[k].call \in {"write", "end"}
    BY <1>3
  <2> QED BY <1>2, <2>1, <2>2, <2>3, <2>4 DEF HasBytes
<1> QED BY <1>4, <1>6, <1>7

\* LockAskMu: the question of one worker at a time.
LEMMA WaitsForAnswer ==
    ASSUME SinkInv, NEW k \in Streams, thr[k].pc = "asklock", asking' = k, Goto(k, "answer"),
           UNCHANGED <<job, outFile, outDisk, strm, always, declined, mismatches, allClosed>>
    PROVE  SinkInv'
<1>1. /\ SinkTypeOK /\ AtSlice(k) /\ Flushed(k) /\ MismatchesCounted /\ job \in Cases
      /\ thr[k].i <= Len(Slices(k))
  BY DEF SinkInv, SinkTypeOK, AtSlice
<1>2. /\ thr'[k].pc = "answer" /\ thr'[k].call = thr[k].call /\ thr'[k].i = thr[k].i
      /\ thr' \in [Streams -> WorkerState] /\ \A m \in Streams \ {k} : thr'[m] = thr[m]
  BY <1>1, GotoIs
<1>3. SinkTypeOK'
  <2>1. Streams' = Streams
    BY LayoutKept
  <2> QED BY <1>1, <1>2, <2>1 DEF SinkTypeOK
<1>4. AtSlice(k)' /\ Flushed(k)' /\ HasBytes(k)'
  BY WorkerMoved
<1>5. ASSUME NEW e \in Entries, NEW i \in 1 .. Len(Slices(k)) PROVE Rest(k, i, e)' = Rest(k, i, e)
  BY <1>1, RestMoved
<1>6. MismatchesCounted'
  BY <1>1, <1>2, MismatchesKept
<1> QED BY <1>2, <1>3, <1>4, <1>5, <1>6, QuietStep

\* A file that is created with the decision about it, or was: the worker goes on, and the
\* counts stay.
LEMMA OpenInv ==
    ASSUME SinkInv, NEW k \in Streams, NEW decision \in BOOLEAN, OpenFile(k, decision),
           UNCHANGED <<job, strm, mismatches, allClosed>>,
           always' \in BOOLEAN, asking' \in {0} \cup Streams,
           thr[k].pc \in {"create", "asklock", "answer"},
           thr[k].pc = "create" => \/ ~outFile[Ent(k)].decided
                                   \/ /\ outFile[Ent(k)].decided /\ ~outFile[Ent(k)].deciding
                                      /\ decision = outFile[Ent(k)].writeIt,
           \/ declined' = declined
           \/ declined' = declined \cup {Ent(k)} /\ thr[k].pc = "answer" /\ ~decision
    PROVE  SinkInv'
<1>1. /\ SinkTypeOK /\ AtSlice(k) /\ Flushed(k) /\ HasBytes(k) /\ MismatchesCounted
      /\ job \in Cases /\ thr[k].i <= Len(Slices(k)) /\ OneAsks /\ NewIsCreated
  BY DEF SinkInv, SinkTypeOK, AtSlice
<1>2. PICK e \in Entries : /\ e = Ent(k) /\ Slice(k).len \in Nat /\ Slice(k).entry = e
                           /\ Slice(k) = Slices(k)[thr[k].i]
  BY <1>1, EntType DEF Ent
<1> DEFINE opens == decision /\ ~outFile[e].created /\ e \notin job.locked
<1>3. opens \in BOOLEAN /\ (opens <=> (decision /\ ~outFile[e].created /\ e \notin job.locked))
  OBVIOUS
<1>4. /\ outFile' \in [Entries -> FileState]
      /\ \A d \in Entries \ {e} : outFile'[d] = outFile[d]
      /\ outFile'[e].decided /\ ~outFile'[e].deciding /\ outFile'[e].created
      /\ outFile'[e].writeIt = decision /\ outFile'[e].failed = outFile[e].failed
      /\ outFile'[e].remaining = outFile[e].remaining
      /\ outFile'[e].cannot
         = (outFile[e].cannot \/ (decision /\ ~outFile[e].created /\ e \in job.locked))
      /\ outFile'[e].open = (outFile[e].open \/ (opens /\ outFile[e].remaining > 0))
      /\ outFile'[e].closed = (outFile[e].closed \/ (opens /\ outFile[e].remaining = 0))
      /\ outDisk' \in [Paths -> [state : {"absent", "old", "new"}, bytes : [Offsets -> Byte]]]
      /\ \A p \in Paths :
            outDisk'[p].state = IF opens /\ p = job.path[e] THEN "new" ELSE outDisk[p].state
      /\ \E place \in {"ready", "group", "write", "check"} :
            /\ Goto(k, place)
            /\ place = "ready" <=> thr[k].call = "begin"
            /\ place = "group" <=> thr[k].call = "group"
            /\ place = "write" <=> /\ thr[k].call \in {"write", "end"} /\ Slice(k).len # 0
                                   /\ decision /\ ~outFile'[e].cannot
  BY <1>1, <1>2, OpenFileIs
<1> HIDE DEF opens
<1>5. PICK place \in {"ready", "group", "write", "check"} :
            /\ Goto(k, place)
            /\ place = "ready" <=> thr[k].call = "begin"
            /\ place = "group" <=> thr[k].call = "group"
            /\ place = "write" <=> /\ thr[k].call \in {"write", "end"} /\ Slice(k).len # 0
                                   /\ decision /\ ~outFile'[e].cannot
  BY <1>4, Zenon
<1>6. /\ thr'[k].pc = place /\ thr'[k].call = thr[k].call /\ thr'[k].i = thr[k].i
      /\ thr' \in [Streams -> WorkerState] /\ \A m \in Streams \ {k} : thr'[m] = thr[m]
  BY <1>1, <1>5, GotoIs
<1>7. Streams' = Streams /\ \A m \in Streams : Slices(m)' = Slices(m)
  BY LayoutKept
<1>8. SinkTypeOK'
  <2>1. declined' \subseteq Entries
    BY <1>1, <1>2 DEF SinkTypeOK
  <2> QED BY <1>1, <1>4, <1>6, <1>7, <2>1 DEF SinkTypeOK
<1>9. AtSlice(k)' /\ Flushed(k)' /\ HasBytes(k)'
  BY <1>2, <1>4, <1>5, WorkerMoved
<1>10. (\A m \in Streams : AtSlice(m) /\ Flushed(m) /\ HasBytes(m))'
  <2>1. \A d \in Entries : outFile[d].created => outFile'[d].created
    BY <1>4
  <2> QED BY <1>1, <1>6, <1>9, <2>1, WorkersKept DEF SinkInv
<1>11. /\ outFile[e].deciding => outFile[e].decided /\ ~outFile[e].created
                                 /\ outDisk[job.path[e]].state # "absent"
       /\ outFile[e].created => outFile[e].decided /\ ~outFile[e].deciding
       /\ e \in declined => outFile[e].decided /\ ~outFile[e].deciding /\ ~outFile[e].writeIt
                            /\ outDisk[job.path[e]].state # "absent"
  BY DEF SinkInv, Decided
<1>12. thr[k].pc # "create" <=> outFile[e].deciding
  <2>1. thr[k].pc # "create" => outFile[e].deciding
    BY <1>1, <1>2 DEF OneAsks
  <2>2. thr[k].pc = "create" => ~outFile[e].deciding
    BY <1>2, <1>11
  <2> QED BY <2>1, <2>2
<1>13. outFile[e].created \/ e \in declined => decision = outFile[e].writeIt
  BY <1>2, <1>11, <1>12
<1>14. OneAsks'
  <2>1. ASSUME NEW m \in Streams, thr'[m].pc \in {"asklock", "answer"}
        PROVE  m # k /\ thr[m].pc \in {"asklock", "answer"} /\ Ent(m)' = Ent(m) /\ Ent(m) # e
    <3>1. m # k /\ thr'[m] = thr[m]
      BY <1>6, <2>1
    <3>2. Ent(m)' = Ent(m)
      BY <1>7, <3>1 DEF Ent, Slice
    <3>3. ASSUME Ent(m) = e PROVE FALSE
      <4>1. outFile[e].deciding
        BY <1>1, <2>1, <3>1, <3>3 DEF OneAsks
      <4>2. thr[k].pc \in {"asklock", "answer"}
        BY <1>12, <4>1
      <4>3. AsksAbout(k, e) /\ AsksAbout(m, e)
        BY <1>2, <2>1, <3>1, <3>3, <4>2 DEF AsksAbout
      <4> QED BY <1>1, <3>1, <4>3 DEF OneAsks
    <3> QED BY <2>1, <3>1, <3>2, <3>3
  <2>2. ASSUME NEW m \in Streams, thr'[m].pc \in {"asklock", "answer"}
        PROVE  outFile'[Ent(m)'].deciding
    <3>1. thr[m].pc \in {"asklock", "answer"} /\ Ent(m)' = Ent(m) /\ Ent(m) # e
      BY <2>1, <2>2
    <3>2. Ent(m) \in Entries
      BY <1>1, <3>1, EntType DEF SinkInv, AtSlice
    <3>3. outFile[Ent(m)].deciding
      BY <1>1, <3>1 DEF OneAsks
    <3> QED BY <1>4, <3>1, <3>2, <3>3
  <2>3. ASSUME NEW m \in Streams, NEW l \in Streams, NEW d \in Entries,
               AsksAbout(m, d)', AsksAbout(l, d)'
        PROVE  m = l
    <3>1. AsksAbout(m, d) /\ AsksAbout(l, d)
      BY <2>1, <2>3 DEF AsksAbout
    <3> QED BY <1>1, <3>1 DEF OneAsks
  <2> QED BY <1>7, <2>2, <2>3 DEF OneAsks
<1>15. ASSUME NEW d \in Entries PROVE Decided(d)'
  <2>1. job.path[d] \in Paths
    BY <1>1, PSinkAssumption DEF Extraction
  <2>2. outDisk[job.path[d]].state # "absent" => outDisk'[job.path[d]].state # "absent"
    BY <1>4, <2>1
  <2>3. CASE d # e
    <3>1. outFile'[d] = outFile[d] /\ Decided(d)
      BY <1>4, <2>3 DEF SinkInv
    <3>2. d \in declined' => d \in declined
      BY <1>2, <2>3
    <3> QED BY <2>2, <3>1, <3>2 DEF Decided
  <2>4. CASE d = e
    <3>1. e \in declined' => /\ ~decision
                             /\ outDisk[job.path[e]].state # "absent"
      <4>1. CASE e \in declined
        BY <1>11, <1>13, <4>1
      <4>2. CASE e \notin declined
        <5>1. e \in declined' => thr[k].pc = "answer" /\ ~decision
          BY <4>2
        <5> QED BY <1>11, <1>12, <5>1
      <4> QED BY <4>1, <4>2
    <3> QED BY <1>4, <2>2, <2>4, <3>1 DEF Decided
  <2> QED BY <2>3, <2>4
<1>16. NewIsCreated'
  <2>1. ASSUME NEW p \in Paths, outDisk'[p].state = "new"
        PROVE  \E d \in Entries : job.path[d] = p /\ outFile'[d].created /\ outFile'[d].writeIt
    <3>1. CASE opens /\ p = job.path[e]
      BY <1>3, <1>4, <3>1
    <3>2. CASE ~ (opens /\ p = job.path[e])
      <4>1. outDisk[p].state = "new"
        BY <1>4, <2>1, <3>2
      <4>2. PICK d \in Entries : job.path[d] = p /\ outFile[d].created /\ outFile[d].writeIt
        BY <1>1, <4>1 DEF NewIsCreated
      <4> QED BY <1>4, <1>13, <4>2
    <3> QED BY <3>1, <3>2
  <2> QED BY <2>1 DEF NewIsCreated
<1>17. MismatchesCounted'
  BY <1>1, <1>6, MismatchesKept
<1>18. ASSUME NEW d \in Entries, d = e /\ place = "check" => Slice(k).len = 0
       PROVE  Owed(d)' = Owed(d)
  <2>1. ASSUME NEW i \in 1 .. Len(Slices(k)) PROVE Rest(k, i, d)' = Rest(k, i, d)
    BY <1>1, <1>2, <1>5, <1>18, RestMoved
  <2>2. RestSum(k, d)' = RestSum(k, d)
    BY <1>1, <2>1, RestSumKept
  <2>3. \A m \in Streams \ {k} : RestSum(m, d)' = RestSum(m, d)
    BY <1>1, <1>6, StaysPut
  <2> QED BY <1>1, <2>2, <2>3, OwedKept
<1>19. ASSUME NEW d \in Entries PROVE Counted(d)'
  <2>1. Counted(d)
    BY DEF SinkInv
  <2>2. CASE d # e
    <3>1. outFile'[d] = outFile[d] /\ Owed(d)' = Owed(d)
      BY <1>4, <1>18, <2>2
    <3> QED BY <2>1, <3>1 DEF Counted, Healthy
  <2>3. CASE d = e
    <3>1. SUFFICES ASSUME Healthy(e)'
                   PROVE  /\ outFile'[e].remaining = Owed(e)'
                          /\ outFile'[e].open => outFile'[e].remaining > 0
                          /\ outFile'[e].remaining = 0 => outFile'[e].closed
      BY <1>4, <2>3 DEF Counted
    <3>2. decision /\ ~outFile'[e].cannot /\ ~outFile[e].failed /\ ~outFile[e].cannot
      BY <1>4, <3>1 DEF Healthy
    <3>3. outFile[e].created => Healthy(e)
      BY <1>13, <3>2 DEF Healthy
    <3>4. ~outFile[e].created => opens
      BY <1>3, <1>4, <3>2
    <3>5. place = "check" => Slice(k).len = 0
      <4>1. thr[k].call \in {"begin", "write", "end", "group"}
        BY <1>1 DEF SinkTypeOK, WorkerState
      <4> QED BY <1>5, <3>2, <4>1
    <3>6. Owed(e)' = Owed(e)
      BY <1>18, <3>5
    <3>7. outFile[e].remaining \in Nat
      BY <1>1 DEF SinkTypeOK, FileState
    <3>8. /\ ~outFile[e].created => ~outFile[e].open /\ ~outFile[e].closed
          /\ outFile[e].remaining = Owed(e)
          /\ outFile[e].created => /\ outFile[e].open => outFile[e].remaining > 0
                                   /\ outFile[e].remaining = 0 => outFile[e].closed
      BY <2>1, <2>3, <3>3 DEF Counted
    <3> QED BY <1>4, <3>4, <3>6, <3>7, <3>8
  <2> QED BY <2>2, <2>3
<1> QED BY <1>7, <1>8, <1>10, <1>14, <1>15, <1>16, <1>17, <1>19 DEF SinkInv

\* CreateDecided: a worker finds the file decided.
LEMMA CreateDecidedInv ==
    ASSUME SinkInv, NEW k \in Streams, CreateDecided(k)
    PROVE  SinkInv'
<1>1. /\ thr[k].pc = "create" /\ outFile[Ent(k)].decided /\ ~outFile[Ent(k)].deciding
      /\ OpenFile(k, outFile[Ent(k)].writeIt)
      /\ UNCHANGED <<job, strm, always, asking, declined, mismatches, allClosed>>
  BY Zenon DEF CreateDecided
<1>2. Ent(k) \in Entries /\ always \in BOOLEAN /\ asking \in {0} \cup Streams
  BY <1>1, EntType DEF SinkInv, AtSlice, SinkTypeOK
<1>3. PICK decision \in BOOLEAN : decision = outFile[Ent(k)].writeIt
  BY <1>2 DEF SinkInv, SinkTypeOK, FileState
<1>4. OpenFile(k, decision)
  BY <1>1, <1>3, Zenon
<1> HIDE DEF SinkInv, OpenFile
<1> QED BY <1>1, <1>2, <1>3, <1>4, OpenInv

\* Decide: it decides itself.
LEMMA DecideInv ==
    ASSUME SinkInv, NEW k \in Streams, Decide(k)
    PROVE  SinkInv'
<1>1. /\ thr[k].pc = "create" /\ ~outFile[Ent(k)].decided
      /\ OpenFile(k, Ent(k) \notin job.skip)
      /\ UNCHANGED <<job, strm, always, asking, declined, mismatches, allClosed>>
  BY Zenon DEF Decide
<1>2. always \in BOOLEAN /\ asking \in {0} \cup Streams
  BY DEF SinkInv, SinkTypeOK
<1>3. PICK decision \in BOOLEAN : decision = (Ent(k) \notin job.skip)
  OBVIOUS
<1>4. OpenFile(k, decision)
  BY <1>1, <1>3, Zenon
<1> QED BY <1>1, <1>2, <1>4, OpenInv

\* LockAskMu, SaysYes, SaysNo: the file is written unless somebody said No.
LEMMA AnswerInv ==
    ASSUME SinkInv, NEW k \in Streams, LockAskMu(k) \/ SaysYes(k) \/ SaysNo(k)
    PROVE  SinkInv'
<1>1. always \in BOOLEAN /\ asking \in {0} \cup Streams
  BY DEF SinkInv, SinkTypeOK
<1>2. CASE LockAskMu(k) /\ always
  <2>1. /\ thr[k].pc = "asklock" /\ OpenFile(k, TRUE)
        /\ UNCHANGED <<job, strm, always, asking, declined, mismatches, allClosed>>
    BY <1>2, Zenon DEF LockAskMu
  <2> QED BY <1>1, <2>1, OpenInv
<1>3. CASE LockAskMu(k) /\ ~always
  <2>1. /\ thr[k].pc = "asklock" /\ asking' = k /\ Goto(k, "answer")
        /\ UNCHANGED <<job, outFile, outDisk, strm, always, declined, mismatches, allClosed>>
    BY <1>3, Zenon DEF LockAskMu
  <2> QED BY <2>1, WaitsForAnswer
<1>4. CASE SaysYes(k)
  <2>1. /\ thr[k].pc = "answer" /\ OpenFile(k, TRUE) /\ always' \in {always, TRUE} /\ asking' = 0
        /\ UNCHANGED <<job, strm, declined, mismatches, allClosed>>
    BY <1>4, Zenon DEF SaysYes
  <2>2. always' \in BOOLEAN
    BY <1>1, <2>1
  <2> QED BY <2>1, <2>2, OpenInv
<1>5. CASE SaysNo(k)
  <2>1. /\ thr[k].pc = "answer" /\ OpenFile(k, FALSE) /\ asking' = 0
        /\ declined' = declined \cup {Ent(k)}
        /\ UNCHANGED <<job, strm, always, mismatches, allClosed>>
    BY <1>5, Zenon DEF SaysNo
  <2>2. PICK no \in BOOLEAN : ~no /\ OpenFile(k, no)
    BY <2>1, Zenon
  <2> QED BY <1>1, <2>1, <2>2, OpenInv
<1> QED BY <1>2, <1>3, <1>4, <1>5

\* DecideByAsking: nobody else asks about the file yet.
LEMMA DecideByAskingInv ==
    ASSUME SinkInv, NEW k \in Streams, DecideByAsking(k)
    PROVE  SinkInv'
<1>1. /\ SinkTypeOK /\ AtSlice(k) /\ Flushed(k) /\ HasBytes(k) /\ MismatchesCounted
      /\ job \in Cases /\ thr[k].pc = "create" /\ thr[k].i <= Len(Slices(k))
      /\ OneAsks /\ NewIsCreated
  BY DEF SinkInv, DecideByAsking, SinkTypeOK, AtSlice
<1>2. PICK e \in Entries : e = Ent(k)
  BY <1>1, EntType
<1>3. /\ ~outFile[e].decided /\ outDisk[job.path[e]].state # "absent"
      /\ outFile' = [outFile EXCEPT ![e].decided = TRUE, ![e].deciding = TRUE, ![e].writeIt = TRUE]
      /\ Goto(k, "asklock")
      /\ UNCHANGED <<job, outDisk, strm, always, asking, declined, mismatches, allClosed>>
  BY <1>2, Zenon DEF DecideByAsking, MustAsk
<1>4. /\ outFile' \in [Entries -> FileState]
      /\ \A d \in Entries \ {e} : outFile'[d] = outFile[d]
      /\ outFile'[e].decided /\ outFile'[e].deciding
      /\ outFile'[e].created = outFile[e].created /\ outFile'[e].failed = outFile[e].failed
      /\ outFile'[e].cannot = outFile[e].cannot /\ outFile'[e].open = outFile[e].open
      /\ outFile'[e].closed = outFile[e].closed /\ outFile'[e].remaining = outFile[e].remaining
  <2> DEFINE f == [outFile[e] EXCEPT !.decided = TRUE, !.deciding = TRUE, !.writeIt = TRUE]
  <2>1. outFile \in [Entries -> FileState] /\ outFile[e] \in FileState
    BY <1>1 DEF SinkTypeOK
  <2>2. /\ f \in FileState /\ f.decided /\ f.deciding /\ f.created = outFile[e].created
        /\ f.failed = outFile[e].failed /\ f.cannot = outFile[e].cannot
        /\ f.open = outFile[e].open /\ f.closed = outFile[e].closed
        /\ f.remaining = outFile[e].remaining
    BY <2>1 DEF FileState
  <2>3. outFile' = [outFile EXCEPT ![e] = f]
    BY <1>3, <2>1
  <2> HIDE DEF f
  <2> QED BY <2>1, <2>2, <2>3
<1>5. /\ thr'[k].pc = "asklock" /\ thr'[k].call = thr[k].call /\ thr'[k].i = thr[k].i
      /\ thr' \in [Streams -> WorkerState] /\ \A m \in Streams \ {k} : thr'[m] = thr[m]
  BY <1>1, <1>3, GotoIs
<1>6. Streams' = Streams /\ \A m \in Streams : Slices(m)' = Slices(m)
  BY <1>3, LayoutKept
<1>7. SinkTypeOK'
  BY <1>1, <1>3, <1>4, <1>5, <1>6 DEF SinkTypeOK
<1>8. AtSlice(k)' /\ Flushed(k)' /\ HasBytes(k)'
  BY <1>1, <1>3, WorkerMoved
<1>9. (\A m \in Streams : AtSlice(m) /\ Flushed(m) /\ HasBytes(m))'
  <2>1. \A d \in Entries : outFile[d].created => outFile'[d].created
    BY <1>4
  <2> QED BY <1>1, <1>3, <1>5, <1>8, <2>1, WorkersKept DEF SinkInv
<1>10. ~outFile[e].created /\ ~outFile[e].deciding /\ e \notin declined
  BY <1>3 DEF SinkInv, Decided
<1>11. \A m \in Streams : thr[m].pc \in {"asklock", "answer"} => Ent(m) # e
  BY <1>1, <1>10 DEF OneAsks
<1>12. ASSUME NEW m \in Streams PROVE Ent(m)' = Ent(m)
  BY <1>5, <1>6 DEF Ent, Slice
<1>13. OneAsks'
  <2>1. ASSUME NEW m \in Streams, thr'[m].pc \in {"asklock", "answer"}
        PROVE  outFile'[Ent(m)'].deciding
    <3>1. CASE m = k
      BY <1>2, <1>4, <1>12, <3>1
    <3>2. CASE m # k
      <4>1. thr[m].pc \in {"asklock", "answer"}
        BY <1>5, <2>1, <3>2
      <4>2. Ent(m) \in Entries /\ Ent(m) # e
        BY <1>1, <1>11, <4>1, EntType DEF SinkInv, AtSlice
      <4>3. outFile[Ent(m)].deciding
        BY <1>1, <4>1 DEF OneAsks
      <4> QED BY <1>4, <1>12, <4>2, <4>3
    <3> QED BY <3>1, <3>2
  <2>2. ASSUME NEW m \in Streams, NEW l \in Streams, NEW d \in Entries,
               AsksAbout(m, d)', AsksAbout(l, d)'
        PROVE  m = l
    <3>1. Ent(m) = d /\ Ent(l) = d
      BY <1>12, <2>2 DEF AsksAbout
    <3>2. m = k \/ AsksAbout(m, d)
      BY <1>5, <2>2, <3>1 DEF AsksAbout
    <3>3. l = k \/ AsksAbout(l, d)
      BY <1>5, <2>2, <3>1 DEF AsksAbout
    <3>4. ~AsksAbout(m, e) /\ ~AsksAbout(l, e)
      BY <1>11 DEF AsksAbout
    <3> QED BY <1>1, <1>2, <3>1, <3>2, <3>3, <3>4 DEF OneAsks
  <2> QED BY <1>6, <2>1, <2>2 DEF OneAsks
<1>14. ASSUME NEW d \in Entries PROVE Decided(d)'
  <2>1. CASE d # e
    BY <1>3, <1>4, <2>1 DEF SinkInv, Decided
  <2>2. CASE d = e
    BY <1>3, <1>4, <1>10, <2>2 DEF Decided
  <2> QED BY <2>1, <2>2
<1>15. NewIsCreated'
  <2>1. ASSUME NEW p \in Paths, outDisk'[p].state = "new"
        PROVE  \E d \in Entries : job.path[d] = p /\ outFile'[d].created /\ outFile'[d].writeIt
    <3>1. PICK d \in Entries : job.path[d] = p /\ outFile[d].created /\ outFile[d].writeIt
      BY <1>1, <1>3, <2>1 DEF NewIsCreated
    <3> QED BY <1>4, <1>10, <3>1
  <2> QED BY <1>3, <2>1 DEF NewIsCreated
<1>16. MismatchesCounted'
  BY <1>1, <1>3, <1>5, MismatchesKept
<1>17. ASSUME NEW d \in Entries PROVE Counted(d)'
  <2>1. Owed(d)' = Owed(d)
    <3>1. ASSUME NEW i \in 1 .. Len(Slices(k)) PROVE Rest(k, i, d)' = Rest(k, i, d)
      BY <1>1, <1>3, RestMoved
    <3>2. RestSum(k, d)' = RestSum(k, d)
      BY <1>1, <1>3, <3>1, RestSumKept
    <3>3. \A m \in Streams \ {k} : RestSum(m, d)' = RestSum(m, d)
      BY <1>1, <1>3, <1>5, StaysPut
    <3> QED BY <1>1, <1>3, <3>2, <3>3, OwedKept
  <2>2. Counted(d)
    BY DEF SinkInv
  <2>3. CASE d # e
    BY <1>4, <2>1, <2>2, <2>3 DEF Counted, Healthy
  <2>4. CASE d = e
    <3>1. ~outFile'[e].created
      BY <1>4, <1>10
    <3> QED BY <1>4, <1>10, <2>1, <2>2, <2>4, <3>1 DEF Counted, Healthy
  <2> QED BY <2>3, <2>4
<1> QED BY <1>6, <1>7, <1>9, <1>13, <1>14, <1>15, <1>16, <1>17 DEF SinkInv

\* The part a worker has written.
LEMMA PartWritten ==
    ASSUME SinkInv, NEW k \in Streams, thr[k].pc = "write", UNCHANGED <<job, strm>>, Goto(k, "check"),
           NEW e \in Entries, e = Ent(k)
    PROVE  /\ ToPos(k) - FromPos(k) \in Nat \ {0} /\ ToPos(k) - FromPos(k) <= Owed(e)
           /\ Owed(e)' = Owed(e) - (ToPos(k) - FromPos(k))
<1>1. /\ SinkTypeOK /\ AtSlice(k) /\ Flushed(k) /\ HasBytes(k) /\ job \in Cases
      /\ thr[k].i <= Len(Slices(k))
  BY DEF SinkInv, SinkTypeOK, AtSlice
<1>2. /\ thr[k].call \in {"write", "end"} /\ Slice(k).len # 0 /\ FromPos(k) < ToPos(k)
      /\ strm[k].flushed <= thr[k].to
  BY <1>1 DEF HasBytes, Flushed
<1>3. PICK i \in 1 .. Len(Slices(k)) : i = thr[k].i /\ Slice(k) = Slices(k)[i]
  BY <1>1, EntType
<1>4. PICK s, len, f, t : s = Spos(k, i) /\ len = Slice(k).len
                          /\ f = strm[k].flushed /\ t = thr[k].to
  OBVIOUS
<1>5. /\ s \in Nat /\ len \in Nat /\ f \in Nat /\ t \in Nat
      /\ FromPos(k) = IF s <= f THEN f ELSE s
      /\ ToPos(k) = IF s + len <= t THEN s + len ELSE t
  BY <1>1, <1>2, <1>3, <1>4, PartIs
<1>6. PICK n \in Nat \ {0} : n = ToPos(k) - FromPos(k)
  BY <1>2, <1>5
<1>7. /\ thr'[k].pc = "check" /\ thr'[k].call = thr[k].call /\ thr'[k].i = i /\ thr'[k].to = t
      /\ thr'[k] \in WorkerState /\ \A m \in Streams \ {k} : thr'[m] = thr[m]
  BY <1>1, <1>3, <1>4, GotoIs
<1>8. strm'[k] \in StreamState /\ strm'[k].flushed = f
  BY <1>1, <1>4 DEF SinkTypeOK
<1>9. Reached(k, i) = f
  BY <1>1, <1>3, <1>4, ReachedIs
<1>10. Reached(k, i)' = t
  BY <1>2, <1>4, <1>7, <1>8, ReachedNext
<1>11. Slices(k)[i].entry = e /\ Slices(k)[i].len = len
  BY <1>3, <1>4 DEF Ent
<1>12. Before(k, i, e, f) = IF f <= s THEN 0 ELSE IF f <= s + len THEN f - s ELSE len
  <2>1. Before(k, i, e, f) = IF Slices(k)[i].entry # e \/ f <= Spos(k, i) THEN 0
                             ELSE IF f <= Spos(k, i) + Slices(k)[i].len THEN f - Spos(k, i)
                             ELSE Slices(k)[i].len
    BY <1>1, <1>5, BeforeFacts
  <2> QED BY <1>4, <1>11, <2>1
<1>13. Before(k, i, e, t) = IF t <= s THEN 0 ELSE IF t <= s + len THEN t - s ELSE len
  <2>1. Before(k, i, e, t) = IF Slices(k)[i].entry # e \/ t <= Spos(k, i) THEN 0
                             ELSE IF t <= Spos(k, i) + Slices(k)[i].len THEN t - Spos(k, i)
                             ELSE Slices(k)[i].len
    BY <1>1, <1>5, BeforeFacts
  <2> QED BY <1>4, <1>11, <2>1
<1>14. Before(k, i, e, t) = Before(k, i, e, f) + n
  <2>1. PICK a \in Nat, b \in Nat : /\ a = (IF s <= f THEN f ELSE s)
                                    /\ b = (IF s + len <= t THEN s + len ELSE t)
                                    /\ a < b /\ n = b - a
    BY <1>2, <1>5, <1>6
  <2>2. PICK p, q : p = Before(k, i, e, f) /\ q = Before(k, i, e, t)
    OBVIOUS
  <2>3. s \in Nat /\ len \in Nat /\ f \in Nat /\ t \in Nat
    BY <1>5
  <2>4. q = b - s
    BY ONLY <1>13, <2>1, <2>2, <2>3
  <2>5. p = a - s
    BY ONLY <1>12, <2>1, <2>2, <2>3
  <2> QED BY ONLY <2>1, <2>2, <2>3, <2>4, <2>5
<1>15. LenIn(k, i, e) \in Nat /\ Before(k, i, e, f) \in Nat
       /\ Before(k, i, e, t) <= LenIn(k, i, e)
  <2>1. LenIn(k, i, e) \in Nat /\ Before(k, i, e, f) \in Nat
    BY <1>1, <1>5, BeforeFacts
  <2>2. Before(k, i, e, t) <= LenIn(k, i, e)
    BY <1>1, <1>5, BeforeFacts
  <2> QED BY <2>1, <2>2
<1>16. Rest(k, i, e) = LenIn(k, i, e) - Before(k, i, e, f)
  BY <1>9 DEF Rest
<1>17. Rest(k, i, e)' = LenIn(k, i, e) - Before(k, i, e, t)
  BY <1>10, RestNext
<1>18. Rest(k, i, e)' = Rest(k, i, e) + (-n) /\ n <= Rest(k, i, e)
  BY <1>14, <1>15, <1>16, <1>17
<1>19. ASSUME NEW j \in 1 .. Len(Slices(k)), j # i PROVE Rest(k, j, e)' = Rest(k, j, e)
  BY <1>1, <1>3, <1>19, RestMoved
<1>20. RestSum(k, e)' = RestSum(k, e) + (-n)
  <2>1. PICK d \in Int : d = -n
    OBVIOUS
  <2>2. Rest(k, i, e)' = Rest(k, i, e) + d
    BY <1>18, <2>1
  <2>3. RestSum(k, e)' = RestSum(k, e) + d
    BY <1>1, <1>19, <2>2, RestSumChange
  <2> QED BY <2>1, <2>3
<1>21. Owed(e)' = Owed(e) + (-n)
  <2>1. \A m \in Streams \ {k} : RestSum(m, e)' = RestSum(m, e)
    BY <1>1, <1>7, StaysPut
  <2>2. PICK d \in Int : d = -n
    OBVIOUS
  <2>3. RestSum(k, e)' = RestSum(k, e) + d
    BY <1>20, <2>2
  <2>4. Owed(e)' = Owed(e) + d
    BY <1>1, <2>1, <2>3, OwedChange
  <2> QED BY <2>2, <2>4
<1>22. n <= Owed(e)
  <2>1. Owed(e) \in Nat /\ RestSum(k, e) <= Owed(e)
    BY <1>1, OwedType
  <2>2. RestSum(k, e) \in Nat /\ Rest(k, i, e) <= RestSum(k, e)
    BY <1>1, RestSumType
  <2>3. Rest(k, i, e) \in Nat
    BY <1>1, RestType
  <2> QED BY <1>18, <2>1, <2>2, <2>3
<1>23. Owed(e) \in Nat
  BY <1>1, OwedType
<1> QED BY <1>6, <1>21, <1>22, <1>23

\* A step of a worker from "write", that leaves the paths what they are.
LEMMA WriteStep ==
    ASSUME SinkInv, NEW k \in Streams, thr[k].pc = "write", Goto(k, "check"),
           UNCHANGED <<job, strm, always, asking, declined, mismatches, allClosed>>,
           NEW e \in Entries, e = Ent(k),
           outFile' \in [Entries -> FileState], \A d \in Entries \ {e} : outFile'[d] = outFile[d],
           /\ outFile'[e].decided = outFile[e].decided /\ outFile'[e].deciding = outFile[e].deciding
           /\ outFile'[e].created = outFile[e].created /\ outFile'[e].writeIt = outFile[e].writeIt,
           outDisk' \in [Paths -> [state : {"absent", "old", "new"}, bytes : [Offsets -> Byte]]],
           \A p \in Paths : outDisk'[p].state = outDisk[p].state,
           Counted(e)'
    PROVE  SinkInv'
<1>1. /\ SinkTypeOK /\ AtSlice(k) /\ Flushed(k) /\ HasBytes(k) /\ MismatchesCounted
      /\ job \in Cases /\ thr[k].i <= Len(Slices(k)) /\ OneAsks /\ NewIsCreated
  BY DEF SinkInv, SinkTypeOK, AtSlice
<1>2. thr[k].call \in {"write", "end"}
  BY <1>1 DEF HasBytes
<1>3. /\ thr'[k].pc = "check" /\ thr'[k].call = thr[k].call /\ thr'[k].i = thr[k].i
      /\ thr' \in [Streams -> WorkerState] /\ \A m \in Streams \ {k} : thr'[m] = thr[m]
  BY <1>1, GotoIs
<1>4. Streams' = Streams /\ \A m \in Streams : Slices(m)' = Slices(m)
  BY LayoutKept
<1>5. SinkTypeOK'
  BY <1>1, <1>3, <1>4 DEF SinkTypeOK
<1>6. AtSlice(k)' /\ Flushed(k)' /\ HasBytes(k)'
  BY <1>2, WorkerMoved
<1>7. /\ outFile'[e].decided = outFile[e].decided /\ outFile'[e].deciding = outFile[e].deciding
      /\ outFile'[e].created = outFile[e].created /\ outFile'[e].writeIt = outFile[e].writeIt
  OBVIOUS
<1>8. (\A m \in Streams : AtSlice(m) /\ Flushed(m) /\ HasBytes(m))'
  <2>1. \A d \in Entries : outFile[d].created => outFile'[d].created
    BY <1>7
  <2> QED BY <1>1, <1>3, <1>6, <2>1, WorkersKept DEF SinkInv
<1>9. OneAsks'
  <2>1. ASSUME NEW m \in Streams, thr'[m].pc \in {"asklock", "answer"}
        PROVE  thr[m].pc \in {"asklock", "answer"} /\ Ent(m)' = Ent(m)
               /\ outFile'[Ent(m)].deciding = outFile[Ent(m)].deciding
    <3>1. m # k /\ thr'[m] = thr[m]
      BY <1>3, <2>1
    <3>2. Ent(m)' = Ent(m)
      BY <1>4, <3>1 DEF Ent, Slice
    <3>3. Ent(m) \in Entries
      BY <1>1, <2>1, <3>1, EntType DEF SinkInv, AtSlice
    <3>4. outFile'[Ent(m)].deciding = outFile[Ent(m)].deciding
      BY <1>7, <3>3
    <3> QED BY <2>1, <3>1, <3>2, <3>4
  <2> QED BY <1>1, <1>4, <2>1 DEF OneAsks, AsksAbout
<1>10. ASSUME NEW d \in Entries PROVE Decided(d)'
  <2>1. job.path[d] \in Paths
    BY <1>1, PSinkAssumption DEF Extraction
  <2>2. Decided(d) /\ outDisk'[job.path[d]].state = outDisk[job.path[d]].state
    BY <2>1 DEF SinkInv
  <2>3. CASE d = e
    BY <1>7, <2>2, <2>3 DEF Decided
  <2>4. CASE d # e
    BY <2>2, <2>4 DEF Decided
  <2> QED BY <2>3, <2>4
<1>11. NewIsCreated'
  <2>1. ASSUME NEW p \in Paths, outDisk'[p].state = "new"
        PROVE  \E d \in Entries : job.path[d] = p /\ outFile'[d].created /\ outFile'[d].writeIt
    <3>1. PICK d \in Entries : job.path[d] = p /\ outFile[d].created /\ outFile[d].writeIt
      BY <1>1, <2>1 DEF NewIsCreated
    <3> QED BY <1>7, <3>1
  <2> QED BY <2>1 DEF NewIsCreated
<1>12. MismatchesCounted'
  BY <1>1, <1>3, MismatchesKept
<1>13. ASSUME NEW d \in Entries PROVE Counted(d)'
  <2>1. CASE d # e
    <3>1. ASSUME NEW i \in 1 .. Len(Slices(k)) PROVE Rest(k, i, d)' = Rest(k, i, d)
      <4>1. Slice(k).entry # d
        BY <2>1 DEF Ent
      <4> QED BY <1>1, <4>1, RestMoved
    <3>2. RestSum(k, d)' = RestSum(k, d)
      BY <1>1, <3>1, RestSumKept
    <3>3. \A m \in Streams \ {k} : RestSum(m, d)' = RestSum(m, d)
      BY <1>1, <1>3, StaysPut
    <3>4. Owed(d)' = Owed(d)
      BY <1>1, <3>2, <3>3, OwedKept
    <3> QED BY <2>1, <3>4 DEF SinkInv, Counted, Healthy
  <2> QED BY <2>1
<1> QED BY <1>4, <1>5, <1>8, <1>9, <1>10, <1>11, <1>12, <1>13 DEF SinkInv

\* WriteAt: as many bytes as were owed fewer are.
LEMMA WriteAtInv ==
    ASSUME SinkInv, NEW k \in Streams, WriteAt(k)
    PROVE  SinkInv'
<1>1. /\ SinkTypeOK /\ AtSlice(k) /\ HasBytes(k) /\ job \in Cases
      /\ thr[k].pc = "write" /\ thr[k].i <= Len(Slices(k))
  BY DEF SinkInv, SinkTypeOK, AtSlice, WriteAt
<1>2. PICK e \in Entries : e = Ent(k)
  BY <1>1, EntType
<1>3. Goto(k, "check") /\ UNCHANGED <<job, strm, always, asking, declined, mismatches, allClosed>>
  BY Zenon DEF WriteAt
<1>4. /\ ToPos(k) - FromPos(k) \in Nat \ {0} /\ ToPos(k) - FromPos(k) <= Owed(e)
      /\ Owed(e)' = Owed(e) - (ToPos(k) - FromPos(k))
  BY <1>1, <1>2, <1>3, PartWritten
<1>5. PICK n \in Nat \ {0} : n = ToPos(k) - FromPos(k)
  BY <1>4
<1>6. PICK r \in Nat, o \in Nat : r = outFile[e].remaining /\ o = Owed(e)
  BY <1>1, OwedType DEF SinkTypeOK, FileState
<1>7. PICK left \in Nat : left = IF n >= r THEN 0 ELSE r - n
  OBVIOUS
<1>8. PICK closed \in BOOLEAN : closed = (left = 0)
  OBVIOUS
<1> DEFINE base == Slice(k).off + FromPos(k) - Spos(k, thr[k].i)
<1>9. PICK lo, hi : lo = base /\ hi = base + n - 1
  OBVIOUS
<1>10. /\ outFile' = [outFile EXCEPT ![e].remaining = left, ![e].open = ~closed, ![e].closed = closed]
       /\ outDisk' = [outDisk EXCEPT ![job.path[e]].bytes =
                    [x \in Offsets |-> IF x \in lo .. hi
                                       THEN [entry |-> e, try |-> strm[k].try] ELSE @[x]]]
  <2>1. left = IF ToPos(k) - FromPos(k) >= outFile[e].remaining THEN 0
               ELSE outFile[e].remaining - (ToPos(k) - FromPos(k))
    BY <1>5, <1>6, <1>7, Zenon
  <2>2. base + (ToPos(k) - FromPos(k)) - 1 = hi
    BY <1>5, <1>9, Zenon
  <2> QED BY <1>2, <1>8, <1>9, <2>1, <2>2, Zenon DEF WriteAt, Complete
<1>11. /\ outFile' \in [Entries -> FileState] /\ \A d \in Entries \ {e} : outFile'[d] = outFile[d]
       /\ outFile'[e].decided = outFile[e].decided /\ outFile'[e].deciding = outFile[e].deciding
       /\ outFile'[e].created = outFile[e].created /\ outFile'[e].writeIt = outFile[e].writeIt
       /\ outFile'[e].failed = outFile[e].failed /\ outFile'[e].cannot = outFile[e].cannot
       /\ outFile'[e].remaining = left /\ outFile'[e].open = ~closed
       /\ outFile'[e].closed = closed
  <2> DEFINE f == [outFile[e] EXCEPT !.remaining = left, !.open = ~closed, !.closed = closed]
  <2>1. outFile \in [Entries -> FileState] /\ outFile[e] \in FileState
    BY <1>1 DEF SinkTypeOK
  <2>2. /\ f \in FileState /\ f.decided = outFile[e].decided /\ f.deciding = outFile[e].deciding
        /\ f.created = outFile[e].created /\ f.writeIt = outFile[e].writeIt
        /\ f.failed = outFile[e].failed /\ f.cannot = outFile[e].cannot
        /\ f.remaining = left /\ f.open = ~closed /\ f.closed = closed
    BY <2>1 DEF FileState
  <2>3. outFile' = [outFile EXCEPT ![e] = f]
    BY <1>10, <2>1
  <2> HIDE DEF f
  <2> QED BY <2>1, <2>2, <2>3
<1>12. /\ outDisk' \in [Paths -> [state : {"absent", "old", "new"}, bytes : [Offsets -> Byte]]]
       /\ \A p \in Paths : outDisk'[p].state = outDisk[p].state
  <2> DEFINE new == [x \in Offsets |-> IF x \in lo .. hi THEN [entry |-> e, try |-> strm[k].try]
                                       ELSE outDisk[job.path[e]].bytes[x]]
  <2>1. /\ outDisk \in [Paths -> [state : {"absent", "old", "new"}, bytes : [Offsets -> Byte]]]
        /\ job.path[e] \in Paths /\ strm[k].try \in 1 .. MaxTries
    BY <1>1, PSinkAssumption DEF SinkTypeOK, StreamState, Extraction
  <2>2. [entry |-> e, try |-> strm[k].try] \in Byte
    BY <2>1, PSinkAssumption DEF Byte
  <2>3. new \in [Offsets -> Byte]
    <3>1. ASSUME NEW x \in Offsets PROVE outDisk[job.path[e]].bytes[x] \in Byte
      BY <2>1
    <3> QED BY <2>2, <3>1
  <2>4. outDisk' = [outDisk EXCEPT ![job.path[e]].bytes = new]
    BY <1>10, <2>1
  <2> HIDE DEF new
  <2> QED BY <2>1, <2>3, <2>4
<1>13. Counted(e)'
  <2>1. outFile[e].created /\ Counted(e)
    BY <1>1, <1>2 DEF HasBytes, SinkInv
  <2>2. Healthy(e)' <=> Healthy(e)
    BY <1>11 DEF Healthy
  <2>3. Owed(e)' = o - n /\ n <= o
    BY <1>4, <1>5, <1>6
  <2>4. Healthy(e) => r = o
    BY <1>6, <2>1 DEF Counted
  <2>5. Healthy(e) => left = o - n
    BY <1>7, <2>3, <2>4
  <2>6. outFile'[e].created /\ outFile'[e].remaining = left
    BY <1>11, <2>1
  <2>7. Healthy(e)' => left = Owed(e)'
    BY <2>2, <2>3, <2>5
  <2>8. outFile'[e].open => left > 0
    <3>1. outFile'[e].open => left # 0
      BY <1>8, <1>11, Zenon
    <3> QED BY <3>1
  <2>9. left = 0 => outFile'[e].closed
    <3>1. left = 0 => closed
      BY <1>8, Zenon
    <3> QED BY <1>11, <3>1, Zenon
  <2> QED BY <2>6, <2>7, <2>8, <2>9 DEF Counted
<1> QED BY <1>1, <1>2, <1>3, <1>11, <1>12, <1>13, WriteStep

\* WriteFails: the file is given up.
LEMMA WriteFailsInv ==
    ASSUME SinkInv, NEW k \in Streams, WriteFails(k)
    PROVE  SinkInv'
<1>1. /\ SinkTypeOK /\ AtSlice(k) /\ HasBytes(k) /\ job \in Cases
      /\ thr[k].pc = "write" /\ thr[k].i <= Len(Slices(k))
  BY DEF SinkInv, SinkTypeOK, AtSlice, WriteFails
<1>2. PICK e \in Entries : e = Ent(k)
  BY <1>1, EntType
<1>3. /\ Goto(k, "check") /\ outFile' = [outFile EXCEPT ![e].failed = TRUE]
      /\ UNCHANGED <<job, outDisk, strm, always, asking, declined, mismatches, allClosed>>
  BY <1>2, Zenon DEF WriteFails
<1>4. /\ outFile' \in [Entries -> FileState] /\ \A d \in Entries \ {e} : outFile'[d] = outFile[d]
      /\ outFile'[e].decided = outFile[e].decided /\ outFile'[e].deciding = outFile[e].deciding
      /\ outFile'[e].created = outFile[e].created /\ outFile'[e].writeIt = outFile[e].writeIt
      /\ outFile'[e].failed
  <2> DEFINE f == [outFile[e] EXCEPT !.failed = TRUE]
  <2>1. outFile \in [Entries -> FileState] /\ outFile[e] \in FileState
    BY <1>1 DEF SinkTypeOK
  <2>2. /\ f \in FileState /\ f.decided = outFile[e].decided /\ f.deciding = outFile[e].deciding
        /\ f.created = outFile[e].created /\ f.writeIt = outFile[e].writeIt /\ f.failed
    BY <2>1 DEF FileState
  <2>3. outFile' = [outFile EXCEPT ![e] = f]
    BY <1>3, <2>1
  <2> HIDE DEF f
  <2> QED BY <2>1, <2>2, <2>3
<1>5. outDisk' \in [Paths -> [state : {"absent", "old", "new"}, bytes : [Offsets -> Byte]]]
      /\ \A p \in Paths : outDisk'[p].state = outDisk[p].state
  BY <1>1, <1>3 DEF SinkTypeOK
<1>6. Counted(e)'
  <2>1. outFile'[e].created
    BY <1>1, <1>2, <1>4 DEF HasBytes
  <2> QED BY <1>4, <2>1 DEF Counted, Healthy
<1> QED BY <1>1, <1>2, <1>3, <1>4, <1>5, <1>6, WriteStep

\* StreamRewind: what was written is owed again, what was judged is not.
LEMMA RewindInv ==
    ASSUME SinkInv, NEW k \in Streams, StreamRewind(k)
    PROVE  SinkInv'
<1>1. /\ SinkTypeOK /\ AtSlice(k) /\ Flushed(k) /\ HasBytes(k) /\ MismatchesCounted
      /\ thr[k].pc = "ready" /\ strm[k].try < MaxTries /\ job \in Cases
      /\ OneAsks /\ NewIsCreated
  BY DEF SinkInv, StreamRewind, SinkTypeOK
<1>2. /\ mismatches' = IF mismatches >= strm[k].pending THEN mismatches - strm[k].pending
                       ELSE mismatches
      /\ outFile' = [e \in Entries |-> [outFile[e] EXCEPT !.remaining = @ + WrittenOf(k, e)]]
      /\ strm' = [strm EXCEPT ![k] = Restarted(k)]
      /\ UNCHANGED <<job, outDisk, thr, always, asking, declined, allClosed>>
  BY Zenon DEF StreamRewind
<1>3. /\ thr[k] \in WorkerState /\ strm[k] \in StreamState
      /\ thr \in [Streams -> WorkerState] /\ strm \in [Streams -> StreamState]
  BY <1>1 DEF SinkTypeOK
<1>4. /\ thr[k].call \in {"begin", "write"} /\ strm[k].ends = "no"
  BY <1>1, AtRest
<1>5. PICK t \in 1 .. MaxTries : t = strm[k].try + 1
  BY <1>1, <1>3, PSinkAssumption DEF StreamState
<1> DEFINE u == [strm[k] EXCEPT !.produced = 0, !.flushed = 0, !.heldBase = 0, !.checked = {},
                                !.pending = 0, !.try = t]
<1>6. /\ u \in StreamState /\ u.produced = 0 /\ u.flushed = 0 /\ u.heldBase = 0 /\ u.checked = {}
      /\ u.pending = 0 /\ u.ends = strm[k].ends /\ u = Restarted(k)
  <2>1. u = Restarted(k)
    BY <1>5, Zenon DEF Restarted
  <2>2. /\ u \in StreamState /\ u.produced = 0 /\ u.flushed = 0 /\ u.heldBase = 0 /\ u.checked = {}
        /\ u.pending = 0 /\ u.ends = strm[k].ends
    BY <1>3 DEF StreamState
  <2> QED BY <2>1, <2>2
<1> HIDE DEF u
<1>7. /\ strm' \in [Streams -> StreamState] /\ strm'[k] = u
      /\ \A m \in Streams \ {k} : strm'[m] = strm[m]
  BY <1>2, <1>3, <1>6
<1>8. Streams' = Streams /\ \A m \in Streams : Slices(m)' = Slices(m)
  BY <1>2, LayoutKept
<1>9. \A i \in 1 .. Len(Slices(k)) : Reached(k, i) = strm[k].flushed /\ Reached(k, i)' = 0
  <2>1. ASSUME NEW i \in 1 .. Len(Slices(k))
        PROVE  Reached(k, i) = strm[k].flushed /\ Reached(k, i)' = 0
    <3>1. i \in Nat
      OBVIOUS
    <3>2. Reached(k, i) = strm[k].flushed
      BY <1>1, <3>1, ReachedIs
    <3>3. Reached(k, i)' = 0
      BY <1>1, <1>2, <1>3, <1>6, <1>7, <3>1, ReachedNext
    <3> QED BY <3>2, <3>3
  <2> QED BY <2>1
<1>10. ASSUME NEW e \in Entries
       PROVE  WrittenOf(k, e) \in Nat /\ Owed(e)' = Owed(e) + WrittenOf(k, e)
  <2>1. WrittenOf(k, e) \in Nat /\ RestSum(k, e)' = RestSum(k, e) + WrittenOf(k, e)
    BY <1>1, <1>2, <1>9, RestSumRewind
  <2>2. PICK w \in Nat : w = WrittenOf(k, e)
    BY <2>1
  <2>3. \A m \in Streams \ {k} : RestSum(m, e)' = RestSum(m, e)
    BY <1>1, <1>2, <1>7, StaysPut
  <2>4. RestSum(k, e)' = RestSum(k, e) + w /\ w \in Int
    BY <2>1, <2>2
  <2>5. Owed(e)' = Owed(e) + w
    BY <1>1, <1>2, <2>3, <2>4, OwedChange
  <2> QED BY <2>1, <2>2, <2>5
<1>11. /\ outFile' \in [Entries -> FileState]
       /\ \A e \in Entries :
            /\ outFile'[e].remaining = outFile[e].remaining + WrittenOf(k, e)
            /\ outFile'[e].decided = outFile[e].decided /\ outFile'[e].deciding = outFile[e].deciding
            /\ outFile'[e].created = outFile[e].created /\ outFile'[e].writeIt = outFile[e].writeIt
            /\ outFile'[e].failed = outFile[e].failed /\ outFile'[e].cannot = outFile[e].cannot
            /\ outFile'[e].open = outFile[e].open /\ outFile'[e].closed = outFile[e].closed
  <2>1. ASSUME NEW e \in Entries
        PROVE  LET f == [outFile[e] EXCEPT !.remaining = @ + WrittenOf(k, e)]
               IN /\ f \in FileState /\ f.remaining = outFile[e].remaining + WrittenOf(k, e)
                  /\ f.decided = outFile[e].decided /\ f.deciding = outFile[e].deciding
                  /\ f.created = outFile[e].created /\ f.writeIt = outFile[e].writeIt
                  /\ f.failed = outFile[e].failed /\ f.cannot = outFile[e].cannot
                  /\ f.open = outFile[e].open /\ f.closed = outFile[e].closed
    <3>1. PICK old \in FileState, w \in Nat : old = outFile[e] /\ w = WrittenOf(k, e)
      BY <1>1, <1>10 DEF SinkTypeOK
    <3> QED BY <3>1 DEF FileState
  <2> QED BY <1>2, <2>1
<1>12. Cardinality(BadSlices(k)) \in Nat /\ strm[k].pending = Cardinality(BadSlices(k))
  BY <1>1, <1>4, BadCount DEF MismatchesCounted
<1>13. strm[k].pending <= mismatches
  <2> DEFINE f == [m \in Streams |-> Cardinality(BadSlices(m))]
  <2>1. Len(job.streams) \in Nat
    BY <1>1, PSinkAssumption DEF Extraction
  <2>2. PICK n \in Nat \ {0} : n = Len(job.streams) + 1
    BY <2>1
  <2>3. \A m \in 1 .. n - 1 : f[m] \in Nat
    BY <1>1, <2>1, <2>2, BadCount DEF Streams, SinkInv
  <2>4. k \in 1 .. n - 1 /\ f[k] = strm[k].pending
    BY <1>12, <2>1, <2>2 DEF Streams
  <2>5. mismatches = SumBefore(f, n)
    BY <1>1, <2>2 DEF MismatchesCounted, OverStreams
  <2> HIDE DEF f
  <2>6. f[k] <= SumBefore(f, n)
    BY <2>3, <2>4, SumPart
  <2> QED BY <2>4, <2>5, <2>6
<1>14. PICK p \in Nat, q \in Nat : p = strm[k].pending /\ q = mismatches /\ p <= q
  BY <1>1, <1>12, <1>13 DEF SinkTypeOK
<1>15. mismatches' = q - p /\ mismatches' \in Nat
  BY <1>2, <1>14
<1>16. SinkTypeOK'
  BY <1>1, <1>2, <1>3, <1>7, <1>8, <1>11, <1>15 DEF SinkTypeOK
<1>17. AtSlice(k)'
  BY <1>1, <1>2, <1>6, <1>7, <1>8 DEF AtSlice
<1>18. Flushed(k)'
  <2>1. PICK z \in Nat : z = 0
    OBVIOUS
  <2>2. SafeFlushPoint(k, z) \in Nat /\ SafeFlushPoint(k, z) <= z
    <3>1. z <= z
      OBVIOUS
    <3> QED BY <1>1, <3>1, SafeFlushFacts
  <2>3. MayFlush(k)' = SafeFlushPoint(k, z)
    BY <1>2, <1>6, <1>7, <2>1, FlushNext
  <2>4. MayFlush(k)' = 0
    BY <2>1, <2>2, <2>3
  <2> QED BY <1>1, <1>2, <1>4, <1>6, <1>7, <2>4 DEF Flushed
<1>19. HasBytes(k)'
  BY <1>1, <1>2 DEF HasBytes
<1>20. (\A m \in Streams : AtSlice(m) /\ Flushed(m) /\ HasBytes(m))'
  BY <1>1, <1>2, <1>7, <1>11, <1>17, <1>18, <1>19, WorkersKept DEF SinkInv
<1>21. OneAsks'
  <2>1. ASSUME NEW m \in Streams
        PROVE  /\ Ent(m)' = Ent(m)
               /\ thr[m].pc \in {"asklock", "answer"} => Ent(m) \in Entries
    <3>1. Ent(m)' = Ent(m)
      BY <1>2, <1>8 DEF Ent, Slice
    <3>2. thr[m].pc \in {"asklock", "answer"} => Ent(m) \in Entries
      BY <1>1, EntType DEF SinkInv, AtSlice
    <3> QED BY <3>1, <3>2
  <2> QED BY <1>1, <1>2, <1>8, <1>11, <2>1 DEF OneAsks, AsksAbout
<1>22. ASSUME NEW e \in Entries PROVE Decided(e)'
  BY <1>2, <1>11 DEF SinkInv, Decided
<1>23. NewIsCreated'
  <2>1. ASSUME NEW x \in Paths, outDisk'[x].state = "new"
        PROVE  \E d \in Entries : job.path[d] = x /\ outFile'[d].created /\ outFile'[d].writeIt
    <3>1. PICK d \in Entries : job.path[d] = x /\ outFile[d].created /\ outFile[d].writeIt
      BY <1>1, <1>2, <2>1 DEF NewIsCreated
    <3> QED BY <1>11, <3>1
  <2> QED BY <1>2, <2>1 DEF NewIsCreated
<1>24. ASSUME NEW e \in Entries PROVE Counted(e)'
  <2>1. PICK w \in Nat, r \in Nat, o \in Nat :
           w = WrittenOf(k, e) /\ r = outFile[e].remaining /\ o = Owed(e)
    BY <1>1, <1>10, OwedType DEF SinkTypeOK, FileState
  <2>2. outFile'[e].remaining = r + w /\ Owed(e)' = o + w
    BY <1>10, <1>11, <2>1
  <2>3. Healthy(e)' <=> Healthy(e)
    BY <1>11 DEF Healthy
  <2>4. Counted(e)
    BY DEF SinkInv
  <2>5. ~outFile'[e].created
        => ~outFile'[e].open /\ ~outFile'[e].closed /\ ~outFile'[e].cannot
    BY <1>11, <2>4 DEF Counted
  <2>6. ~outFile'[e].created \/ Healthy(e)' => outFile'[e].remaining = Owed(e)'
    BY <1>11, <2>1, <2>2, <2>3, <2>4 DEF Counted
  <2>7. Healthy(e)' => /\ outFile'[e].open => outFile'[e].remaining > 0
                       /\ outFile'[e].remaining = 0 => outFile'[e].closed
    BY <1>11, <2>1, <2>2, <2>3, <2>4 DEF Counted
  <2> QED BY <2>5, <2>6, <2>7 DEF Counted
<1>25. MismatchesCounted'
  <2>1. PICK d \in Int : d = -p
    OBVIOUS
  <2>2. mismatches' = mismatches + d
    BY <1>14, <1>15, <2>1
  <2>3. Cardinality(BadSlices(k))' = Cardinality(BadSlices(k)) + d
    <3>1. BadSlices(k)' = {}
      BY <1>6, <1>7 DEF BadSlices
    <3>2. Cardinality(BadSlices(k))' = 0
      BY <3>1, FS_EmptySet
    <3> QED BY <1>12, <1>14, <2>1, <3>2
  <2>4. thr'[k].call \in {"begin", "write"} /\ strm'[k].pending = strm[k].pending + d
    BY <1>2, <1>4, <1>6, <1>7, <1>14, <2>1
  <2>5. \A m \in Streams : AtSlice(m)
    BY DEF SinkInv
  <2>6. \A m \in Streams \ {k} : thr'[m] = thr[m] /\ strm'[m] = strm[m]
    BY <1>2, <1>7
  <2> QED BY <1>1, <1>2, <1>4, <2>2, <2>3, <2>4, <2>5, <2>6, MismatchesChange
<1> QED BY <1>8, <1>16, <1>20, <1>21, <1>22, <1>23, <1>24, <1>25 DEF SinkInv

\* A step of no worker, in which files are at most closed.
LEMMA StillStep ==
    ASSUME SinkInv, UNCHANGED <<job, outDisk, strm, thr, declined, mismatches>>, SinkTypeOK',
           \A e \in Entries :
               /\ outFile'[e].decided = outFile[e].decided /\ outFile'[e].deciding = outFile[e].deciding
               /\ outFile'[e].created = outFile[e].created /\ outFile'[e].writeIt = outFile[e].writeIt
               /\ outFile'[e].failed = outFile[e].failed /\ outFile'[e].cannot = outFile[e].cannot
               /\ outFile'[e].remaining = outFile[e].remaining
               /\ outFile'[e].open => outFile[e].open
               /\ outFile[e].closed => outFile'[e].closed
               /\ outFile'[e].closed => outFile[e].closed \/ outFile[e].open
    PROVE  SinkInv'
<1>1. /\ SinkTypeOK /\ OneAsks /\ NewIsCreated /\ MismatchesCounted
      /\ \A m \in Streams : AtSlice(m) /\ Flushed(m) /\ HasBytes(m)
  BY DEF SinkInv
<1>2. Streams' = Streams /\ \A m \in Streams : Slices(m)' = Slices(m)
  BY LayoutKept
<1>3. ASSUME NEW m \in Streams
      PROVE  /\ AtSlice(m)' /\ Flushed(m)' /\ HasBytes(m)' /\ Ent(m)' = Ent(m)
             /\ BadSlices(m)' = BadSlices(m) /\ \A e : RestSum(m, e)' = RestSum(m, e)
             /\ thr[m].pc \in {"asklock", "answer"} => Ent(m) \in Entries
  <2>1. thr[m].pc \in {"write", "asklock", "answer"} => Ent(m) \in Entries
    BY <1>1, EntType DEF AtSlice
  <2>2. /\ AtSlice(m)' /\ Flushed(m)' /\ Ent(m)' = Ent(m)
        /\ BadSlices(m)' = BadSlices(m) /\ \A e : RestSum(m, e)' = RestSum(m, e)
    BY <1>1, StaysPut
  <2>3. HasBytes(m)'
    <3>1. Slice(m)' = Slice(m)
      BY <1>2 DEF Slice
    <3>2. FromPos(m)' = FromPos(m) /\ ToPos(m)' = ToPos(m)
      BY Zenon DEF FromPos, ToPos, Spos, Send, Slices
    <3> QED BY <1>1, <2>1, <2>2, <3>1, <3>2 DEF HasBytes
  <2> QED BY <2>1, <2>2, <2>3
<1>4. OneAsks'
  BY <1>1, <1>2, <1>3 DEF OneAsks, AsksAbout
<1>5. ASSUME NEW e \in Entries PROVE Decided(e)' /\ Counted(e)'
  <2>1. Owed(e)' = Owed(e)
    BY <1>1, <1>3, OwedKept
  <2> QED BY <2>1 DEF SinkInv, Decided, Counted, Healthy
<1>6. NewIsCreated'
  <2>1. ASSUME NEW x \in Paths, outDisk'[x].state = "new"
        PROVE  \E d \in Entries : job.path[d] = x /\ outFile'[d].created /\ outFile'[d].writeIt
    <3>1. PICK d \in Entries : job.path[d] = x /\ outFile[d].created /\ outFile[d].writeIt
      BY <1>1, <2>1 DEF NewIsCreated
    <3> QED BY <3>1
  <2> QED BY <2>1 DEF NewIsCreated
<1>7. MismatchesCounted'
  <2>1. [m \in Streams |-> Cardinality(BadSlices(m))]' = [m \in Streams |-> Cardinality(BadSlices(m))]
    BY <1>2, <1>3
  <2>2. mismatches' = OverStreams([m \in Streams |-> Cardinality(BadSlices(m))])'
    BY <1>1, <2>1 DEF MismatchesCounted, OverStreams
  <2>3. \A m \in Streams : thr'[m].call \in {"begin", "write"}
                           => strm'[m].pending = Cardinality(BadSlices(m))'
    BY <1>1, <1>3 DEF MismatchesCounted
  <2> QED BY <1>2, <2>2, <2>3 DEF MismatchesCounted
<1> QED BY <1>2, <1>3, <1>4, <1>5, <1>6, <1>7 DEF SinkInv

\* CloseAll: what is still open is closed.
LEMMA CloseAllInv ==
    ASSUME SinkInv, CloseAll
    PROVE  SinkInv'
<1>1. /\ outFile' = [e \in Entries |-> [outFile[e] EXCEPT !.open = FALSE, !.closed = @ \/ outFile[e].open]]
      /\ allClosed' = TRUE
      /\ UNCHANGED <<job, outDisk, strm, thr, always, asking, declined, mismatches>>
  BY Zenon DEF CloseAll
<1>2. SinkTypeOK
  BY DEF SinkInv
<1>3. ASSUME NEW e \in Entries
      PROVE  /\ outFile'[e] \in FileState
             /\ outFile'[e].decided = outFile[e].decided /\ outFile'[e].deciding = outFile[e].deciding
             /\ outFile'[e].created = outFile[e].created /\ outFile'[e].writeIt = outFile[e].writeIt
             /\ outFile'[e].failed = outFile[e].failed /\ outFile'[e].cannot = outFile[e].cannot
             /\ outFile'[e].remaining = outFile[e].remaining
             /\ ~outFile'[e].open
             /\ outFile'[e].closed = (outFile[e].closed \/ outFile[e].open)
  <2>1. PICK f \in FileState, c \in BOOLEAN :
           f = outFile[e] /\ c = (outFile[e].closed \/ outFile[e].open)
    BY <1>2 DEF SinkTypeOK
  <2>2. outFile'[e] = [f EXCEPT !.open = FALSE, !.closed = c]
    BY <1>1, <2>1
  <2> QED BY <2>1, <2>2 DEF FileState
<1>4. SinkTypeOK'
  <2>1. outFile' \in [Entries -> FileState]
    BY <1>1, <1>3
  <2>2. Streams' = Streams
    BY <1>1, LayoutKept
  <2> QED BY <1>1, <1>2, <2>1, <2>2 DEF SinkTypeOK
<1>5. ASSUME NEW e \in Entries
      PROVE  /\ outFile'[e].open => outFile[e].open
             /\ outFile[e].closed => outFile'[e].closed
             /\ outFile'[e].closed => outFile[e].closed \/ outFile[e].open
  BY <1>3, Zenon
<1> QED BY <1>1, <1>3, <1>4, <1>5, StillStep

\* Nothing happens.
LEMMA StutterInv ==
    ASSUME SinkInv, UNCHANGED sinkVars
    PROVE  SinkInv'
<1>1. SinkTypeOK'
  <2>1. Streams' = Streams
    BY LayoutKept DEF sinkVars
  <2> QED BY <2>1 DEF SinkInv, SinkTypeOK, sinkVars
<1> QED BY <1>1, StillStep DEF sinkVars

-----------------------------------------------------------------------------
(* The beginning                                                           *)

\* The bytes of a file are a number of bytes.
LEMMA PublishType ==
    ASSUME job \in Cases, NEW e
    PROVE  Publish(e) \in Nat
<1> DEFINE part(k) == [i \in DOMAIN Slices(k) |-> LenIn(k, i, e)]
           f == [k \in Streams |-> OverSlices(k, part(k))]
<1>1. Len(job.streams) \in Nat
  BY PSinkAssumption DEF Extraction
<1>2. PICK n \in Nat \ {0} : n = Len(job.streams) + 1
  BY <1>1
<1>3. ASSUME NEW k \in 1 .. n - 1 PROVE f[k] \in Nat
  <2>1. k \in Streams
    BY <1>1, <1>2 DEF Streams
  <2>2. /\ Len(Slices(k)) \in Nat /\ DOMAIN Slices(k) = 1 .. Len(Slices(k))
        /\ \A i \in 1 .. Len(Slices(k)) : Slices(k)[i].len \in Nat
    BY <2>1, SliceFacts
  <2>3. PICK m \in Nat \ {0} : m = Len(Slices(k)) + 1
    BY <2>2
  <2>4. \A i \in 1 .. m - 1 : part(k)[i] \in Nat
    BY <2>2, <2>3 DEF LenIn
  <2>5. PICK g : g = part(k)
    OBVIOUS
  <2>6. SumBefore(g, m) \in Nat
    BY <2>4, <2>5, SumType
  <2>7. OverSlices(k, part(k)) = SumBefore(g, m)
    BY <2>3, <2>5 DEF OverSlices
  <2> HIDE DEF part
  <2> QED BY <2>1, <2>6, <2>7
<1>4. PICK g : g = f
  OBVIOUS
<1>5. SumBefore(g, n) \in Nat
  BY <1>3, <1>4, SumType
<1> QED BY <1>2, <1>4, <1>5, Zenon DEF Publish, OverStreams

\* Noughts add up to nought.
LEMMA SumOfNone ==
    ASSUME NEW f, NEW n \in Nat \ {0}, \A k \in 1 .. n - 1 : f[k] = 0
    PROVE  SumBefore(f, n) = 0
<1>1. SumBefore(f, n) = SumBefore(f, n) + SumBefore(f, n)
  BY SumPlus
<1>2. SumBefore(f, n) \in Nat
  BY SumType
<1> QED BY <1>1, <1>2

\* Nothing is decided, written or judged.
LEMMA InitInv ==
    ASSUME SinkInit
    PROVE  SinkInv
<1>1. job \in Cases
  BY DEF SinkInit
<1>2. /\ job.path \in [Entries -> Paths] /\ Len(job.streams) \in Nat /\ job.yes \in BOOLEAN
      /\ MaxTries \in Nat \ {0}
  BY <1>1, PSinkAssumption DEF Extraction
<1>3. ASSUME NEW e \in Entries
      PROVE  /\ outFile[e] \in FileState /\ outFile[e].remaining = Publish(e)
             /\ ~outFile[e].decided /\ ~outFile[e].deciding /\ ~outFile[e].created
             /\ ~outFile[e].open /\ ~outFile[e].closed /\ ~outFile[e].cannot
  <2>1. PICK r \in Nat : r = Publish(e)
    BY <1>1, PublishType
  <2>2. outFile[e] = [decided |-> FALSE, deciding |-> FALSE, writeIt |-> FALSE, created |-> FALSE,
                      cannot |-> FALSE, open |-> FALSE, closed |-> FALSE, failed |-> FALSE,
                      remaining |-> r]
    BY <2>1 DEF SinkInit
  <2> QED BY <2>1, <2>2 DEF FileState
<1>4. ASSUME NEW k \in Streams
      PROVE  /\ strm[k] \in StreamState /\ strm[k].produced = 0 /\ strm[k].flushed = 0
             /\ strm[k].heldBase = 0 /\ strm[k].checked = {} /\ strm[k].pending = 0
             /\ strm[k].ends = "no"
             /\ thr[k] \in WorkerState /\ thr[k].pc = "start" /\ thr[k].call = "begin"
             /\ thr[k].i = 1 /\ thr[k].to = 0
  <2>1. /\ strm[k] = [produced |-> 0, flushed |-> 0, heldBase |-> 0, entered |-> 0,
                      checked |-> {}, pending |-> 0, try |-> 1, ends |-> "no"]
        /\ thr[k] = [pc |-> "start", call |-> "begin", i |-> 1, to |-> 0]
    BY DEF SinkInit
  <2>2. 1 \in 1 .. MaxTries
    BY <1>2
  <2> QED BY <2>1, <2>2 DEF StreamState, WorkerState
<1>5. ASSUME NEW p \in Paths
      PROVE  /\ outDisk[p] \in [state : {"absent", "old", "new"}, bytes : [Offsets -> Byte]]
             /\ outDisk[p].state # "new"
  <2>1. NoByte \in Byte
    BY <1>2 DEF NoByte, Byte
  <2>2. outDisk[p] = [state |-> IF p \in job.old THEN "old" ELSE "absent",
                      bytes |-> [o \in Offsets |-> NoByte]]
    BY DEF SinkInit
  <2> QED BY <2>1, <2>2
<1>6. SinkTypeOK
  <2>1. outFile \in [Entries -> FileState]
    <3>1. outFile = [e \in Entries |-> outFile[e]]
      BY DEF SinkInit
    <3> QED BY <1>3, <3>1
  <2>2. outDisk \in [Paths -> [state : {"absent", "old", "new"}, bytes : [Offsets -> Byte]]]
    <3>1. outDisk = [p \in Paths |-> outDisk[p]]
      BY DEF SinkInit
    <3> QED BY <1>5, <3>1
  <2>3. strm \in [Streams -> StreamState] /\ thr \in [Streams -> WorkerState]
    <3>1. strm = [k \in Streams |-> strm[k]] /\ thr = [k \in Streams |-> thr[k]]
      BY DEF SinkInit
    <3> QED BY <1>4, <3>1
  <2>4. /\ always \in BOOLEAN /\ asking \in {0} \cup Streams /\ declined \subseteq Entries
        /\ mismatches \in Nat /\ allClosed \in BOOLEAN
    BY <1>2 DEF SinkInit
  <2> QED BY <1>1, <2>1, <2>2, <2>3, <2>4 DEF SinkTypeOK
<1>7. ASSUME NEW k \in Streams PROVE AtSlice(k) /\ Flushed(k) /\ HasBytes(k)
  <2>1. Len(Slices(k)) \in Nat
    BY <1>1, SliceFacts
  <2>2. AtSlice(k)
    BY <1>4, <2>1 DEF AtSlice
  <2>3. MayFlush(k) = 0
    <3>1. PICK z \in Nat : z = 0
      OBVIOUS
    <3>2. z <= z
      OBVIOUS
    <3>3. SafeFlushPoint(k, z) \in Nat /\ SafeFlushPoint(k, z) <= z
      BY <1>1, <3>2, SafeFlushFacts
    <3> QED BY <1>4, <3>1, <3>3 DEF MayFlush
  <2>4. Flushed(k)
    BY <1>4, <2>3 DEF Flushed
  <2>5. HasBytes(k)
    BY <1>4 DEF HasBytes
  <2> QED BY <2>2, <2>4, <2>5
<1>8. OneAsks
  BY <1>4 DEF OneAsks, AsksAbout
<1>9. NewIsCreated
  BY <1>5 DEF NewIsCreated
<1>10. ASSUME NEW e \in Entries PROVE Owed(e) = Publish(e)
  <2>1. ASSUME NEW k \in Streams
        PROVE  [i \in DOMAIN Slices(k) |-> LenIn(k, i, e) - Before(k, i, e, Reached(k, i))]
               = [i \in DOMAIN Slices(k) |-> LenIn(k, i, e)]
    <3>1. Len(Slices(k)) \in Nat /\ DOMAIN Slices(k) = 1 .. Len(Slices(k))
      BY <1>1, SliceFacts
    <3>2. ASSUME NEW i \in 1 .. Len(Slices(k))
          PROVE  LenIn(k, i, e) - Before(k, i, e, Reached(k, i)) = LenIn(k, i, e)
      <4>1. PICK z \in Nat : z = 0 /\ z = Reached(k, i)
        BY <1>4, <1>6, <3>1, ReachedIs
      <4>2. /\ LenIn(k, i, e) \in Nat /\ Spos(k, i) \in Nat
            /\ Before(k, i, e, z) = IF Slices(k)[i].entry # e \/ z <= Spos(k, i) THEN 0
                                    ELSE IF z <= Spos(k, i) + Slices(k)[i].len THEN z - Spos(k, i)
                                    ELSE Slices(k)[i].len
        <5>1. LenIn(k, i, e) \in Nat /\ Spos(k, i) \in Nat
          BY <1>1, <4>1, BeforeFacts
        <5>2. Before(k, i, e, z) = IF Slices(k)[i].entry # e \/ z <= Spos(k, i) THEN 0
                                   ELSE IF z <= Spos(k, i) + Slices(k)[i].len THEN z - Spos(k, i)
                                   ELSE Slices(k)[i].len
          BY ONLY <1>1, <4>1, k \in Streams, i \in 1 .. Len(Slices(k)), BeforeFacts
        <5> QED BY <5>1, <5>2
      <4>3. Before(k, i, e, z) = 0
        BY <4>1, <4>2
      <4> QED BY <4>1, <4>2, <4>3
    <3> QED BY <3>1, <3>2
  <2>2. [k \in Streams |->
           OverSlices(k, [i \in DOMAIN Slices(k) |->
                             LenIn(k, i, e) - Before(k, i, e, Reached(k, i))])]
        = [k \in Streams |-> OverSlices(k, [i \in DOMAIN Slices(k) |-> LenIn(k, i, e)])]
    BY <2>1
  <2> QED BY <2>2, Zenon DEF Owed, Publish
<1>11. ASSUME NEW e \in Entries PROVE Decided(e) /\ Counted(e)
  <2>1. declined = {}
    BY DEF SinkInit
  <2> QED BY <1>3, <1>10, <2>1 DEF Decided, Counted, Healthy
<1>12. MismatchesCounted
  <2>1. ASSUME NEW k \in Streams PROVE Cardinality(BadSlices(k)) = 0
    <3>1. BadSlices(k) = {}
      BY <1>4 DEF BadSlices
    <3> QED BY <3>1, FS_EmptySet
  <2>2. PICK n \in Nat \ {0} : n = Len(job.streams) + 1
    BY <1>2
  <2>3. PICK f : f = [k \in Streams |-> Cardinality(BadSlices(k))]
    OBVIOUS
  <2>4. \A k \in 1 .. n - 1 : f[k] = 0
    BY <1>2, <2>1, <2>2, <2>3 DEF Streams
  <2>5. SumBefore(f, n) = 0
    BY <2>4, SumOfNone
  <2>6. mismatches = OverStreams([k \in Streams |-> Cardinality(BadSlices(k))])
    BY <2>2, <2>3, <2>5 DEF SinkInit, OverStreams
  <2>7. \A k \in Streams : strm[k].pending = Cardinality(BadSlices(k))
    BY <1>4, <2>1
  <2> QED BY <2>6, <2>7 DEF MismatchesCounted
<1> QED BY <1>6, <1>7, <1>8, <1>9, <1>11, <1>12 DEF SinkInv

-----------------------------------------------------------------------------
(* The theorems                                                            *)

\* SinkInv is an invariant of the sink, for any number of streams and files.
THEOREM Invariance == SinkSpec => []SinkInv
<1>1. ASSUME SinkInv, SinkNext PROVE SinkInv'
  <2>1. CASE CloseAll
    BY <1>1, <2>1, CloseAllInv
  <2>2. ASSUME NEW k \in Streams, Worker(k) \/ Answered(k) PROVE SinkInv'
    <3>1. CASE CreateDecided(k)
      BY <1>1, <3>1, CreateDecidedInv
    <3>2. CASE Decide(k)
      BY <1>1, <3>2, DecideInv
    <3>3. CASE DecideByAsking(k)
      BY <1>1, <3>3, DecideByAskingInv
    <3>4. CASE LockAskMu(k) \/ SaysYes(k) \/ SaysNo(k)
      BY <1>1, <3>4, AnswerInv
    <3>5. CASE StreamBegin(k)
      BY <1>1, <3>5, BeginInv
    <3>6. ASSUME NEW n \in 1 .. MaxChunk, StreamWrite(k, n) PROVE SinkInv'
      BY <1>1, <3>6, WriteInv
    <3>7. ASSUME NEW ends \in {"ok", "fail", "clean"}, NEW p \in 0 .. Total(k), StreamEnd(k, ends, p)
          PROVE  SinkInv'
      BY <1>1, <3>7, EndInv
    <3>8. CASE StreamRewind(k)
      BY <1>1, <3>8, RewindInv
    <3>9. CASE NextSlice(k)
      BY <1>1, <3>9, NextSliceInv
    <3>10. CASE WriteAt(k)
      BY <1>1, <3>10, WriteAtInv
    <3>11. CASE WriteFails(k)
      BY <1>1, <3>11, WriteFailsInv
    <3>12. CASE Check(k)
      BY <1>1, <3>12, CheckInv
    <3>13. CASE EndSlices(k)
      BY <1>1, <3>13, EndSlicesInv
    <3>14. CASE EnterGroup(k)
      BY <1>1, <3>14, EnterGroupInv
    <3> QED
      BY <2>2, <3>1, <3>2, <3>3, <3>4, <3>5, <3>6, <3>7, <3>8, <3>9, <3>10, <3>11, <3>12, <3>13,
         <3>14, Zenon DEF Worker, Answered
  <2> QED BY <1>1, <2>1, <2>2, Zenon DEF SinkNext
<1>2. ASSUME SinkInv, [SinkNext \/ SinkTerminated]_sinkVars PROVE SinkInv'
  BY <1>1, <1>2, StutterInv, Zenon DEF SinkTerminated
<1> QED BY <1>2, InitInv, PTL DEF SinkSpec

\* Types are kept.
THEOREM TypeCorrect == SinkSpec => []SinkTypeOK
<1>1. SinkInv => SinkTypeOK
  BY DEF SinkInv
<1> QED BY <1>1, Invariance, PTL

\* While the question about a file is open, and after the answer No, what was there before is
\* there still, unless another entry goes to the same path.
THEOREM NoKeepsWhatWasThere == SinkSpec => []NoKeepsOld
<1>1. ASSUME SinkInv PROVE NoKeepsOld
  <2>1. SUFFICES ASSUME NEW e \in Entries, outFile[e].deciding \/ e \in declined,
                        outDisk[job.path[e]].state # "old"
                 PROVE  \E d \in Entries \ {e} : job.path[d] = job.path[e] /\ outFile[d].created
    BY Zenon DEF NoKeepsOld
  <2>2. job.path[e] \in Paths
    BY <1>1, PSinkAssumption DEF SinkInv, SinkTypeOK, Extraction
  <2>3. outDisk[job.path[e]].state \in {"absent", "old", "new"}
    BY <1>1, <2>2 DEF SinkInv, SinkTypeOK
  <2>4. /\ outDisk[job.path[e]].state # "absent"
        /\ ~outFile[e].created \/ ~outFile[e].writeIt
    BY <1>1, <2>1 DEF SinkInv, Decided
  <2>5. outDisk[job.path[e]].state = "new"
    BY <2>1, <2>3, <2>4
  <2>6. PICK d \in Entries : job.path[d] = job.path[e] /\ outFile[d].created /\ outFile[d].writeIt
    BY <1>1, <2>2, <2>5 DEF SinkInv, NewIsCreated
  <2>7. d # e
    BY <2>4, <2>6
  <2> QED BY <2>6, <2>7
<1> QED BY <1>1, Invariance, PTL

\* Remaining is what the streams have not written, and a file is closed with its last byte.
THEOREM RemainingIsOwed == SinkSpec => []ClosedWithLastByte
<1>1. SinkInv => ClosedWithLastByte
  BY DEF SinkInv, Counted, ClosedWithLastByte
<1> QED BY <1>1, Invariance, PTL

\* A stream that is over has left on the disk what the way it ended leaves.
THEOREM FailureLeavesUnits == SinkSpec => []FailureKeepsUnits
<1>1. ASSUME SinkInv PROVE FailureKeepsUnits
  <2>1. SUFFICES ASSUME NEW k \in Streams, thr[k].pc = "done"
                 PROVE  strm[k].flushed = EndFlush(k)
    BY Zenon DEF FailureKeepsUnits, EndFlush, MayFlush
  <2>2. Flushed(k) /\ thr[k].call \in {"begin", "write", "end", "group"}
    BY <1>1 DEF SinkInv, SinkTypeOK, WorkerState
  <2> QED BY <2>1, <2>2 DEF Flushed
<1> QED BY <1>1, Invariance, PTL

\* What is reported at the end are the slices that are out and do not match.
THEOREM MismatchesReported == SinkSpec => []MismatchesExact
<1>1. SinkInv => MismatchesExact
  BY Zenon DEF SinkInv, MismatchesCounted, MismatchesExact, BadSlices
<1> QED BY <1>1, Invariance, PTL

-----------------------------------------------------------------------------
(* What the files hold                                                     *)

\* Where a stream starts, and what is known of one that has ended.
Ended(k) ==
    /\ thr[k].call = "begin" => strm[k].produced = 0 /\ strm[k].flushed = 0 /\ thr[k].i = 1
    /\ thr[k].call = "end" => strm[k].ends # "no"
    /\ thr[k].pc = "group" \/ thr[k].call = "group" => strm[k].ends \notin {"no", "ok"}
    /\ strm[k].ends = "ok" => strm[k].produced = Total(k)

\* A worker that creates its file in StreamWrite has reached it, and one that writes
\* has opened it.
Due(k) ==
    /\ thr[k].pc \in {"create", "asklock", "answer"} /\ thr[k].call = "write"
       => Spos(k, thr[k].i) < thr[k].to
    /\ thr[k].pc = "write" => Opened(Ent(k))

\* The stream has passed the beginning of its slice i.
Been(k, i) ==
    \/ Spos(k, i) < Reached(k, i)
    \/ /\ thr[k].call = "end" /\ strm[k].ends = "ok"
       /\ i < thr[k].i \/ (i = thr[k].i /\ thr[k].pc = "check")

EntryOf(k, i) == Slices(k)[i].entry

Visited(k) == \A i \in 1 .. Len(Slices(k)) : Been(k, i) => outFile[EntryOf(k, i)].created

Alive(k) == strm[k].ends \in {"no", "ok"}

\* The files of one path are created in their order.
InOrder(k) ==
    Alive(k) =>
        \A i, j \in 1 .. Len(Slices(k)) :
            /\ job.path[EntryOf(k, j)] = job.path[EntryOf(k, i)] /\ EntryOf(k, j) < EntryOf(k, i)
            /\ outFile[EntryOf(k, i)].created
            => outFile[EntryOf(k, j)].created

\* How much of its slice i the stream has written.
Share(k, i) == Before(k, i, EntryOf(k, i), Reached(k, i))

\* The bytes it has written are there, and they are those of the attempt it is at.
Held(k, i) ==
    Alive(k) /\ Stays(EntryOf(k, i)) =>
        \A o \in Slices(k)[i].off .. Slices(k)[i].off + Share(k, i) - 1 :
            outDisk[job.path[EntryOf(k, i)]].bytes[o] = [entry |-> EntryOf(k, i), try |-> strm[k].try]

HeldInv ==
    /\ allClosed => \A k \in Streams : thr[k].pc = "done"
    /\ \A k \in Streams : /\ Ended(k) /\ Due(k) /\ Visited(k) /\ InOrder(k)
                          /\ \A i \in 1 .. Len(Slices(k)) : Held(k, i)

\* The slices of a stream come one after the other.
LEMMA SposOrder ==
    ASSUME job \in Cases, NEW k \in Streams, NEW i \in 1 .. Len(Slices(k))
    PROVE  /\ Spos(k, i) \in Nat /\ Send(k, i) \in Nat /\ Send(k, i) = Spos(k, i) + Slices(k)[i].len
           /\ Send(k, i) <= Total(k)
           /\ \A j \in 1 .. Len(Slices(k)) : i < j => Send(k, i) <= Spos(k, j)
<1> DEFINE lens == [j \in DOMAIN Slices(k) |-> Slices(k)[j].len]
           S == {d \in Nat : Send(k, i) <= Spos(k, i + 1 + d)}
<1>1. /\ Len(Slices(k)) \in Nat /\ DOMAIN Slices(k) = 1 .. Len(Slices(k))
      /\ \A j \in 1 .. Len(Slices(k)) : Slices(k)[j].len \in Nat
  BY SliceFacts
<1>2. \A j \in 1 .. Len(Slices(k)) : lens[j] = Slices(k)[j].len
  BY <1>1
<1> HIDE DEF lens
<1>3. ASSUME NEW j \in 1 .. Len(Slices(k)) PROVE Spos(k, j + 1) = Spos(k, j) + Slices(k)[j].len
  <2>1. SumBefore(lens, j + 1) = SumBefore(lens, j) + lens[j]
    BY SumStep
  <2> QED BY <1>2, <2>1 DEF Spos, lens
<1>4. \A j \in 1 .. Len(Slices(k)) + 1 : Spos(k, j) \in Nat
  BY SposType
<1>5. /\ Spos(k, i) \in Nat /\ Send(k, i) \in Nat /\ Send(k, i) = Spos(k, i) + Slices(k)[i].len
      /\ Send(k, i) = Spos(k, i + 1)
  <2>1. i \in 1 .. Len(Slices(k)) + 1
    BY <1>1
  <2> QED BY <1>1, <1>3, <1>4, <2>1 DEF Send
<1>6. 0 \in S
  BY <1>5
<1>7. ASSUME NEW d \in 0 .. (Len(Slices(k)) - i) - 1, d \in S PROVE d + 1 \in S
  <2>1. /\ i + 1 + d \in 1 .. Len(Slices(k)) /\ i + 1 + d \in 1 .. Len(Slices(k)) + 1
        /\ (i + 1 + d) + 1 \in 1 .. Len(Slices(k)) + 1 /\ d + 1 \in Nat
        /\ (i + 1 + d) + 1 = i + 1 + (d + 1)
    BY <1>1
  <2>2. PICK m \in 1 .. Len(Slices(k)) : m = i + 1 + d
    BY <2>1
  <2>3. Spos(k, m + 1) = Spos(k, m) + Slices(k)[m].len /\ Slices(k)[m].len \in Nat
    BY <1>1, <1>3
  <2>4. Spos(k, m) \in Nat /\ Spos(k, m + 1) \in Nat
    BY <1>4, <2>1, <2>2
  <2>5. Send(k, i) <= Spos(k, m)
    BY <1>7, <2>2
  <2> QED BY <1>5, <2>1, <2>2, <2>3, <2>4, <2>5
<1> HIDE DEF S
<1>8. 0 .. Len(Slices(k)) - i \subseteq S
  <2>1. Len(Slices(k)) - i \in Nat
    BY <1>1
  <2> QED BY <1>6, <1>7, <2>1, InductionUpTo
<1>9. ASSUME NEW j \in 1 .. Len(Slices(k)) + 1, i < j PROVE Send(k, i) <= Spos(k, j)
  <2>1. j - i - 1 \in 0 .. Len(Slices(k)) - i /\ i + 1 + (j - i - 1) = j
    BY <1>1, <1>9
  <2>2. j - i - 1 \in S
    BY <1>8, <2>1
  <2> QED BY <2>1, <2>2 DEF S
<1>10. Send(k, i) <= Total(k)
  <2>1. Len(Slices(k)) + 1 \in 1 .. Len(Slices(k)) + 1 /\ i < Len(Slices(k)) + 1
    BY <1>1
  <2> QED BY <1>9, <2>1 DEF Total
<1>11. \A j \in 1 .. Len(Slices(k)) : i < j => Send(k, i) <= Spos(k, j)
  <2>1. \A j \in 1 .. Len(Slices(k)) : j \in 1 .. Len(Slices(k)) + 1
    BY <1>1
  <2> QED BY <1>9, <2>1
<1> QED BY <1>5, <1>10, <1>11

\* What a stream has written of a slice.
LEMMA ShareIs ==
    ASSUME SinkTypeOK, NEW k \in Streams, NEW i \in 1 .. Len(Slices(k)), NEW p \in Nat
    PROVE  /\ EntryOf(k, i) \in Entries /\ Slices(k)[i].len \in Nat /\ Slices(k)[i].off \in Nat
           /\ Before(k, i, EntryOf(k, i), p) \in Nat
           /\ Before(k, i, EntryOf(k, i), p) <= Slices(k)[i].len
           /\ Before(k, i, EntryOf(k, i), p)
              = IF p <= Spos(k, i) THEN 0 ELSE IF p <= Send(k, i) THEN p - Spos(k, i)
                ELSE Slices(k)[i].len
<1>1. job \in Cases /\ Slices(k)[i].len \in Nat /\ Slices(k)[i].entry \in Entries
      /\ Slices(k)[i].off \in Nat
  BY SliceFacts DEF SinkTypeOK
<1>2. PICK e \in Entries : e = EntryOf(k, i) /\ Slices(k)[i].entry = e
  BY <1>1 DEF EntryOf
<1>3. /\ Before(k, i, e, p) \in Nat /\ Before(k, i, e, p) <= LenIn(k, i, e)
      /\ Before(k, i, e, p) = IF Slices(k)[i].entry # e \/ p <= Spos(k, i) THEN 0
                              ELSE IF p <= Spos(k, i) + Slices(k)[i].len THEN p - Spos(k, i)
                              ELSE Slices(k)[i].len
  BY <1>1, BeforeFacts
<1>4. LenIn(k, i, e) = Slices(k)[i].len
  BY <1>2 DEF LenIn
<1> QED BY <1>1, <1>2, <1>3, <1>4 DEF Send

\* The share in the next state.
LEMMA ShareNext ==
    ASSUME UNCHANGED job, NEW k, NEW i, NEW p, p = Reached(k, i)'
    PROVE  /\ Slices(k)' = Slices(k) /\ EntryOf(k, i)' = EntryOf(k, i) /\ Spos(k, i)' = Spos(k, i)
           /\ Share(k, i)' = Before(k, i, EntryOf(k, i), p)
<1>1. Slices(k)' = Slices(k) /\ Spos(k, i)' = Spos(k, i)
  BY LayoutKept
<1>2. EntryOf(k, i)' = EntryOf(k, i)
  BY <1>1 DEF EntryOf
<1>3. Share(k, i)' = Before(k, i, EntryOf(k, i), p)
  BY Zenon DEF Share, Before, EntryOf, Spos, Slices
<1> QED BY <1>1, <1>2, <1>3

\* A step that opens no file and gives none back lets those stay that stayed.
LEMMA StaysKept ==
    ASSUME UNCHANGED job, NEW e \in Entries, Healthy(e)' => Healthy(e),
           \A d \in Entries : Opened(d) => Opened(d)'
    PROVE  Stays(e)' => Stays(e)
BY DEF Stays

\* A slice whose share, bytes and attempt are as before.
LEMMA HeldKept ==
    ASSUME UNCHANGED job, NEW k \in Streams, NEW i \in 1 .. Len(Slices(k)), SinkTypeOK, Held(k, i),
           Alive(k)' => Alive(k), Stays(EntryOf(k, i))' => Stays(EntryOf(k, i)),
           \/ Share(k, i)' = 0
           \/ /\ Share(k, i)' = Share(k, i) /\ strm'[k].try = strm[k].try
              /\ outDisk'[job.path[EntryOf(k, i)]] = outDisk[job.path[EntryOf(k, i)]]
    PROVE  Held(k, i)'
<1>1. Slices(k)' = Slices(k) /\ EntryOf(k, i)' = EntryOf(k, i)
  BY ShareNext
<1>2. Slices(k)[i].off \in Nat
  BY SliceFacts DEF SinkTypeOK
<1>3. SUFFICES ASSUME Alive(k)', Stays(EntryOf(k, i))', Share(k, i)' # 0,
                      NEW o \in Slices(k)[i].off .. Slices(k)[i].off + Share(k, i)' - 1
               PROVE  outDisk'[job.path[EntryOf(k, i)]].bytes[o]
                      = [entry |-> EntryOf(k, i), try |-> strm'[k].try]
  <2>1. Share(k, i)' = 0 => Slices(k)[i].off .. Slices(k)[i].off + Share(k, i)' - 1 = {}
    BY <1>2
  <2> QED BY <1>1, <2>1 DEF Held
<1>4. /\ Share(k, i)' = Share(k, i) /\ strm'[k].try = strm[k].try
      /\ outDisk'[job.path[EntryOf(k, i)]] = outDisk[job.path[EntryOf(k, i)]]
  BY <1>3
<1>5. o \in Slices(k)[i].off .. Slices(k)[i].off + Share(k, i) - 1
  BY <1>3, <1>4
<1>6. outDisk[job.path[EntryOf(k, i)]].bytes[o] = [entry |-> EntryOf(k, i), try |-> strm[k].try]
  BY <1>3, <1>5 DEF Held
<1> QED BY <1>4, <1>6

\* What a step of worker k must keep, besides the files of the others.
LEMMA StepHeld ==
    ASSUME HeldInv, SinkTypeOK, NEW k \in Streams, UNCHANGED <<job, allClosed>>, thr[k].pc # "done",
           \A m \in Streams \ {k} : thr'[m] = thr[m] /\ strm'[m] = strm[m],
           \A d \in Entries : outFile[d].created => outFile'[d].created,
           \A m \in Streams \ {k} : thr[m].pc = "write" => Opened(Ent(m))',
           Ended(k)', Due(k)',
           \A i \in 1 .. Len(Slices(k)) :
               Been(k, i)' => Been(k, i) \/ outFile'[EntryOf(k, i)].created,
           \A m \in Streams : InOrder(m)',
           \A m \in Streams : \A i \in 1 .. Len(Slices(m)) : Held(m, i)'
    PROVE  HeldInv'
<1>1. Streams' = Streams /\ \A m \in Streams : Slices(m)' = Slices(m) /\ Total(m)' = Total(m)
      /\ \A l, i : Spos(l, i)' = Spos(l, i)
  BY LayoutKept
<1>2. ~allClosed /\ ~allClosed'
  BY DEF HeldInv
<1>3. \A m \in Streams : \A i \in 1 .. Len(Slices(m)) :
          EntryOf(m, i) \in Entries /\ EntryOf(m, i)' = EntryOf(m, i)
  BY <1>1, SliceFacts DEF SinkTypeOK, EntryOf
<1>4. ASSUME NEW m \in Streams PROVE Ended(m)' /\ Due(m)'
  <2>1. CASE m = k
    BY <2>1
  <2>2. CASE m # k
    <3>1. thr'[m] = thr[m] /\ strm'[m] = strm[m] /\ Ended(m) /\ Due(m)
      BY <2>2 DEF HeldInv
    <3>2. Ended(m)'
      BY <1>1, <3>1 DEF Ended
    <3>3. Due(m)'
      BY <1>1, <2>2, <3>1 DEF Due
    <3> QED BY <3>2, <3>3
  <2> QED BY <2>1, <2>2
<1>5. ASSUME NEW m \in Streams PROVE Visited(m)'
  <2>1. ASSUME NEW i \in 1 .. Len(Slices(m)), Been(m, i)' PROVE outFile'[EntryOf(m, i)].created
    <3>1. Been(m, i) \/ outFile'[EntryOf(m, i)].created
      <4>1. CASE m = k
        BY <2>1, <4>1
      <4>2. CASE m # k
        BY <1>1, <2>1, <4>2 DEF Been, Reached
      <4> QED BY <4>1, <4>2
    <3>2. Been(m, i) => outFile[EntryOf(m, i)].created
      BY DEF HeldInv, Visited
    <3> QED BY <1>3, <3>1, <3>2
  <2> QED BY <1>1, <1>3, <2>1 DEF Visited
<1> QED BY <1>1, <1>2, <1>4, <1>5 DEF HeldInv

\* A step that creates and opens no file, writes nothing and fails nothing.
LEMMA QuietHeld ==
    ASSUME HeldInv, SinkInv, NEW k \in Streams, UNCHANGED <<job, outDisk, allClosed>>,
           thr[k].pc # "done",
           \A m \in Streams \ {k} : thr'[m] = thr[m] /\ strm'[m] = strm[m],
           \A d \in Entries : /\ outFile'[d].created = outFile[d].created
                              /\ Opened(d)' = Opened(d)
                              /\ Healthy(d)' => Healthy(d),
           Alive(k)' => Alive(k), Ended(k)', Due(k)',
           \A i \in 1 .. Len(Slices(k)) :
               /\ Been(k, i)' => Been(k, i)
               /\ \/ Share(k, i)' = 0
                  \/ Share(k, i)' = Share(k, i) /\ strm'[k].try = strm[k].try
    PROVE  HeldInv'
<1>0. SinkTypeOK
  BY DEF SinkInv
<1>1. Streams' = Streams /\ \A m \in Streams : Slices(m)' = Slices(m)
      /\ \A l, i : Spos(l, i)' = Spos(l, i)
  BY LayoutKept
<1>2. \A m \in Streams : \A i \in 1 .. Len(Slices(m)) :
          EntryOf(m, i) \in Entries /\ EntryOf(m, i)' = EntryOf(m, i)
  BY <1>0, <1>1, SliceFacts DEF SinkTypeOK, EntryOf
<1>3. \A m \in Streams : Alive(m)' => Alive(m)
  BY DEF Alive
<1>4. ASSUME NEW m \in Streams \ {k}, thr[m].pc = "write" PROVE Opened(Ent(m))'
  <2>1. Opened(Ent(m)) /\ thr'[m] = thr[m]
    BY <1>4 DEF HeldInv, Due
  <2>2. PICK e \in Entries : e = Ent(m)
    BY <1>0, <1>4, EntType DEF SinkInv, AtSlice
  <2>3. Ent(m)' = e
    BY <1>1, <2>1, <2>2 DEF Ent, Slice
  <2>4. Opened(e) /\ Opened(e)' = Opened(e)
    BY <2>1, <2>2
  <2> QED BY <2>3, <2>4 DEF Opened
<1>5. ASSUME NEW m \in Streams PROVE InOrder(m)'
  <2>1. InOrder(m)
    BY DEF HeldInv
  <2> QED BY <1>1, <1>2, <1>3, <2>1 DEF InOrder
<1>6. ASSUME NEW m \in Streams, NEW i \in 1 .. Len(Slices(m)) PROVE Held(m, i)'
  <2>1. PICK e \in Entries : e = EntryOf(m, i)
    BY <1>2
  <2>2. Stays(e)' => Stays(e)
    BY StaysKept
  <2>3. \/ Share(m, i)' = 0
        \/ Share(m, i)' = Share(m, i) /\ strm'[m].try = strm[m].try
    <3>1. CASE m = k
      BY <3>1
    <3>2. CASE m # k
      <4>1. Reached(m, i)' = Reached(m, i)
        BY <3>2 DEF Reached
      <4>2. Share(m, i)' = Share(m, i)
        BY <4>1, ShareNext DEF Share
      <4> QED BY <3>2, <4>2
    <3> QED BY <3>1, <3>2
  <2>4. Held(m, i)
    BY DEF HeldInv
  <2>5. Stays(EntryOf(m, i))' => Stays(EntryOf(m, i))
    BY <1>2, <2>1, <2>2
  <2> QED BY <1>0, <1>3, <2>3, <2>4, <2>5, HeldKept
<1> QED BY <1>0, <1>4, <1>5, <1>6, StepHeld

\* A step that only moves its worker on, and gets no further with any slice.
LEMMA CalmHeld ==
    ASSUME HeldInv, SinkInv, NEW k \in Streams, UNCHANGED <<job, outFile, outDisk, allClosed>>,
           thr[k].pc # "done",
           \A m \in Streams \ {k} : thr'[m] = thr[m] /\ strm'[m] = strm[m],
           strm'[k].try = strm[k].try, Alive(k)' => Alive(k), Ended(k)', Due(k)',
           \A i \in 1 .. Len(Slices(k)) :
               /\ Reached(k, i)' = Reached(k, i)
               /\ /\ thr'[k].call = "end" /\ strm'[k].ends = "ok"
                  /\ i < thr'[k].i \/ (i = thr'[k].i /\ thr'[k].pc = "check")
                  => Been(k, i)
    PROVE  HeldInv'
<1>1. \A d \in Entries : /\ outFile'[d].created = outFile[d].created
                         /\ Opened(d)' = Opened(d) /\ Healthy(d)' = Healthy(d)
  BY DEF Opened, Healthy
<1>2. ASSUME NEW i \in 1 .. Len(Slices(k))
      PROVE  (Been(k, i)' => Been(k, i)) /\ Share(k, i)' = Share(k, i)
  <2>1. Spos(k, i)' = Spos(k, i) /\ Share(k, i)' = Share(k, i)
    BY ShareNext DEF Share
  <2>2. Been(k, i)' => Spos(k, i) < Reached(k, i) \/ Been(k, i)
    BY <2>1 DEF Been
  <2> QED BY <2>1, <2>2 DEF Been
<1> QED BY <1>1, <1>2, QuietHeld

\* StreamBegin reaches its first slice and no further.
LEMMA BeginHeld ==
    ASSUME HeldInv, SinkInv, SinkInv', NEW k \in Streams, StreamBegin(k)
    PROVE  HeldInv'
<1>1. /\ SinkTypeOK /\ SinkTypeOK' /\ Flushed(k) /\ Ended(k) /\ thr[k].pc = "start"
      /\ UNCHANGED <<job, outFile, outDisk, allClosed>>
  BY DEF SinkInv, StreamBegin, HeldInv
<1>2. /\ thr[k].call = "begin" /\ Streams' = Streams /\ Total(k)' = Total(k)
      /\ thr \in [Streams -> WorkerState] /\ strm \in [Streams -> StreamState]
      /\ thr'[k] \in WorkerState /\ strm'[k] \in StreamState
  BY <1>1, LayoutKept DEF SinkTypeOK, Flushed
<1>3. /\ thr'[k].call = "begin" /\ thr'[k].i = 1 /\ thr'[k].pc \in {"ready", "create"}
      /\ strm'[k].produced = strm[k].produced /\ strm'[k].flushed = strm[k].flushed
      /\ strm'[k].ends = strm[k].ends /\ strm'[k].try = strm[k].try
      /\ \A m \in Streams \ {k} : thr'[m] = thr[m] /\ strm'[m] = strm[m]
  <2>1. CASE Slices(k) = <<>>
    <3>1. thr' = [thr EXCEPT ![k].pc = "ready"] /\ strm' = strm
      BY <2>1, Zenon DEF StreamBegin, Goto
    <3> QED BY <1>1, <1>2, <3>1 DEF WorkerState, Ended
  <2>2. CASE Slices(k) # <<>>
    <3>1. /\ strm' = [strm EXCEPT ![k].entered = 1]
          /\ thr' = [thr EXCEPT ![k].pc = "create", ![k].call = "begin", ![k].i = 1]
      BY <2>2, Zenon DEF StreamBegin
    <3> QED BY <1>2, <3>1 DEF WorkerState, StreamState
  <2> QED BY <2>1, <2>2
<1>4. Ended(k)' /\ Due(k)' /\ Alive(k)' = Alive(k)
  BY <1>1, <1>2, <1>3 DEF Ended, Due, Alive
<1>5. ASSUME NEW i \in 1 .. Len(Slices(k)) PROVE Reached(k, i)' = Reached(k, i)
  <2>1. i \in Nat
    OBVIOUS
  <2>2. Reached(k, i)' = strm[k].flushed
    BY <1>2, <1>3, <2>1, ReachedNext
  <2>3. Reached(k, i) = strm[k].flushed
    BY <1>1, <1>2, <2>1, ReachedIs
  <2> QED BY <2>2, <2>3
<1> QED BY <1>1, <1>3, <1>4, <1>5, CalmHeld

\* StreamWrite counts what it decoded and flushes the whole quanta of its group.
LEMMA WriteHeld ==
    ASSUME HeldInv, SinkInv, SinkInv', NEW k \in Streams, NEW n \in 1 .. MaxChunk, StreamWrite(k, n)
    PROVE  HeldInv'
<1>1. /\ SinkTypeOK /\ SinkTypeOK' /\ Flushed(k) /\ Ended(k) /\ thr[k].pc = "ready"
      /\ UNCHANGED <<job, outFile, outDisk, allClosed>>
  BY DEF SinkInv, StreamWrite, HeldInv
<1>2. /\ Streams' = Streams /\ strm[k].ends = "no"
      /\ thr \in [Streams -> WorkerState] /\ strm \in [Streams -> StreamState]
      /\ thr'[k] \in WorkerState /\ strm'[k] \in StreamState
  BY <1>1, LayoutKept, AtRest DEF SinkTypeOK
<1>3. PICK p, h, t :
          /\ strm' = [strm EXCEPT ![k].produced = p, ![k].heldBase = h]
          /\ thr' = [thr EXCEPT ![k].pc = "slice", ![k].call = "write", ![k].i = 1, ![k].to = t]
  <2>1. /\ strm' = [strm EXCEPT ![k].produced = Min({strm[k].produced + n, Total(k)}),
                       ![k].heldBase = IF job.policy = "group" THEN @ ELSE strm[k].produced]
        /\ thr' = [thr EXCEPT ![k].pc = "slice", ![k].call = "write", ![k].i = 1,
                         ![k].to = SafeFlushPoint(k, Min({strm[k].produced + n, Total(k)}))]
    BY Zenon DEF StreamWrite
  <2>2. PICK h : h = IF job.policy = "group" THEN strm[k].heldBase ELSE strm[k].produced
    OBVIOUS
  <2>3. [strm EXCEPT ![k].produced = Min({strm[k].produced + n, Total(k)}),
                     ![k].heldBase = IF job.policy = "group" THEN @ ELSE strm[k].produced]
        = [strm EXCEPT ![k].produced = Min({strm[k].produced + n, Total(k)}), ![k].heldBase = h]
    BY <1>2, <2>2 DEF StreamState
  <2> QED BY <2>1, <2>3
<1>4. /\ thr'[k].call = "write" /\ thr'[k].i = 1 /\ thr'[k].pc = "slice"
      /\ strm'[k].flushed = strm[k].flushed
      /\ strm'[k].ends = strm[k].ends /\ strm'[k].try = strm[k].try
      /\ \A m \in Streams \ {k} : thr'[m] = thr[m] /\ strm'[m] = strm[m]
  BY <1>2, <1>3 DEF WorkerState, StreamState
<1>5. Ended(k)' /\ Due(k)' /\ Alive(k)' = Alive(k)
  BY <1>1, <1>2, <1>4 DEF Ended, Due, Alive
<1>6. ASSUME NEW i \in 1 .. Len(Slices(k)) PROVE Reached(k, i)' = Reached(k, i)
  <2>1. i \in Nat /\ ~ (i < 1)
    OBVIOUS
  <2>2. Reached(k, i)' = strm[k].flushed
    BY <1>2, <1>4, <2>1, ReachedNext
  <2>3. Reached(k, i) = strm[k].flushed
    BY <1>1, <2>1, ReachedIs
  <2> QED BY <2>2, <2>3
<1> QED BY <1>1, <1>4, <1>5, <1>6, CalmHeld

\* StreamEnd flushes what the way it ends leaves.
LEMMA EndHeld ==
    ASSUME HeldInv, SinkInv, SinkInv', NEW k \in Streams, NEW ends \in {"ok", "fail", "clean"},
           NEW p \in 0 .. Total(k), StreamEnd(k, ends, p)
    PROVE  HeldInv'
<1>1. /\ SinkTypeOK /\ SinkTypeOK' /\ Flushed(k) /\ Ended(k) /\ thr[k].pc \in {"start", "ready"}
      /\ UNCHANGED <<job, outFile, outDisk, allClosed>>
      /\ ends = "ok" => p = Total(k)
  BY DEF SinkInv, StreamEnd, HeldInv
<1>2. /\ Streams' = Streams /\ Total(k)' = Total(k) /\ strm[k].ends = "no"
      /\ thr \in [Streams -> WorkerState] /\ strm \in [Streams -> StreamState]
      /\ thr'[k] \in WorkerState /\ strm'[k] \in StreamState
  <2>1. strm[k].ends = "no"
    BY <1>1, AtRest
  <2>2. Streams' = Streams /\ Total(k)' = Total(k)
    BY <1>1, LayoutKept
  <2> QED BY <1>1, <2>1, <2>2 DEF SinkTypeOK
<1>3. PICK t :
          /\ strm' = [strm EXCEPT ![k].produced = p, ![k].ends = ends]
          /\ thr' = [thr EXCEPT ![k].pc = "slice", ![k].call = "end", ![k].i = 1, ![k].to = t]
  <2>1. /\ strm' = [strm EXCEPT ![k].produced = p, ![k].ends = ends]
        /\ thr' = [thr EXCEPT ![k].pc = "slice", ![k].call = "end", ![k].i = 1,
                              ![k].to = IF ends = "fail" THEN SafeFlushPoint(k, p) ELSE p]
    BY Zenon DEF StreamEnd
  <2> QED BY <2>1
<1>4. /\ thr'[k].call = "end" /\ thr'[k].i = 1 /\ thr'[k].pc = "slice"
      /\ strm'[k].flushed = strm[k].flushed /\ strm'[k].produced = p
      /\ strm'[k].ends = ends /\ strm'[k].try = strm[k].try
      /\ \A m \in Streams \ {k} : thr'[m] = thr[m] /\ strm'[m] = strm[m]
  BY <1>2, <1>3 DEF WorkerState, StreamState
<1>5. Ended(k)' /\ Due(k)' /\ Alive(k)
  BY <1>1, <1>2, <1>4 DEF Ended, Due, Alive
<1>6. ASSUME NEW i \in 1 .. Len(Slices(k))
      PROVE  Reached(k, i)' = Reached(k, i) /\ ~ (i < thr'[k].i) /\ thr'[k].pc # "check"
  <2>1. i \in Nat /\ ~ (i < 1)
    OBVIOUS
  <2>2. Reached(k, i)' = strm[k].flushed
    BY <1>2, <1>4, <2>1, ReachedNext
  <2>3. Reached(k, i) = strm[k].flushed
    <3>1. thr[k].pc = "start" => thr[k].call = "begin"
      BY <1>1 DEF Flushed
    <3> QED BY <1>1, <2>1, <3>1, ReachedIs
  <2> QED BY <1>4, <2>1, <2>2, <2>3
<1> QED BY <1>1, <1>4, <1>5, <1>6, CalmHeld

\* StreamRewind: a stream that starts over has written nothing.
LEMMA RewindHeld ==
    ASSUME HeldInv, SinkInv, SinkInv', NEW k \in Streams, StreamRewind(k)
    PROVE  HeldInv'
<1>1. /\ SinkTypeOK /\ SinkTypeOK' /\ Flushed(k) /\ Ended(k) /\ thr[k].pc = "ready"
      /\ UNCHANGED <<job, outDisk, thr, allClosed>>
  BY DEF SinkInv, StreamRewind, HeldInv
<1>2. /\ thr[k].call \in {"begin", "write"} /\ strm[k].ends = "no" /\ Streams' = Streams
      /\ thr \in [Streams -> WorkerState] /\ strm \in [Streams -> StreamState]
      /\ thr'[k] \in WorkerState /\ strm'[k] \in StreamState
  <2>1. thr[k].call \in {"begin", "write"} /\ strm[k].ends = "no"
    BY <1>1, AtRest
  <2>2. Streams' = Streams
    BY <1>1, LayoutKept
  <2> QED BY <1>1, <2>1, <2>2 DEF SinkTypeOK
<1>3. /\ strm'[k].produced = 0 /\ strm'[k].flushed = 0 /\ strm'[k].ends = strm[k].ends
      /\ \A m \in Streams \ {k} : thr'[m] = thr[m] /\ strm'[m] = strm[m]
  <2>1. strm' = [strm EXCEPT ![k] = Restarted(k)]
    BY Zenon DEF StreamRewind
  <2>2. strm'[k] = Restarted(k) /\ \A m \in Streams \ {k} : strm'[m] = strm[m]
    BY <1>2, <2>1
  <2>3. /\ Restarted(k).produced = 0 /\ Restarted(k).flushed = 0
        /\ Restarted(k).ends = strm[k].ends
    BY <1>2 DEF Restarted, StreamState
  <2> QED BY <1>1, <2>2, <2>3
<1>4. Ended(k)' /\ Due(k)' /\ Alive(k)' = Alive(k)
  BY <1>1, <1>2, <1>3 DEF Ended, Due, Alive
<1>5. ASSUME NEW d \in Entries
      PROVE  /\ outFile'[d].created = outFile[d].created /\ Opened(d)' = Opened(d)
             /\ Healthy(d)' => Healthy(d)
  <2>1. outFile' = [e \in Entries |-> [outFile[e] EXCEPT !.remaining = @ + WrittenOf(k, e)]]
    BY Zenon DEF StreamRewind
  <2>2. outFile[d] \in FileState
    BY <1>1 DEF SinkTypeOK
  <2>3. /\ outFile'[d].created = outFile[d].created /\ outFile'[d].writeIt = outFile[d].writeIt
        /\ outFile'[d].cannot = outFile[d].cannot /\ outFile'[d].failed = outFile[d].failed
    BY <2>1, <2>2 DEF FileState
  <2> QED BY <2>3 DEF Opened, Healthy
<1>6. ASSUME NEW i \in 1 .. Len(Slices(k)) PROVE (Been(k, i)' => Been(k, i)) /\ Share(k, i)' = 0
  <2>1. i \in Nat /\ 0 \in Nat
    OBVIOUS
  <2>2. Reached(k, i)' = 0
    BY <1>1, <1>2, <1>3, <2>1, ReachedNext
  <2>3. Spos(k, i) \in Nat /\ Spos(k, i)' = Spos(k, i) /\ Share(k, i)' = Before(k, i, EntryOf(k, i), 0)
    BY <1>1, <2>2, SposOrder, ShareNext DEF SinkTypeOK
  <2>4. Before(k, i, EntryOf(k, i), 0) = 0
    BY <1>1, <2>1, <2>3, ShareIs
  <2>5. ~ Been(k, i)'
    BY <1>1, <1>2, <2>2, <2>3 DEF Been
  <2> QED BY <2>3, <2>4, <2>5
<1> QED BY <1>1, <1>3, <1>4, <1>5, <1>6, QuietHeld

\* Check: on to the next slice.
LEMMA CheckHeld ==
    ASSUME HeldInv, SinkInv, SinkInv', NEW k \in Streams, Check(k)
    PROVE  HeldInv'
<1>1. /\ SinkTypeOK /\ SinkTypeOK' /\ AtSlice(k) /\ Flushed(k) /\ Ended(k) /\ thr[k].pc = "check"
      /\ UNCHANGED <<job, outFile, outDisk, allClosed>>
  BY DEF SinkInv, Check, HeldInv
<1>2. /\ thr[k].call \in {"write", "end"} /\ strm[k].flushed <= thr[k].to
      /\ Streams' = Streams /\ Total(k)' = Total(k)
      /\ thr \in [Streams -> WorkerState] /\ strm \in [Streams -> StreamState]
      /\ thr'[k] \in WorkerState /\ strm'[k] \in StreamState /\ thr[k].i \in Nat
  <2>1. Streams' = Streams /\ Total(k)' = Total(k)
    BY <1>1, LayoutKept
  <2>2. /\ thr \in [Streams -> WorkerState] /\ strm \in [Streams -> StreamState]
        /\ thr'[k] \in WorkerState /\ strm'[k] \in StreamState /\ thr[k].i \in Nat
    BY <1>1, <2>1 DEF SinkTypeOK, WorkerState
  <2> QED BY <1>1, <2>1, <2>2 DEF Flushed, WorkerState
<1>3. /\ thr'[k].call = thr[k].call /\ thr'[k].i = thr[k].i + 1 /\ thr'[k].pc = "slice"
      /\ thr'[k].to = thr[k].to
      /\ strm'[k].produced = strm[k].produced /\ strm'[k].flushed = strm[k].flushed
      /\ strm'[k].ends = strm[k].ends /\ strm'[k].try = strm[k].try
      /\ \A m \in Streams \ {k} : thr'[m] = thr[m] /\ strm'[m] = strm[m]
  <2>1. thr' = [thr EXCEPT ![k].pc = "slice", ![k].i = @ + 1]
    BY Zenon DEF Check
  <2>2. PICK c, q : strm' = [strm EXCEPT ![k].checked = c, ![k].pending = q]
    <3>1. PICK judged, bad :
            strm' = [strm EXCEPT ![k].checked = IF judged THEN @ \cup {thr[k].i} ELSE @,
                                 ![k].pending = IF thr[k].call = "write" THEN @ + bad ELSE @]
      BY Zenon DEF Check
    <3>2. PICK c, q : /\ c = IF judged THEN strm[k].checked \cup {thr[k].i} ELSE strm[k].checked
                      /\ q = IF thr[k].call = "write" THEN strm[k].pending + bad ELSE strm[k].pending
      OBVIOUS
    <3> QED BY <1>2, <3>1, <3>2 DEF StreamState
  <2> QED BY <1>2, <2>1, <2>2 DEF WorkerState, StreamState
<1>4. Ended(k)' /\ Due(k)' /\ Alive(k)' = Alive(k)
  BY <1>1, <1>2, <1>3 DEF Ended, Due, Alive
<1>5. ASSUME NEW i \in 1 .. Len(Slices(k))
      PROVE  /\ Reached(k, i)' = Reached(k, i)
             /\ i < thr'[k].i => i < thr[k].i \/ i = thr[k].i
  <2>1. i \in Nat
    OBVIOUS
  <2>2. Reached(k, i) = IF i < thr[k].i \/ i = thr[k].i THEN thr[k].to ELSE strm[k].flushed
    BY <1>1, <1>2, <2>1, ReachedIs
  <2>3. Reached(k, i)' = IF i < thr[k].i + 1 THEN thr[k].to ELSE strm[k].flushed
    BY <1>2, <1>3, <2>1, ReachedNext
  <2>4. i < thr[k].i + 1 <=> i < thr[k].i \/ i = thr[k].i
    BY <1>2, <2>1
  <2> QED BY <1>3, <2>2, <2>3, <2>4
<1>6. ASSUME NEW i \in 1 .. Len(Slices(k)), thr'[k].call = "end", strm'[k].ends = "ok",
             i < thr'[k].i \/ (i = thr'[k].i /\ thr'[k].pc = "check")
      PROVE  Been(k, i)
  BY <1>1, <1>3, <1>5, <1>6 DEF Been
<1> QED BY <1>1, <1>3, <1>4, <1>5, <1>6, CalmHeld

\* EndSlices: what the call wrote is flushed.
LEMMA EndSlicesHeld ==
    ASSUME HeldInv, SinkInv, SinkInv', NEW k \in Streams, EndSlices(k)
    PROVE  HeldInv'
<1>1. /\ SinkTypeOK /\ SinkTypeOK' /\ AtSlice(k) /\ Flushed(k) /\ Ended(k) /\ thr[k].pc = "slice"
      /\ thr[k].i > Len(Slices(k)) /\ job \in Cases
      /\ UNCHANGED <<job, outFile, outDisk, allClosed>>
  BY DEF SinkInv, EndSlices, HeldInv, SinkTypeOK
<1>2. /\ thr[k].call \in {"write", "end"} /\ strm[k].flushed <= thr[k].to
      /\ Streams' = Streams /\ Total(k)' = Total(k)
      /\ thr \in [Streams -> WorkerState] /\ strm \in [Streams -> StreamState]
      /\ thr'[k] \in WorkerState /\ strm'[k] \in StreamState
      /\ thr[k].i \in Nat /\ thr[k].to \in Nat /\ strm[k].flushed \in Nat
  <2>1. Streams' = Streams /\ Total(k)' = Total(k)
    BY <1>1, LayoutKept
  <2>2. /\ thr \in [Streams -> WorkerState] /\ strm \in [Streams -> StreamState]
        /\ thr'[k] \in WorkerState /\ strm'[k] \in StreamState
        /\ thr[k].i \in Nat /\ thr[k].to \in Nat /\ strm[k].flushed \in Nat
    BY <1>1, <2>1 DEF SinkTypeOK, WorkerState, StreamState
  <2> QED BY <1>1, <2>1, <2>2 DEF Flushed, WorkerState
<1>3. /\ thr'[k].call = thr[k].call /\ thr'[k].i = thr[k].i
      /\ thr'[k].pc \in {"ready", "group", "done"}
      /\ thr'[k].pc = "group" => thr[k].call = "end" /\ strm[k].ends # "ok"
      /\ strm'[k].produced = strm[k].produced /\ strm'[k].flushed = thr[k].to
      /\ strm'[k].ends = strm[k].ends /\ strm'[k].try = strm[k].try
      /\ \A m \in Streams \ {k} : thr'[m] = thr[m] /\ strm'[m] = strm[m]
  <2>1. PICK place \in {"ready", "group", "done"} :
            /\ thr' = [thr EXCEPT ![k].pc = place]
            /\ place = "group" => thr[k].call = "end" /\ strm[k].ends # "ok"
    <3>1. Goto(k, IF thr[k].call = "write" THEN "ready"
                  ELSE IF strm[k].ends # "ok" /\ strm[k].produced < Total(k) THEN "group" ELSE "done")
      BY Zenon DEF EndSlices
    <3> QED BY <1>2, <3>1 DEF Goto
  <2>2. PICK h : strm' = [strm EXCEPT ![k].flushed = thr[k].to, ![k].heldBase = h]
    <3>1. strm' = [strm EXCEPT ![k].flushed = Max({@, thr[k].to}),
                               ![k].heldBase = IF thr[k].call = "write" THEN thr[k].to ELSE @]
      BY Zenon DEF EndSlices
    <3>2. PICK h : h = IF thr[k].call = "write" THEN thr[k].to ELSE strm[k].heldBase
      OBVIOUS
    <3>3. PICK f \in Nat, t \in Nat : f = strm[k].flushed /\ t = thr[k].to
      BY <1>2
    <3>4. Max({f, t}) = t
      BY <1>2, <3>3, MaxOfTwo
    <3>5. Max({strm[k].flushed, thr[k].to}) = thr[k].to
      BY <3>3, <3>4
    <3> QED BY <1>2, <3>1, <3>2, <3>5 DEF StreamState
  <2> QED BY <1>2, <2>1, <2>2 DEF WorkerState, StreamState
<1>4. Ended(k)' /\ Due(k)' /\ Alive(k)' = Alive(k)
  BY <1>1, <1>2, <1>3 DEF Ended, Due, Alive
<1>5. ASSUME NEW i \in 1 .. Len(Slices(k))
      PROVE  Reached(k, i)' = Reached(k, i) /\ i < thr[k].i
  <2>1. i \in Nat /\ i < thr[k].i
    <3>1. Len(Slices(k)) \in Nat
      BY <1>1, SliceFacts
    <3> QED BY <1>1, <1>2, <3>1
  <2>2. Reached(k, i)' = thr[k].to
    BY <1>2, <1>3, <2>1, ReachedNext
  <2>3. Reached(k, i) = thr[k].to
    BY <1>1, <1>2, <2>1, ReachedIs
  <2> QED BY <2>1, <2>2, <2>3
<1>6. ASSUME NEW i \in 1 .. Len(Slices(k)), thr'[k].call = "end", strm'[k].ends = "ok"
      PROVE  Been(k, i)
  BY <1>3, <1>5, <1>6 DEF Been
<1> QED BY <1>1, <1>3, <1>4, <1>5, <1>6, CalmHeld

\* EnterGroup: only a stream that ended short goes there.
LEMMA EnterGroupHeld ==
    ASSUME HeldInv, SinkInv, SinkInv', NEW k \in Streams, EnterGroup(k)
    PROVE  HeldInv'
<1>1. /\ SinkTypeOK /\ SinkTypeOK' /\ AtSlice(k) /\ Flushed(k) /\ Ended(k) /\ thr[k].pc = "group"
      /\ UNCHANGED <<job, outFile, outDisk, allClosed>>
  BY DEF SinkInv, EnterGroup, HeldInv
<1>2. /\ thr[k].call \in {"end", "group"} /\ strm[k].ends \notin {"no", "ok"}
      /\ Streams' = Streams /\ Total(k)' = Total(k)
      /\ thr \in [Streams -> WorkerState] /\ strm \in [Streams -> StreamState]
      /\ thr'[k] \in WorkerState /\ strm'[k] \in StreamState
  <2>1. Streams' = Streams /\ Total(k)' = Total(k)
    BY <1>1, LayoutKept
  <2>2. /\ thr \in [Streams -> WorkerState] /\ strm \in [Streams -> StreamState]
        /\ thr'[k] \in WorkerState /\ strm'[k] \in StreamState
    BY <1>1, <2>1 DEF SinkTypeOK
  <2>3. thr[k].call \in {"end", "group"}
    BY <1>1, <2>2 DEF Flushed, WorkerState
  <2> QED BY <1>1, <2>1, <2>2, <2>3 DEF Ended
<1>3. /\ thr'[k].pc \in {"create", "done"} /\ thr'[k].call \in {"end", "group"}
      /\ thr'[k].pc = "create" => thr'[k].call = "group"
      /\ strm'[k].produced = strm[k].produced /\ strm'[k].flushed = strm[k].flushed
      /\ strm'[k].ends = strm[k].ends /\ strm'[k].try = strm[k].try
      /\ \A m \in Streams \ {k} : thr'[m] = thr[m] /\ strm'[m] = strm[m]
  <2>1. PICK g : g = strm[k].entered + 1
    OBVIOUS
  <2>2. CASE g \in Groups(k) /\ GroupStart(k, g) <= strm[k].produced
    <3>1. /\ strm' = [strm EXCEPT ![k].entered = g]
          /\ thr' = [thr EXCEPT ![k].pc = "create", ![k].call = "group", ![k].i = FirstOf(k, g)]
      BY <2>1, <2>2, Zenon DEF EnterGroup
    <3> QED BY <1>2, <3>1 DEF WorkerState, StreamState
  <2>3. CASE ~ (g \in Groups(k) /\ GroupStart(k, g) <= strm[k].produced)
    <3>1. thr' = [thr EXCEPT ![k].pc = "done"] /\ strm' = strm
      BY <2>1, <2>3, Zenon DEF EnterGroup, Goto
    <3> QED BY <1>2, <3>1 DEF WorkerState
  <2> QED BY <2>2, <2>3
<1>4. Ended(k)' /\ Due(k)' /\ Alive(k)' = Alive(k)
  BY <1>2, <1>3 DEF Ended, Due, Alive
<1>5. ASSUME NEW i \in 1 .. Len(Slices(k)) PROVE Reached(k, i)' = Reached(k, i)
  <2>1. i \in Nat
    OBVIOUS
  <2>2. Reached(k, i)' = strm[k].flushed
    BY <1>2, <1>3, <2>1, ReachedNext
  <2>3. Reached(k, i) = strm[k].flushed
    BY <1>1, <2>1, ReachedIs
  <2> QED BY <2>2, <2>3
<1>6. strm'[k].ends # "ok"
  BY <1>2, <1>3
<1> QED BY <1>1, <1>3, <1>4, <1>5, <1>6, CalmHeld

\* NextSlice: a slice with nothing to write is passed over.
LEMMA NextSliceHeld ==
    ASSUME HeldInv, SinkInv, SinkInv', NEW k \in Streams, NextSlice(k)
    PROVE  HeldInv'
<1>1. /\ SinkTypeOK /\ SinkTypeOK' /\ AtSlice(k) /\ Flushed(k) /\ Ended(k) /\ thr[k].pc = "slice"
      /\ thr[k].i <= Len(Slices(k)) /\ job \in Cases
      /\ UNCHANGED <<job, outFile, outDisk, strm, allClosed>>
  BY DEF SinkInv, NextSlice, HeldInv, SinkTypeOK
<1>2. /\ Streams' = Streams /\ Total(k)' = Total(k)
      /\ thr \in [Streams -> WorkerState] /\ strm \in [Streams -> StreamState]
      /\ thr'[k] \in WorkerState /\ strm'[k] \in StreamState /\ thr[k] \in WorkerState
  <2>1. Streams' = Streams /\ Total(k)' = Total(k)
    BY <1>1, LayoutKept
  <2> QED BY <1>1, <2>1 DEF SinkTypeOK
<1>3. thr[k].call \in {"write", "end"} /\ strm[k].flushed <= thr[k].to
  BY <1>1, <1>2 DEF Flushed, WorkerState
<1>4. PICK j \in 1 .. Len(Slices(k)) : j = thr[k].i
  BY <1>1, EntType
<1>5. PICK s \in Nat, n \in Nat, f \in Nat, t \in Nat :
          /\ s = Spos(k, j) /\ n = Slice(k).len /\ f = strm[k].flushed /\ t = thr[k].to
          /\ FromPos(k) = IF s <= f THEN f ELSE s
          /\ ToPos(k) = IF s + n <= t THEN s + n ELSE t
  <2>1. PICK s, n, f, t : s = Spos(k, thr[k].i) /\ n = Slice(k).len
                          /\ f = strm[k].flushed /\ t = thr[k].to
    OBVIOUS
  <2> QED BY <1>1, <1>3, <1>4, <2>1, PartIs
<1>6. /\ Slice(k) = Slices(k)[j] /\ Slices(k)[j].len = n /\ Send(k, j) = s + n
      /\ s + n <= Total(k) /\ f <= t
  <2>1. Slice(k) = Slices(k)[j] /\ Slices(k)[j].len = n
    BY <1>4, <1>5 DEF Slice
  <2>2. Send(k, j) = Spos(k, j) + Slices(k)[j].len /\ Send(k, j) <= Total(k)
    BY <1>1, SposOrder
  <2> QED BY <1>3, <1>5, <2>1, <2>2
\* The last call of a stream that decoded reaches its end, that of one that failed no
\* further than what it produced.
<1>7. thr[k].call = "end" => /\ strm[k].ends = "ok" => s + n <= t
                             /\ t <= strm[k].produced
  <2>1. /\ strm[k].produced \in Nat
        /\ SafeFlushPoint(k, strm[k].produced) <= strm[k].produced
    <3>1. strm[k].produced \in Nat
      BY <1>1 DEF SinkTypeOK, StreamState
    <3> QED BY <1>1, <3>1, SafeFlushFacts
  <2>2. ASSUME thr[k].call = "end" PROVE t = EndFlush(k)
    BY <1>1, <1>5, <2>2 DEF Flushed
  <2>3. thr[k].call = "end" /\ strm[k].ends = "ok" => t = Total(k)
    BY <1>1, <2>2 DEF EndFlush, Ended
  <2>4. thr[k].call = "end" => t <= strm[k].produced
    BY <2>1, <2>2 DEF EndFlush, MayFlush
  <2> QED BY <1>6, <2>3, <2>4
<1>8. PICK place \in {"create", "slice", "check"}, i \in Nat :
          /\ thr' = [thr EXCEPT ![k].pc = place, ![k].i = i]
          /\ i = IF place = "slice" THEN j + 1 ELSE j
          /\ place = "slice" => n = 0 /\ ~Passed(k)
          /\ place = "create" => (n = 0 /\ Passed(k)) \/ (n # 0 /\ FromPos(k) < ToPos(k))
          /\ place = "check" => n # 0 /\ ~(FromPos(k) < ToPos(k))
  <2>1. CASE n = 0 /\ Passed(k)
    <3>1. thr' = [thr EXCEPT ![k].pc = "create"]
      BY <1>5, <2>1, Zenon DEF NextSlice
    <3>2. thr' = [thr EXCEPT ![k].pc = "create", ![k].i = j]
      BY <1>2, <1>4, <3>1 DEF WorkerState
    <3> WITNESS "create" \in {"create", "slice", "check"}, j \in Nat
    <3> QED BY <2>1, <3>2
  <2>2. CASE n = 0 /\ ~Passed(k)
    <3>1. thr' = [thr EXCEPT ![k].i = @ + 1]
      BY <1>5, <2>2, Zenon DEF NextSlice
    <3>2. PICK i \in Nat : i = j + 1
      OBVIOUS
    <3>3. thr' = [thr EXCEPT ![k].pc = "slice", ![k].i = i]
      BY <1>1, <1>2, <1>4, <3>1, <3>2 DEF WorkerState
    <3> WITNESS "slice" \in {"create", "slice", "check"}, i \in Nat
    <3> QED BY <2>2, <3>2, <3>3
  <2>3. CASE n # 0 /\ FromPos(k) < ToPos(k)
    <3>1. thr' = [thr EXCEPT ![k].pc = "create"]
      BY <1>5, <2>3, Zenon DEF NextSlice
    <3>2. thr' = [thr EXCEPT ![k].pc = "create", ![k].i = j]
      BY <1>2, <1>4, <3>1 DEF WorkerState
    <3> WITNESS "create" \in {"create", "slice", "check"}, j \in Nat
    <3> QED BY <2>3, <3>2
  <2>4. CASE n # 0 /\ ~(FromPos(k) < ToPos(k))
    <3>1. thr' = [thr EXCEPT ![k].pc = "check"]
      BY <1>5, <2>4, Zenon DEF NextSlice
    <3>2. thr' = [thr EXCEPT ![k].pc = "check", ![k].i = j]
      BY <1>2, <1>4, <3>1 DEF WorkerState
    <3> WITNESS "check" \in {"create", "slice", "check"}, j \in Nat
    <3> QED BY <2>4, <3>2
  <2> QED BY <2>1, <2>2, <2>3, <2>4
<1>9. /\ thr'[k].pc = place /\ thr'[k].i = i /\ thr'[k].call = thr[k].call /\ thr'[k].to = t
      /\ strm' = strm /\ \A m \in Streams \ {k} : thr'[m] = thr[m] /\ strm'[m] = strm[m]
  BY <1>1, <1>2, <1>5, <1>8 DEF WorkerState
<1>10. Passed(k) <=> IF thr[k].call = "write" THEN s < t
                     ELSE s <= t /\ (strm[k].ends = "ok" \/ s < strm[k].produced \/ s = 0)
  BY <1>4, <1>5 DEF Passed
<1>11. Ended(k)' /\ Alive(k)' = Alive(k)
  BY <1>1, <1>2, <1>3, <1>8, <1>9 DEF Ended, Alive
<1>12. Due(k)'
  <2>1. CASE place = "create"
    <3>1. thr[k].call = "write" => s < t
      BY <1>5, <1>8, <1>10, <2>1
    <3>2. i = j /\ Spos(k, j)' = Spos(k, j)
      BY <1>1, <1>8, <2>1, LayoutKept
    <3>3. Spos(k, thr[k].i)' = s
      BY <1>5, <1>9, <3>2
    <3> QED BY <1>9, <2>1, <3>1, <3>3 DEF Due
  <2>2. CASE place # "create"
    BY <1>8, <1>9, <2>2 DEF Due
  <2> QED BY <2>1, <2>2
<1>13. ASSUME NEW m \in 1 .. Len(Slices(k))
       PROVE  (Been(k, m)' => Been(k, m)) /\ Share(k, m)' = Share(k, m)
  <2>1. m \in Nat
    OBVIOUS
  <2>2. Reached(k, m) = IF m < j THEN t ELSE f
    BY <1>1, <1>3, <1>4, <1>5, <2>1, ReachedIs
  <2>3. Reached(k, m)' = IF m < i \/ (m = i /\ place = "check") THEN t ELSE f
    <3>1. /\ thr'[k] \in WorkerState /\ strm'[k] \in StreamState
          /\ thr'[k].call \in {"write", "end"} /\ thr'[k].pc = place /\ thr'[k].i = i
          /\ thr'[k].to = t /\ strm'[k].flushed = f /\ f <= t
      BY <1>2, <1>3, <1>5, <1>9
    <3>2. place \notin {"ready", "group", "done"}
      BY <1>8
    <3> QED BY ONLY <2>1, <3>1, <3>2, ReachedNext
  <2>4. Spos(k, m)' = Spos(k, m)
    BY <1>1, LayoutKept
  <2>5. CASE m # j \/ place = "create"
    <3>1. Reached(k, m)' = Reached(k, m)
      BY <1>8, <2>2, <2>3, <2>5
    <3>2. Share(k, m)' = Share(k, m)
      BY <1>1, <3>1, ShareNext DEF Share
    <3>3. m < i \/ (m = i /\ place = "check") => m < j
      BY <1>8, <2>5
    <3>4. Been(k, m)' => Been(k, m)
      BY <1>4, <1>8, <1>9, <2>4, <3>1, <3>3 DEF Been
    <3> QED BY <3>2, <3>4
  <2>6. CASE m = j /\ place # "create"
    <3>1. Reached(k, m) = f /\ Reached(k, m)' = t
      BY <1>8, <2>2, <2>3, <2>6
    <3>2. /\ Share(k, m)' = Before(k, m, EntryOf(k, m), t)
          /\ Share(k, m) = Before(k, m, EntryOf(k, m), f)
      BY <1>1, <3>1, ShareNext DEF Share
    <3>3. Before(k, m, EntryOf(k, m), f) = IF f <= s THEN 0 ELSE IF f <= s + n THEN f - s ELSE n
      <4>1. Before(k, m, EntryOf(k, m), f)
            = IF f <= Spos(k, m) THEN 0 ELSE IF f <= Send(k, m) THEN f - Spos(k, m)
              ELSE Slices(k)[m].len
        BY <1>1, ShareIs
      <4> QED BY <1>5, <1>6, <2>6, <4>1
    <3>4. Before(k, m, EntryOf(k, m), t) = IF t <= s THEN 0 ELSE IF t <= s + n THEN t - s ELSE n
      <4>1. Before(k, m, EntryOf(k, m), t)
            = IF t <= Spos(k, m) THEN 0 ELSE IF t <= Send(k, m) THEN t - Spos(k, m)
              ELSE Slices(k)[m].len
        BY <1>1, ShareIs
      <4> QED BY <1>5, <1>6, <2>6, <4>1
    <3>5. Been(k, m)' => s < t \/ (thr[k].call = "end" /\ strm[k].ends = "ok")
      BY <1>5, <1>9, <2>4, <2>6, <3>1 DEF Been
    <3>6. CASE n = 0
      <4>1. ~Passed(k)
        BY <1>8, <2>6, <3>6
      <4>2. ~ (s < t \/ (thr[k].call = "end" /\ strm[k].ends = "ok"))
        <5>1. strm[k].produced \in Nat
          BY <1>1 DEF SinkTypeOK, StreamState
        <5>2. CASE thr[k].call = "write"
          BY <1>10, <4>1, <5>2
        <5>3. CASE thr[k].call = "end"
          BY <1>5, <1>6, <1>7, <1>10, <3>6, <4>1, <5>1, <5>3
        <5> QED BY <1>3, <5>2, <5>3
      <4> QED BY <1>6, <3>2, <3>3, <3>4, <3>5, <3>6, <4>2
    <3>7. CASE n # 0
      <4>1. ~ ((IF s <= f THEN f ELSE s) < (IF s + n <= t THEN s + n ELSE t))
        BY <1>5, <1>8, <2>6, <3>7
      <4>2. (IF f <= s THEN 0 ELSE IF f <= s + n THEN f - s ELSE n)
            = (IF t <= s THEN 0 ELSE IF t <= s + n THEN t - s ELSE n)
        BY ONLY <1>6, <3>7, <4>1, s \in Nat, n \in Nat, f \in Nat, t \in Nat
      <4>3. s < t => s < f
        BY ONLY <1>6, <3>7, <4>1, s \in Nat, n \in Nat, f \in Nat, t \in Nat
      <4>4. thr[k].call = "end" /\ strm[k].ends = "ok" => s < t
        BY <1>7, <3>7
      <4>5. s < f => Been(k, m)
        BY <1>5, <2>6, <3>1 DEF Been
      <4> QED BY <3>2, <3>3, <3>4, <3>5, <4>2, <4>3, <4>4, <4>5
    <3> QED BY <3>6, <3>7
  <2> QED BY <2>5, <2>6
<1>14. \A d \in Entries : /\ outFile'[d].created = outFile[d].created
                          /\ Opened(d)' = Opened(d) /\ Healthy(d)' = Healthy(d)
  BY <1>1 DEF Opened, Healthy
<1> QED BY <1>1, <1>9, <1>11, <1>12, <1>13, <1>14, QuietHeld

\* How far a worker that goes on with its slice has got.
LEMMA ReachedMoved ==
    ASSUME SinkInv, UNCHANGED <<job, strm>>, NEW k \in Streams,
           thr[k].pc \in {"create", "asklock", "answer", "write"},
           NEW place \in {"ready", "group", "write", "check", "asklock", "answer"}, Goto(k, place),
           place = "ready" => thr[k].call = "begin", place = "group" => thr[k].call = "group",
           NEW i \in 1 .. Len(Slices(k))
    PROVE  /\ ~ (place = "check" /\ i = thr[k].i) => Reached(k, i)' = Reached(k, i)
           /\ place = "check" /\ i = thr[k].i /\ thr[k].call \in {"write", "end"}
              => Reached(k, i) = strm[k].flushed /\ Reached(k, i)' = thr[k].to
                 /\ strm[k].flushed <= thr[k].to
<1>0. SinkTypeOK /\ Flushed(k)
  BY DEF SinkInv
<1>1. /\ thr'[k].pc = place /\ thr'[k].call = thr[k].call /\ thr'[k].i = thr[k].i
      /\ thr'[k].to = thr[k].to /\ thr' \in [Streams -> WorkerState]
  BY <1>0, GotoIs
<1>2. thr'[k] \in WorkerState /\ strm'[k] \in StreamState /\ strm'[k] = strm[k]
  BY <1>0, <1>1 DEF SinkTypeOK
<1>3. i \in Nat
  OBVIOUS
<1>4. Reached(k, i) = IF /\ thr[k].call \in {"write", "end"} /\ i < thr[k].i
                         /\ strm[k].flushed <= thr[k].to
                      THEN thr[k].to ELSE strm[k].flushed
  BY <1>0, <1>3, ReachedIs
<1>5. Reached(k, i)' = IF /\ thr[k].call \in {"write", "end"} /\ place \notin {"ready", "group", "done"}
                          /\ i < thr[k].i \/ (i = thr[k].i /\ place = "check")
                          /\ strm[k].flushed <= thr[k].to
                       THEN thr[k].to ELSE strm[k].flushed
  BY <1>1, <1>2, <1>3, ReachedNext
<1>6. thr[k].call \in {"write", "end"} => place \notin {"ready", "group", "done"}
  OBVIOUS
<1>7. thr[k].call \in {"write", "end"} => strm[k].flushed <= thr[k].to
  BY <1>0 DEF Flushed
<1>8. i = thr[k].i => ~ (i < thr[k].i)
  BY <1>3
<1> QED BY <1>4, <1>5, <1>6, <1>7, <1>8

\* What the order of a job's slices says of two of them that go to one path.
LEMMA OrderlyIs ==
    ASSUME Orderly, job \in Cases, NEW k \in Streams, NEW m \in Streams,
           NEW i \in 1 .. Len(Slices(k)), NEW j \in 1 .. Len(Slices(m)),
           job.path[EntryOf(k, i)] = job.path[EntryOf(m, j)]
    PROVE  IF EntryOf(k, i) = EntryOf(m, j)
           THEN \/ k = m /\ i = j
                \/ Slices(k)[i].off + Slices(k)[i].len <= Slices(m)[j].off
                \/ Slices(m)[j].off + Slices(m)[j].len <= Slices(k)[i].off
           ELSE k = m /\ (EntryOf(k, i) < EntryOf(m, j) => i < j)
<1>1. DOMAIN job.streams = Streams
  BY PSinkAssumption DEF Streams, Extraction
<1>2. i \in DOMAIN job.streams[k] /\ j \in DOMAIN job.streams[m]
  BY SliceFacts DEF Slices
<1>3. LET a == job.streams[k][i]
          b == job.streams[m][j]
      IN job.path[a.entry] = job.path[b.entry] =>
            IF a.entry = b.entry
            THEN (k = m /\ i = j) \/ a.off + a.len <= b.off \/ b.off + b.len <= a.off
            ELSE k = m /\ (a.entry < b.entry => i < j)
  BY <1>1, <1>2 DEF Orderly
<1> QED BY <1>3 DEF EntryOf, Slices

\* A stream holds what it has written of a slice it has written nothing of.
LEMMA HeldNone ==
    ASSUME UNCHANGED job, SinkTypeOK, NEW k \in Streams, NEW i \in 1 .. Len(Slices(k)),
           Share(k, i)' = 0
    PROVE  Held(k, i)'
<1>1. Slices(k)' = Slices(k) /\ Slices(k)[i].off \in Nat
  BY ShareNext, SliceFacts DEF SinkTypeOK
<1>2. Slices(k)[i].off .. Slices(k)[i].off + Share(k, i)' - 1 = {}
  BY <1>1
<1> QED BY <1>1, <1>2 DEF Held

\* A slice the stream has not come to.
LEMMA NotBeen ==
    ASSUME SinkTypeOK, NEW k \in Streams, NEW i \in 1 .. Len(Slices(k)), ~Been(k, i)
    PROVE  Share(k, i) = 0
<1>1. PICK p \in Nat : p = Reached(k, i)
  <2>1. i \in Nat
    OBVIOUS
  <2> QED BY <2>1, ReachedIs
<1>2. Spos(k, i) \in Nat
  BY SposOrder DEF SinkTypeOK
<1>3. p <= Spos(k, i)
  BY <1>1, <1>2 DEF Been
<1>4. Before(k, i, EntryOf(k, i), p) = 0
  BY <1>3, ShareIs
<1> QED BY <1>1, <1>4 DEF Share

\* A worker that goes on to ask about its file.
LEMMA AsksHeld ==
    ASSUME HeldInv, SinkInv, NEW k \in Streams, thr[k].pc \in {"create", "asklock"},
           NEW place \in {"asklock", "answer"}, Goto(k, place),
           UNCHANGED <<job, strm, outDisk, allClosed>>,
           \A d \in Entries : /\ outFile'[d].created = outFile[d].created
                              /\ Opened(d)' = Opened(d)
                              /\ Healthy(d)' => Healthy(d)
    PROVE  HeldInv'
<1>1. SinkTypeOK /\ Ended(k) /\ Due(k)
  BY DEF SinkInv, HeldInv
<1>2. /\ thr'[k].pc = place /\ thr'[k].call = thr[k].call /\ thr'[k].i = thr[k].i
      /\ thr'[k].to = thr[k].to /\ \A m \in Streams \ {k} : thr'[m] = thr[m] /\ strm'[m] = strm[m]
  BY <1>1, GotoIs
<1>3. Ended(k)' /\ Alive(k)' = Alive(k)
  <2>1. Total(k)' = Total(k)
    BY LayoutKept
  <2> QED BY <1>1, <1>2, <2>1 DEF Ended, Alive
<1>4. Due(k)'
  <2>1. Spos(k, thr[k].i)' = Spos(k, thr[k].i)
    <3>1. \A i : Spos(k, i)' = Spos(k, i)
      BY LayoutKept
    <3> QED BY <1>2, <3>1
  <2> QED BY <1>1, <1>2, <2>1 DEF Due
<1>5. ASSUME NEW i \in 1 .. Len(Slices(k))
      PROVE  (Been(k, i)' => Been(k, i)) /\ Share(k, i)' = Share(k, i)
  <2>1. Reached(k, i)' = Reached(k, i)
    BY ReachedMoved
  <2>2. Spos(k, i)' = Spos(k, i) /\ Share(k, i)' = Share(k, i)
    BY <2>1, ShareNext DEF Share
  <2> QED BY <1>2, <2>1, <2>2 DEF Been
<1> QED BY <1>2, <1>3, <1>4, <1>5, QuietHeld

\* DecideByAsking: the file is not created yet.
LEMMA DecideByAskingHeld ==
    ASSUME HeldInv, SinkInv, NEW k \in Streams, DecideByAsking(k)
    PROVE  HeldInv'
<1>1. SinkTypeOK /\ thr[k].pc = "create"
  BY DEF SinkInv, DecideByAsking
<1>2. PICK e \in Entries : e = Ent(k)
  BY <1>1, EntType DEF SinkInv, AtSlice
<1>3. /\ ~outFile[e].decided
      /\ outFile' = [outFile EXCEPT ![e].decided = TRUE, ![e].deciding = TRUE, ![e].writeIt = TRUE]
      /\ Goto(k, "asklock") /\ UNCHANGED <<job, strm, outDisk, allClosed>>
  BY <1>2, Zenon DEF DecideByAsking
<1>4. ~outFile[e].created
  BY <1>3 DEF SinkInv, Decided
<1>5. ASSUME NEW d \in Entries
      PROVE  /\ outFile'[d].created = outFile[d].created /\ Opened(d)' = Opened(d)
             /\ Healthy(d)' => Healthy(d)
  <2>1. outFile \in [Entries -> FileState]
    BY <1>1 DEF SinkTypeOK
  <2>2. CASE d = e
    <3>1. outFile'[d].created = outFile[d].created
      BY <1>3, <2>1, <2>2 DEF FileState
    <3> QED BY <1>4, <2>2, <3>1 DEF Opened, Healthy
  <2>3. CASE d # e
    BY <1>3, <2>1, <2>3 DEF Opened, Healthy
  <2> QED BY <2>2, <2>3
<1> QED BY <1>1, <1>3, <1>5, AsksHeld

\* The file is created, or was: no other worker's bytes are lost by it.
LEMMA OpenHeld ==
    ASSUME Orderly, HeldInv, SinkInv, NEW k \in Streams, NEW decision \in BOOLEAN,
           OpenFile(k, decision), UNCHANGED <<job, strm, allClosed>>,
           thr[k].pc \in {"create", "asklock", "answer"},
           thr[k].pc = "create" => \/ ~outFile[Ent(k)].decided
                                   \/ /\ outFile[Ent(k)].decided /\ ~outFile[Ent(k)].deciding
                                      /\ decision = outFile[Ent(k)].writeIt
    PROVE  HeldInv'
<1>1. /\ SinkTypeOK /\ AtSlice(k) /\ Flushed(k) /\ Ended(k) /\ Due(k) /\ OneAsks
      /\ job \in Cases /\ thr[k].i <= Len(Slices(k)) /\ thr[k].pc # "done"
  BY DEF SinkInv, HeldInv, SinkTypeOK, AtSlice
<1>2. PICK e \in Entries, j \in 1 .. Len(Slices(k)) :
          /\ e = Ent(k) /\ Slice(k).len \in Nat /\ j = thr[k].i /\ EntryOf(k, j) = e
          /\ Slices(k)[j].len = Slice(k).len
  BY <1>1, EntType DEF Ent, Slice, EntryOf
<1>3. PICK opens \in BOOLEAN : opens = (decision /\ ~outFile[e].created /\ e \notin job.locked)
  OBVIOUS
<1>4. /\ \A d \in Entries \ {e} : outFile'[d] = outFile[d]
      /\ outFile'[e].created /\ outFile'[e].writeIt = decision
      /\ outFile'[e].failed = outFile[e].failed
      /\ outFile'[e].cannot
         = (outFile[e].cannot \/ (decision /\ ~outFile[e].created /\ e \in job.locked))
      /\ \E place \in {"ready", "group", "write", "check"} :
            /\ Goto(k, place)
            /\ place = "ready" <=> thr[k].call = "begin"
            /\ place = "group" <=> thr[k].call = "group"
            /\ place = "write" <=> /\ thr[k].call \in {"write", "end"} /\ Slice(k).len # 0
                                   /\ decision /\ ~outFile'[e].cannot
  BY <1>1, <1>2, OpenFileIs
<1>5. PICK place \in {"ready", "group", "write", "check"} :
            /\ Goto(k, place)
            /\ place = "ready" <=> thr[k].call = "begin"
            /\ place = "group" <=> thr[k].call = "group"
            /\ place = "write" <=> /\ thr[k].call \in {"write", "end"} /\ Slice(k).len # 0
                                   /\ decision /\ ~outFile'[e].cannot
  BY <1>4, Zenon
<1>6. /\ thr'[k].pc = place /\ thr'[k].call = thr[k].call /\ thr'[k].i = thr[k].i
      /\ thr'[k].to = thr[k].to /\ \A m \in Streams \ {k} : thr'[m] = thr[m] /\ strm'[m] = strm[m]
  BY <1>1, <1>5, GotoIs
<1>7. Streams' = Streams /\ \A m \in Streams : Slices(m)' = Slices(m)
      /\ \A l, i : Spos(l, i)' = Spos(l, i)
  BY LayoutKept
<1>8. \A m \in Streams : \A i \in 1 .. Len(Slices(m)) :
          EntryOf(m, i) \in Entries /\ EntryOf(m, i)' = EntryOf(m, i)
  BY <1>1, <1>7, SliceFacts DEF EntryOf
<1>9. \A p \in Paths : ~opens \/ p # job.path[e] => outDisk'[p] = outDisk[p]
  <2>1. outDisk' = IF opens
                   THEN [outDisk EXCEPT ![job.path[e]] =
                             [state |-> "new", bytes |-> [o \in Offsets |-> NoByte]]]
                   ELSE outDisk
    BY <1>2, <1>3, Zenon DEF OpenFile
  <2>2. outDisk \in [Paths -> [state : {"absent", "old", "new"}, bytes : [Offsets -> Byte]]]
    BY <1>1 DEF SinkTypeOK
  <2> QED BY <2>1, <2>2
<1>10. \A d \in Entries : job.path[d] \in Paths
  BY <1>1, PSinkAssumption DEF Extraction
\* A file that was created keeps its decision.
<1>11. outFile[e].created => decision = outFile[e].writeIt
  <2>1. outFile[e].created => outFile[e].decided /\ ~outFile[e].deciding
    BY DEF SinkInv, Decided
  <2>2. thr[k].pc # "create" => outFile[e].deciding
    BY <1>1, <1>2 DEF OneAsks
  <2> QED BY <1>2, <2>1, <2>2
<1>12. \A d \in Entries : /\ outFile[d].created => outFile'[d].created
                          /\ Opened(d) => Opened(d)'
  BY <1>4, <1>11 DEF Opened
<1>13. ASSUME NEW m \in Streams \ {k}, thr[m].pc = "write" PROVE Opened(Ent(m))'
  <2>1. Opened(Ent(m)) /\ thr'[m] = thr[m]
    BY <1>6, <1>13 DEF HeldInv, Due
  <2>2. PICK d \in Entries : d = Ent(m)
    BY <1>1, <1>13, EntType DEF SinkInv, AtSlice
  <2>3. Ent(m)' = d
    BY <1>7, <2>1, <2>2 DEF Ent, Slice
  <2>4. Opened(d)'
    BY <1>12, <2>1, <2>2
  <2> QED BY <2>3, <2>4 DEF Opened
<1>14. Ended(k)'
  <2>1. Total(k)' = Total(k)
    BY LayoutKept
  <2> QED BY <1>1, <1>5, <1>6, <2>1 DEF Ended
<1>15. Due(k)'
  <2>1. Ent(k)' = e
    BY <1>2, <1>6, <1>7 DEF Ent, Slice
  <2>2. place = "write" => Opened(e)'
    BY <1>4, <1>5 DEF Opened
  <2>3. place = "write" => Opened(Ent(k))'
    BY <2>1, <2>2 DEF Opened
  <2> QED BY <1>6, <2>3 DEF Due
\* How far the workers have got.
<1>16. ASSUME NEW m \in Streams, NEW i \in 1 .. Len(Slices(m)),
              ~ (m = k /\ i = j /\ place = "check")
       PROVE  Reached(m, i)' = Reached(m, i) /\ Share(m, i)' = Share(m, i)
  <2>1. Reached(m, i)' = Reached(m, i)
    <3>1. CASE m = k
      BY <1>2, <1>5, <1>16, <3>1, ReachedMoved
    <3>2. CASE m # k
      BY <1>6, <3>2 DEF Reached
    <3> QED BY <3>1, <3>2
  <2> QED BY <2>1, ShareNext DEF Share
<1>17. ASSUME NEW i \in 1 .. Len(Slices(k)), Been(k, i)'
       PROVE  Been(k, i) \/ outFile'[EntryOf(k, i)].created
  <2>1. CASE i = j
    BY <1>2, <1>4, <2>1
  <2>2. CASE i # j
    BY <1>2, <1>6, <1>7, <1>16, <1>17, <2>2 DEF Been
  <2> QED BY <2>1, <2>2
\* The file is the next of its path.
<1>18. ASSUME NEW m \in Streams PROVE InOrder(m)'
  <2>1. SUFFICES ASSUME Alive(m), NEW i \in 1 .. Len(Slices(m)), NEW l \in 1 .. Len(Slices(m)),
                        job.path[EntryOf(m, l)] = job.path[EntryOf(m, i)],
                        EntryOf(m, l) < EntryOf(m, i), outFile'[EntryOf(m, i)].created
                 PROVE  outFile'[EntryOf(m, l)].created
    BY <1>7, <1>8 DEF InOrder, Alive
  <2>2. CASE outFile[EntryOf(m, i)].created
    <3>1. outFile[EntryOf(m, l)].created
      BY <2>1, <2>2 DEF HeldInv, InOrder
    <3> QED BY <1>8, <1>12, <3>1
  <2>3. CASE ~outFile[EntryOf(m, i)].created
    <3>1. EntryOf(m, i) = e
      BY <1>4, <1>8, <2>1, <2>3
    <3>2. EntryOf(m, l) # e /\ e \in Nat /\ EntryOf(m, l) \in Nat
      <4>1. /\ \A d \in Entries : d \in Nat
            /\ EntryOf(m, l) \in Entries /\ EntryOf(m, l) < e
        BY <1>8, <2>1, <3>1, PSinkAssumption
      <4> QED BY <4>1
    <3>3. m = k /\ l < j
      BY <1>1, <1>2, <2>1, <3>1, <3>2, OrderlyIs
    <3>4. Been(k, l)
      <4>1. thr[k].call \in {"begin", "write", "end", "group"}
        BY <1>1 DEF SinkTypeOK, WorkerState
      <4>2. CASE thr[k].call = "begin"
        BY <1>1, <1>2, <3>3, <4>2 DEF Ended
      <4>3. CASE thr[k].call = "write"
        <5>1. Spos(k, j) < thr[k].to /\ strm[k].flushed <= thr[k].to
          BY <1>1, <1>2, <4>3 DEF Due, Flushed
        <5>2. l \in Nat /\ thr[k].to \in Nat
          BY <1>1, <3>3 DEF SinkTypeOK, WorkerState
        <5>3. Reached(k, l) = thr[k].to
          BY <1>1, <1>2, <3>3, <4>3, <5>1, <5>2, ReachedIs
        <5>4. /\ Spos(k, l) \in Nat /\ Spos(k, j) \in Nat /\ Send(k, l) \in Nat
              /\ Send(k, l) <= Spos(k, j) /\ Send(k, l) = Spos(k, l) + Slices(k)[l].len
              /\ Slices(k)[l].len \in Nat
          BY <1>1, <3>3, SposOrder, SliceFacts
        <5>5. Spos(k, l) < Reached(k, l)
          BY <5>1, <5>2, <5>3, <5>4
        <5> QED BY <5>5 DEF Been
      <4>4. CASE thr[k].call = "end"
        BY <1>1, <1>2, <2>1, <3>3, <4>4 DEF Been, Ended, Alive
      <4>5. CASE thr[k].call = "group"
        BY <1>1, <2>1, <3>3, <4>5 DEF Ended, Alive
      <4> QED BY <4>1, <4>2, <4>3, <4>4, <4>5
    <3>5. outFile[EntryOf(m, l)].created
      BY <2>1, <3>3, <3>4 DEF HeldInv, Visited
    <3> QED BY <1>8, <1>12, <3>5
  <2> QED BY <2>2, <2>3
\* What is written stays: nothing is of a file that is created, and what a file that is
\* truncated by it held belongs to one that does not stay.
<1>19. ASSUME NEW m \in Streams, NEW i \in 1 .. Len(Slices(m)) PROVE Held(m, i)'
  <2>1. PICK d \in Entries : d = EntryOf(m, i) /\ EntryOf(m, i)' = d
    BY <1>8
  <2>2. SUFFICES ASSUME Stays(d)', Alive(m)
                 PROVE  Held(m, i)'
    <3>1. Stays(EntryOf(m, i))' <=> Stays(d)'
      BY <2>1 DEF Stays, Healthy, Opened
    <3>2. Alive(m)' <=> Alive(m)
      BY DEF Alive
    <3> QED BY <3>1, <3>2 DEF Held
  <2>3. Held(m, i) /\ Visited(m) /\ InOrder(m)
    BY DEF HeldInv
  <2>4. Alive(m)' => Alive(m)
    BY DEF Alive
  <2>5. CASE d = e
    <3>1. decision /\ ~outFile'[e].cannot /\ ~outFile[e].failed
      BY <1>4, <2>2, <2>5 DEF Stays, Healthy
    <3>2. place = "check" => Slice(k).len = 0
      <4>1. thr[k].call \in {"begin", "write", "end", "group"}
        BY <1>1 DEF SinkTypeOK, WorkerState
      <4> QED BY <1>5, <3>1, <4>1
    <3>3. Share(m, i)' = Share(m, i)
      <4>1. CASE m = k /\ i = j /\ place = "check"
        <5>1. i \in Nat
          OBVIOUS
        <5>2. PICK p \in Nat, q \in Nat : p = Reached(m, i) /\ q = Reached(m, i)'
          <6>1. thr'[k] \in WorkerState /\ strm'[k] \in StreamState
            BY <1>1, <1>5, GotoIs DEF SinkTypeOK
          <6> QED BY <1>1, <4>1, <5>1, <6>1, ReachedIs, ReachedNext
        <5>3. Slices(m)[i].len = 0
          BY <1>2, <3>2, <4>1
        <5>4. Before(m, i, EntryOf(m, i), p) = 0
          <6>1. /\ Before(m, i, EntryOf(m, i), p) \in Nat
                /\ Before(m, i, EntryOf(m, i), p) <= Slices(m)[i].len
            BY <1>1, ShareIs
          <6> QED BY <5>3, <6>1
        <5>5. Before(m, i, EntryOf(m, i), q) = 0
          <6>1. /\ Before(m, i, EntryOf(m, i), q) \in Nat
                /\ Before(m, i, EntryOf(m, i), q) <= Slices(m)[i].len
            BY <1>1, ShareIs
          <6> QED BY <5>3, <6>1
        <5>6. Share(m, i)' = Before(m, i, EntryOf(m, i), q)
          BY <5>2, ShareNext
        <5> QED BY <5>2, <5>4, <5>5, <5>6 DEF Share
      <4> QED BY <1>16, <4>1
    <3>4. CASE ~outFile[e].created
      <4>1. ~Been(m, i)
        BY <2>1, <2>3, <2>5, <3>4 DEF Visited
      <4>2. Share(m, i)' = 0
        BY <1>1, <3>3, <4>1, NotBeen
      <4> QED BY <1>1, <4>2, HeldNone
    <3>5. CASE outFile[e].created
      <4>1. Healthy(e)' => Healthy(e)
        BY <1>4, <1>11, <3>5 DEF Healthy
      <4>2. Stays(e)' => Stays(e)
        BY <1>12, <4>1, StaysKept
      <4>3. Stays(EntryOf(m, i))' => Stays(EntryOf(m, i))
        BY <2>1, <2>2, <2>5, <4>2
      <4>4. outDisk'[job.path[EntryOf(m, i)]] = outDisk[job.path[EntryOf(m, i)]]
        BY <1>3, <1>9, <1>10, <2>1, <3>5
      <4> QED BY <1>1, <2>3, <2>4, <3>3, <4>3, <4>4, HeldKept
    <3> QED BY <3>4, <3>5
  <2>6. CASE d # e
    <3>1. Healthy(d)' => Healthy(d)
      BY <1>4, <2>6 DEF Healthy
    <3>2. Stays(d)' => Stays(d)
      BY <1>12, <3>1, StaysKept
    <3>3. Stays(EntryOf(m, i))' => Stays(EntryOf(m, i))
      BY <2>1, <2>2, <3>2
    <3>4. Share(m, i)' = Share(m, i)
      BY <1>2, <1>16, <2>1, <2>6
    <3>5. CASE ~opens \/ job.path[d] # job.path[e]
      <4>1. outDisk'[job.path[EntryOf(m, i)]] = outDisk[job.path[EntryOf(m, i)]]
        BY <1>9, <1>10, <2>1, <3>5
      <4> QED BY <1>1, <2>3, <2>4, <3>3, <3>4, <4>1, HeldKept
    <3>6. CASE opens /\ job.path[d] = job.path[e]
      <4>1. Opened(e)'
        <5>1. ~outFile[e].cannot
          BY <1>3, <3>6 DEF SinkInv, Counted, Decided
        <5> QED BY <1>3, <1>4, <3>6, <5>1 DEF Opened
      <4>2. e <= d /\ e \in Nat /\ d \in Nat
        BY <2>2, <3>6, <4>1, PSinkAssumption DEF Stays
      <4>3. m = k
        BY <1>1, <1>2, <2>1, <2>6, <3>6, OrderlyIs
      <4>4. ~outFile[d].created
        <5>1. outFile[d].created => outFile[e].created
          BY <1>2, <2>1, <2>2, <2>3, <2>6, <3>6, <4>2, <4>3 DEF InOrder
        <5> QED BY <1>3, <3>6, <5>1
      <4>5. ~Been(m, i)
        BY <2>1, <2>3, <4>4 DEF Visited
      <4>6. Share(m, i)' = 0
        BY <1>1, <3>4, <4>5, NotBeen
      <4> QED BY <1>1, <4>6, HeldNone
    <3> QED BY <3>5, <3>6
  <2> QED BY <2>5, <2>6
<1> QED BY <1>1, <1>6, <1>12, <1>13, <1>14, <1>15, <1>17, <1>18, <1>19, StepHeld

\* The ways to a file that is created, and the question's answers.
LEMMA CreateHeld ==
    ASSUME Orderly, HeldInv, SinkInv, NEW k \in Streams, CreateDecided(k) \/ Decide(k)
    PROVE  HeldInv'
<1>1. CASE CreateDecided(k)
  <2>1. /\ thr[k].pc = "create" /\ outFile[Ent(k)].decided /\ ~outFile[Ent(k)].deciding
        /\ OpenFile(k, outFile[Ent(k)].writeIt) /\ UNCHANGED <<job, strm, allClosed>>
    BY <1>1, Zenon DEF CreateDecided
  <2>2. Ent(k) \in Entries
    BY <2>1, EntType DEF SinkInv, AtSlice
  <2>3. PICK decision \in BOOLEAN : decision = outFile[Ent(k)].writeIt
    BY <2>2 DEF SinkInv, SinkTypeOK, FileState
  <2>4. OpenFile(k, decision)
    BY <2>1, <2>3, Zenon
  <2> QED BY <2>1, <2>3, <2>4, OpenHeld
<1>2. CASE Decide(k)
  <2>1. /\ thr[k].pc = "create" /\ ~outFile[Ent(k)].decided
        /\ OpenFile(k, Ent(k) \notin job.skip) /\ UNCHANGED <<job, strm, allClosed>>
    BY <1>2, Zenon DEF Decide
  <2>2. PICK decision \in BOOLEAN : decision = (Ent(k) \notin job.skip)
    OBVIOUS
  <2>3. OpenFile(k, decision)
    BY <2>1, <2>2, Zenon
  <2> QED BY <2>1, <2>3, OpenHeld
<1> QED BY <1>1, <1>2

\* LockAskMu, SaysYes, SaysNo.
LEMMA AnswerHeld ==
    ASSUME Orderly, HeldInv, SinkInv, NEW k \in Streams, LockAskMu(k) \/ SaysYes(k) \/ SaysNo(k)
    PROVE  HeldInv'
<1>1. CASE LockAskMu(k) /\ always
  <2>1. /\ thr[k].pc = "asklock" /\ OpenFile(k, TRUE) /\ UNCHANGED <<job, strm, allClosed>>
    BY <1>1, Zenon DEF LockAskMu
  <2> QED BY <2>1, OpenHeld
<1>2. CASE LockAskMu(k) /\ ~always
  <2>1. /\ thr[k].pc = "asklock" /\ Goto(k, "answer")
        /\ UNCHANGED <<job, strm, outFile, outDisk, allClosed>>
    BY <1>2, Zenon DEF LockAskMu
  <2>2. \A d \in Entries : /\ outFile'[d].created = outFile[d].created
                           /\ Opened(d)' = Opened(d) /\ Healthy(d)' = Healthy(d)
    BY <2>1 DEF Opened, Healthy
  <2> QED BY <2>1, <2>2, AsksHeld
<1>3. CASE SaysYes(k)
  <2>1. thr[k].pc = "answer" /\ OpenFile(k, TRUE) /\ UNCHANGED <<job, strm, allClosed>>
    BY <1>3, Zenon DEF SaysYes
  <2> QED BY <2>1, OpenHeld
<1>4. CASE SaysNo(k)
  <2>1. thr[k].pc = "answer" /\ OpenFile(k, FALSE) /\ UNCHANGED <<job, strm, allClosed>>
    BY <1>4, Zenon DEF SaysNo
  <2>2. PICK no \in BOOLEAN : OpenFile(k, no)
    BY <2>1, Zenon
  <2> QED BY <2>1, <2>2, OpenHeld
<1> QED BY <1>1, <1>2, <1>3, <1>4

\* Where the worker stands that leaves its file, and how far the streams have got then.
LEMMA LeavesFile ==
    ASSUME HeldInv, SinkInv, NEW k \in Streams, thr[k].pc = "write", Goto(k, "check"),
           UNCHANGED <<job, strm>>
    PROVE  /\ Ended(k)' /\ Due(k)'
           /\ \A m \in Streams \ {k} : thr'[m] = thr[m] /\ strm'[m] = strm[m]
           /\ \A m \in Streams : \A i \in 1 .. Len(Slices(m)) :
                 m # k \/ i # thr[k].i => Share(m, i)' = Share(m, i)
           /\ \A i \in 1 .. Len(Slices(k)) : Been(k, i)' => Been(k, i) \/ i = thr[k].i
<1>1. SinkTypeOK /\ Ended(k) /\ Flushed(k)
  BY DEF SinkInv, HeldInv
<1>2. /\ thr'[k].pc = "check" /\ thr'[k].call = thr[k].call /\ thr'[k].i = thr[k].i
      /\ thr'[k].to = thr[k].to
      /\ \A m \in Streams \ {k} : thr'[m] = thr[m] /\ strm'[m] = strm[m]
  BY <1>1, GotoIs
<1>3. thr[k].call \in {"write", "end"}
  BY DEF SinkInv, HasBytes
<1>4. Ended(k)' /\ Due(k)'
  <2>1. Total(k)' = Total(k)
    BY LayoutKept
  <2> QED BY <1>1, <1>2, <1>3, <2>1 DEF Ended, Due
<1>5. ASSUME NEW m \in Streams, NEW i \in 1 .. Len(Slices(m)), m # k \/ i # thr[k].i
      PROVE  Reached(m, i)' = Reached(m, i) /\ Share(m, i)' = Share(m, i)
  <2>1. Reached(m, i)' = Reached(m, i)
    <3>1. CASE m = k
      BY <1>3, <1>5, <3>1, ReachedMoved
    <3>2. CASE m # k
      BY <1>2, <3>2 DEF Reached
    <3> QED BY <3>1, <3>2
  <2> QED BY <2>1, ShareNext DEF Share
<1>6. ASSUME NEW i \in 1 .. Len(Slices(k)), Been(k, i)', i # thr[k].i PROVE Been(k, i)
  <2>1. Spos(k, i)' = Spos(k, i)
    BY LayoutKept
  <2> QED BY <1>2, <1>5, <1>6, <2>1 DEF Been
<1> QED BY <1>2, <1>4, <1>5, <1>6

\* WriteFails: nothing is promised of the file any more.
LEMMA WriteFailsHeld ==
    ASSUME HeldInv, SinkInv, NEW k \in Streams, WriteFails(k)
    PROVE  HeldInv'
<1>1. /\ SinkTypeOK /\ HasBytes(k) /\ Due(k) /\ thr[k].pc = "write" /\ AtSlice(k)
      /\ thr[k].i <= Len(Slices(k))
  BY DEF SinkInv, WriteFails, HeldInv, AtSlice
<1>2. PICK e \in Entries, j \in 1 .. Len(Slices(k)) : e = Ent(k) /\ j = thr[k].i /\ EntryOf(k, j) = e
  BY <1>1, EntType DEF Ent, Slice, EntryOf
<1>3. /\ Goto(k, "check") /\ outFile' = [outFile EXCEPT ![e].failed = TRUE]
      /\ UNCHANGED <<job, outDisk, strm, allClosed>>
  BY <1>2, Zenon DEF WriteFails
<1>4. \A d \in Entries : /\ outFile'[d].created = outFile[d].created
                         /\ outFile'[d].writeIt = outFile[d].writeIt
                         /\ outFile'[d].cannot = outFile[d].cannot
                         /\ outFile'[d].failed = (IF d = e THEN TRUE ELSE outFile[d].failed)
  <2>1. outFile \in [Entries -> FileState]
    BY <1>1 DEF SinkTypeOK
  <2>2. ASSUME NEW d \in Entries
        PROVE  /\ outFile'[d].created = outFile[d].created
               /\ outFile'[d].writeIt = outFile[d].writeIt
               /\ outFile'[d].cannot = outFile[d].cannot
               /\ outFile'[d].failed = (IF d = e THEN TRUE ELSE outFile[d].failed)
    <3>1. CASE d = e
      BY <1>3, <2>1, <3>1 DEF FileState
    <3>2. CASE d # e
      BY <1>3, <2>1, <3>2
    <3> QED BY <3>1, <3>2
  <2> QED BY <2>2
<1>5. /\ \A d \in Entries : Opened(d)' = Opened(d) /\ (Healthy(d)' => Healthy(d))
      /\ ~Healthy(e)'
  BY <1>4 DEF Opened, Healthy
<1>6. Streams' = Streams /\ \A m \in Streams : Slices(m)' = Slices(m)
  BY <1>3, LayoutKept
<1>7. \A m \in Streams : \A i \in 1 .. Len(Slices(m)) :
          EntryOf(m, i) \in Entries /\ EntryOf(m, i)' = EntryOf(m, i)
  BY <1>1, <1>6, SliceFacts DEF EntryOf, SinkTypeOK
<1>8. ASSUME NEW m \in Streams \ {k}, thr[m].pc = "write" PROVE Opened(Ent(m))'
  <2>1. Opened(Ent(m)) /\ thr'[m] = thr[m]
    BY <1>1, <1>3, <1>8, GotoIs DEF HeldInv, Due
  <2>2. PICK d \in Entries : d = Ent(m)
    BY <1>1, <1>8, EntType DEF SinkInv, AtSlice
  <2>3. Ent(m)' = d
    BY <1>6, <2>1, <2>2 DEF Ent, Slice
  <2>4. Opened(d)'
    BY <1>5, <2>1, <2>2
  <2> QED BY <2>3, <2>4 DEF Opened
<1>9. outFile[e].created
  BY <1>1, <1>2 DEF HasBytes
<1>10. ASSUME NEW m \in Streams PROVE InOrder(m)'
  <2>1. InOrder(m)
    BY DEF HeldInv
  <2>2. Alive(m)' = Alive(m)
    BY <1>3 DEF Alive
  <2> QED BY <1>3, <1>4, <1>6, <1>7, <2>1, <2>2 DEF InOrder
<1>11. ASSUME NEW m \in Streams, NEW i \in 1 .. Len(Slices(m)) PROVE Held(m, i)'
  <2>1. PICK d \in Entries : d = EntryOf(m, i) /\ EntryOf(m, i)' = d
    BY <1>7
  <2>2. CASE d = e
    <3>1. ~Stays(d)'
      BY <1>5, <2>2 DEF Stays
    <3>2. ~Stays(EntryOf(m, i))'
      BY <2>1, <3>1 DEF Stays, Healthy, Opened
    <3> QED BY <3>2 DEF Held
  <2>3. CASE d # e
    <3>1. Share(m, i)' = Share(m, i)
      BY <1>1, <1>2, <1>3, <2>1, <2>3, LeavesFile
    <3>2. Stays(d)' => Stays(d)
      BY <1>3, <1>5, StaysKept
    <3>3. Stays(EntryOf(m, i))' => Stays(EntryOf(m, i))
      BY <2>1, <3>2 DEF Stays, Healthy, Opened
    <3>4. Held(m, i) /\ (Alive(m)' => Alive(m))
      BY <1>3 DEF HeldInv, Alive
    <3> QED BY <1>1, <1>3, <3>1, <3>3, <3>4, HeldKept
  <2> QED BY <2>2, <2>3
<1>12. ASSUME NEW i \in 1 .. Len(Slices(k)), Been(k, i)'
       PROVE  Been(k, i) \/ outFile'[EntryOf(k, i)].created
  <2>1. Been(k, i) \/ i = thr[k].i
    BY <1>1, <1>3, <1>12, LeavesFile
  <2> QED BY <1>2, <1>4, <1>9, <2>1
<1>13. /\ Ended(k)' /\ Due(k)'
       /\ \A m \in Streams \ {k} : thr'[m] = thr[m] /\ strm'[m] = strm[m]
  BY <1>1, <1>3, LeavesFile
<1> QED BY <1>1, <1>3, <1>4, <1>8, <1>10, <1>11, <1>12, <1>13, StepHeld

\* A step that changes nothing of the files but their descriptors.
LEMMA StillHeld ==
    ASSUME HeldInv, SinkInv, UNCHANGED <<job, outDisk, strm, thr>>,
           allClosed' => \A k \in Streams : thr[k].pc = "done",
           \A d \in Entries : /\ outFile'[d].created = outFile[d].created
                              /\ outFile'[d].writeIt = outFile[d].writeIt
                              /\ outFile'[d].cannot = outFile[d].cannot
                              /\ outFile'[d].failed = outFile[d].failed
    PROVE  HeldInv'
<1>0. SinkTypeOK
  BY DEF SinkInv
<1>1. Streams' = Streams /\ \A m \in Streams : Slices(m)' = Slices(m) /\ Total(m)' = Total(m)
      /\ \A l, i : Spos(l, i)' = Spos(l, i)
  BY LayoutKept
<1>2. \A m \in Streams : \A i \in 1 .. Len(Slices(m)) :
          EntryOf(m, i) \in Entries /\ EntryOf(m, i)' = EntryOf(m, i)
  BY <1>0, <1>1, SliceFacts DEF SinkTypeOK, EntryOf
<1>3. \A d \in Entries : Opened(d)' = Opened(d) /\ Healthy(d)' = Healthy(d)
  BY DEF Opened, Healthy
<1>4. \A m, i : Reached(m, i)' = Reached(m, i)
  BY DEF Reached
<1>5. ASSUME NEW m \in Streams PROVE (Ended(m) /\ Due(m) /\ Visited(m) /\ InOrder(m))'
  <2>1. Ended(m) /\ Due(m) /\ Visited(m) /\ InOrder(m)
    BY DEF HeldInv
  <2>2. Ended(m)'
    BY <1>1, <2>1 DEF Ended
  <2>3. Due(m)'
    <3>1. thr[m].pc = "write" => Opened(Ent(m)) /\ Ent(m)' = Ent(m)
      BY <1>1, <2>1 DEF Due, Ent, Slice
    <3>2. ASSUME thr[m].pc = "write" PROVE Opened(Ent(m))'
      <4>1. PICK d \in Entries : d = Ent(m)
        BY <1>0, <3>2, EntType DEF SinkInv, AtSlice
      <4>2. Ent(m)' = d /\ Opened(d)'
        BY <1>3, <3>1, <3>2, <4>1
      <4> QED BY <4>2 DEF Opened
    <3> QED BY <1>1, <2>1, <3>2 DEF Due
  <2>4. Visited(m)'
    BY <1>1, <1>2, <1>4, <2>1 DEF Visited, Been
  <2>5. InOrder(m)'
    BY <1>1, <1>2, <2>1 DEF InOrder, Alive
  <2> QED BY <2>2, <2>3, <2>4, <2>5
<1>6. ASSUME NEW m \in Streams, NEW i \in 1 .. Len(Slices(m)) PROVE Held(m, i)'
  <2>1. PICK d \in Entries : d = EntryOf(m, i) /\ EntryOf(m, i)' = d
    BY <1>2
  <2>2. Stays(d)' => Stays(d)
    BY <1>3, StaysKept
  <2>3. Stays(EntryOf(m, i))' => Stays(EntryOf(m, i))
    BY <2>1, <2>2 DEF Stays, Healthy, Opened
  <2>4. Share(m, i)' = Share(m, i)
    BY <1>4, ShareNext DEF Share
  <2>5. Held(m, i) /\ (Alive(m)' => Alive(m))
    BY DEF HeldInv, Alive
  <2> QED BY <1>0, <2>3, <2>4, <2>5, HeldKept
<1> QED BY <1>1, <1>5, <1>6 DEF HeldInv

\* WriteAt: the bytes go where the slice lies, and no other slice lies there.
LEMMA WriteAtHeld ==
    ASSUME Orderly, HeldInv, SinkInv, NEW k \in Streams, WriteAt(k)
    PROVE  HeldInv'
<1>1. /\ SinkTypeOK /\ HasBytes(k) /\ Due(k) /\ thr[k].pc = "write" /\ AtSlice(k) /\ Flushed(k)
      /\ thr[k].i <= Len(Slices(k)) /\ job \in Cases
  BY DEF SinkInv, WriteAt, HeldInv, AtSlice, SinkTypeOK
<1>2. PICK e \in Entries, j \in 1 .. Len(Slices(k)) :
          e = Ent(k) /\ j = thr[k].i /\ EntryOf(k, j) = e /\ Slice(k) = Slices(k)[j]
  BY <1>1, EntType DEF Ent, Slice, EntryOf
<1>3. thr[k].call \in {"write", "end"} /\ FromPos(k) < ToPos(k)
  BY <1>1 DEF HasBytes
<1>4. PICK s \in Nat, n \in Nat, f \in Nat, t \in Nat, off \in Nat :
          /\ s = Spos(k, j) /\ n = Slices(k)[j].len /\ f = strm[k].flushed /\ t = thr[k].to
          /\ FromPos(k) = IF s <= f THEN f ELSE s
          /\ ToPos(k) = IF s + n <= t THEN s + n ELSE t
          /\ off = Slices(k)[j].off /\ Send(k, j) = s + n
  <2>1. PICK s, n, f, t : s = Spos(k, thr[k].i) /\ n = Slice(k).len
                          /\ f = strm[k].flushed /\ t = thr[k].to
    OBVIOUS
  <2>2. /\ s \in Nat /\ n \in Nat /\ f \in Nat /\ t \in Nat
        /\ FromPos(k) = IF s <= f THEN f ELSE s
        /\ ToPos(k) = IF s + n <= t THEN s + n ELSE t
    BY <1>1, <1>3, <2>1, PartIs
  <2>3. Slices(k)[j].off \in Nat /\ Send(k, j) = Spos(k, j) + Slices(k)[j].len
    BY <1>1, SliceFacts, SposOrder
  <2> QED BY <1>2, <2>1, <2>2, <2>3
<1>5. PICK first \in Nat, past \in Nat : first = FromPos(k) /\ past = ToPos(k)
  BY <1>4
<1>6. PICK lo \in Int, hi \in Int :
          /\ first < past /\ s <= first /\ f <= first /\ past <= s + n /\ past <= t
          /\ first = s \/ first = f
          /\ past = s + n \/ past = t
          /\ lo = off + (first - s) /\ hi = off + (past - s) - 1
          /\ off <= lo /\ hi < off + n
  <2>1. /\ first < past /\ s <= first /\ f <= first /\ past <= s + n /\ past <= t
        /\ first = s \/ first = f
        /\ past = s + n \/ past = t
    <3>1. first < past
      BY <1>3, <1>5
    <3>2. first = IF s <= f THEN f ELSE s
      BY <1>4, <1>5
    <3>3. past = IF s + n <= t THEN s + n ELSE t
      BY <1>4, <1>5
    <3> QED BY <3>1, <3>2, <3>3
  <2>2. PICK lo \in Int, hi \in Int : lo = off + (first - s) /\ hi = off + (past - s) - 1
    OBVIOUS
  <2>3. off <= lo /\ hi < off + n
    BY <2>1, <2>2
  <2> QED BY <2>1, <2>2, <2>3
<1>7. /\ Goto(k, "check") /\ UNCHANGED <<job, strm, allClosed>>
      /\ outDisk' = [outDisk EXCEPT ![job.path[e]].bytes =
                        [x \in Offsets |-> IF x \in lo .. hi
                                           THEN [entry |-> e, try |-> strm[k].try] ELSE @[x]]]
  <2>1. PICK base, m : /\ base = Slice(k).off + FromPos(k) - Spos(k, thr[k].i)
                       /\ m = ToPos(k) - FromPos(k)
    OBVIOUS
  <2>2. base = lo /\ base + m - 1 = hi
    <3>1. /\ base = off + first - s /\ m = past - first
      BY <1>2, <1>4, <1>5, <2>1
    <3> QED BY <1>6, <3>1
  <2>3. outDisk' = [outDisk EXCEPT ![job.path[e]].bytes =
                        [x \in Offsets |-> IF x \in base .. base + m - 1
                                           THEN [entry |-> e, try |-> strm[k].try] ELSE @[x]]]
    BY <1>2, <2>1, Zenon DEF WriteAt
  <2>4. Goto(k, "check") /\ UNCHANGED <<job, strm, allClosed>>
    BY Zenon DEF WriteAt
  <2> QED BY <2>2, <2>3, <2>4
<1>8. /\ \A p \in Paths : p # job.path[e] => outDisk'[p] = outDisk[p]
      /\ \A x \in Offsets :
            outDisk'[job.path[e]].bytes[x] = IF x \in lo .. hi
                                             THEN [entry |-> e, try |-> strm[k].try]
                                             ELSE outDisk[job.path[e]].bytes[x]
  <2> DEFINE new == [x \in Offsets |-> IF x \in lo .. hi THEN [entry |-> e, try |-> strm[k].try]
                                       ELSE outDisk[job.path[e]].bytes[x]]
  <2>1. /\ outDisk \in [Paths -> [state : {"absent", "old", "new"}, bytes : [Offsets -> Byte]]]
        /\ job.path[e] \in Paths
    BY <1>1, PSinkAssumption DEF SinkTypeOK, Extraction
  <2>2. outDisk' = [outDisk EXCEPT ![job.path[e]].bytes = new]
    BY <1>7, <2>1
  <2>3. \A x \in Offsets : new[x] = IF x \in lo .. hi THEN [entry |-> e, try |-> strm[k].try]
                                    ELSE outDisk[job.path[e]].bytes[x]
    OBVIOUS
  <2> HIDE DEF new
  <2>4. outDisk'[job.path[e]].bytes = new /\ \A p \in Paths : p # job.path[e] => outDisk'[p] = outDisk[p]
    BY <2>1, <2>2
  <2> QED BY <2>3, <2>4
<1>9. /\ \A d \in Entries : /\ outFile'[d].created = outFile[d].created
                            /\ Opened(d)' = Opened(d) /\ Healthy(d)' = Healthy(d)
  <2>1. PICK left, open, closed :
            outFile' = [outFile EXCEPT ![e].remaining = left, ![e].open = open, ![e].closed = closed]
    <3>1. PICK left : left = IF ToPos(k) - FromPos(k) >= outFile[e].remaining THEN 0
                             ELSE outFile[e].remaining - (ToPos(k) - FromPos(k))
      OBVIOUS
    <3>2. outFile' = [outFile EXCEPT ![e].remaining = left, ![e].open = ~Complete(k, left),
                                     ![e].closed = Complete(k, left)]
      BY <1>2, <3>1, Zenon DEF WriteAt
    <3> QED BY <3>2
  <2>2. outFile \in [Entries -> FileState]
    BY <1>1 DEF SinkTypeOK
  <2>3. ASSUME NEW d \in Entries
        PROVE  /\ outFile'[d].created = outFile[d].created /\ outFile'[d].writeIt = outFile[d].writeIt
               /\ outFile'[d].cannot = outFile[d].cannot /\ outFile'[d].failed = outFile[d].failed
    <3>1. CASE d = e
      BY <2>1, <2>2, <3>1 DEF FileState
    <3>2. CASE d # e
      BY <2>1, <2>2, <3>2
    <3> QED BY <3>1, <3>2
  <2> QED BY <2>3 DEF Opened, Healthy
<1>10. Streams' = Streams /\ \A m \in Streams : Slices(m)' = Slices(m)
  BY <1>7, LayoutKept
<1>11. \A m \in Streams : \A i \in 1 .. Len(Slices(m)) :
          EntryOf(m, i) \in Entries /\ EntryOf(m, i)' = EntryOf(m, i)
  BY <1>1, <1>10, SliceFacts DEF EntryOf
<1>12. ASSUME NEW m \in Streams \ {k}, thr[m].pc = "write" PROVE Opened(Ent(m))'
  <2>1. Opened(Ent(m)) /\ thr'[m] = thr[m]
    BY <1>1, <1>7, <1>12, GotoIs DEF HeldInv, Due
  <2>2. PICK d \in Entries : d = Ent(m)
    BY <1>1, <1>12, EntType DEF SinkInv, AtSlice
  <2>3. Ent(m)' = d
    BY <1>10, <2>1, <2>2 DEF Ent, Slice
  <2>4. Opened(d)'
    BY <1>9, <2>1, <2>2
  <2> QED BY <2>3, <2>4 DEF Opened
<1>13. outFile[e].created /\ Opened(e)
  BY <1>1, <1>2 DEF HasBytes, Due
<1>14. ASSUME NEW m \in Streams PROVE InOrder(m)'
  <2>1. InOrder(m)
    BY DEF HeldInv
  <2>2. Alive(m)' = Alive(m)
    BY <1>7 DEF Alive
  <2>3. job' = job
    BY <1>7
  <2>4. ASSUME NEW i \in 1 .. Len(Slices(m))
        PROVE  EntryOf(m, i)' = EntryOf(m, i)
               /\ outFile'[EntryOf(m, i)].created = outFile[EntryOf(m, i)].created
    BY <1>9, <1>11
  <2>5. Slices(m)' = Slices(m)
    BY <1>10
  <2> QED BY ONLY <2>1, <2>2, <2>3, <2>4, <2>5 DEF InOrder
<1>15. /\ Ended(k)' /\ Due(k)'
       /\ \A m \in Streams \ {k} : thr'[m] = thr[m] /\ strm'[m] = strm[m]
       /\ \A m \in Streams : \A i \in 1 .. Len(Slices(m)) :
             m # k \/ i # j => Share(m, i)' = Share(m, i)
       /\ \A i \in 1 .. Len(Slices(k)) : Been(k, i)' => Been(k, i) \/ i = j
  BY <1>1, <1>2, <1>7, LeavesFile
<1>16. ASSUME NEW i \in 1 .. Len(Slices(k)), Been(k, i)'
       PROVE  Been(k, i) \/ outFile'[EntryOf(k, i)].created
  BY <1>2, <1>9, <1>13, <1>15, <1>16
\* The slice itself: below what is written now, what was there.
<1>17. Held(k, j)'
  <2>1. Held(k, j) /\ (Alive(k)' => Alive(k)) /\ Slices(k)' = Slices(k) /\ EntryOf(k, j)' = e
    BY <1>2, <1>7, <1>10, <1>11 DEF HeldInv, Alive
  <2>2. Stays(EntryOf(k, j))' => Stays(e)
    <3>1. Stays(e)' => Stays(e)
      BY <1>7, <1>9, StaysKept
    <3> QED BY <2>1, <3>1 DEF Stays, Healthy, Opened
  <2>3. Reached(k, j) = f /\ Reached(k, j)' = t
    BY <1>1, <1>2, <1>3, <1>4, <1>7, ReachedMoved
  <2>4. Share(k, j) = IF f <= s THEN 0 ELSE IF f <= s + n THEN f - s ELSE n
    <3>1. Before(k, j, EntryOf(k, j), f)
          = IF f <= Spos(k, j) THEN 0 ELSE IF f <= Send(k, j) THEN f - Spos(k, j)
            ELSE Slices(k)[j].len
      BY <1>1, <1>4, ShareIs
    <3> QED BY <1>4, <2>3, <3>1 DEF Share
  <2>5. Share(k, j)' = past - s
    <3>1. Before(k, j, EntryOf(k, j), t)
          = IF t <= Spos(k, j) THEN 0 ELSE IF t <= Send(k, j) THEN t - Spos(k, j)
            ELSE Slices(k)[j].len
      BY <1>1, <1>4, ShareIs
    <3>2. Share(k, j)' = Before(k, j, EntryOf(k, j), t)
      BY <1>7, <2>3, ShareNext
    <3>3. Share(k, j)' = IF t <= s THEN 0 ELSE IF t <= s + n THEN t - s ELSE n
      BY <1>4, <3>1, <3>2
    <3> QED BY <1>6, <3>3
  <2>6. SUFFICES ASSUME Alive(k), Stays(e), NEW o \in off .. off + (past - s) - 1
                 PROVE  outDisk'[job.path[e]].bytes[o] = [entry |-> e, try |-> strm[k].try]
    BY <1>4, <1>7, <2>1, <2>2, <2>5 DEF Held
  <2>7. o \in Offsets /\ o \in Int /\ off <= o /\ o <= hi
    <3>1. Slices(k)[j].off + Slices(k)[j].len <= LongestFile /\ LongestFile \in Nat
      <4>1. k \in DOMAIN job.streams /\ j \in DOMAIN job.streams[k]
        <5>1. DOMAIN job.streams = Streams
          BY <1>1, PSinkAssumption DEF Streams, Extraction
        <5> QED BY <1>1, <5>1, SliceFacts DEF Slices
      <4> QED BY <1>1, <4>1, PSinkAssumption DEF Slices
    <3>2. PICK top \in Nat : top = LongestFile /\ off + n <= top
      BY <1>4, <3>1
    <3>3. o \in Int /\ off <= o /\ o <= hi
      BY <1>6
    <3>4. o <= top - 1 /\ 0 <= o
      BY <1>6, <3>2, <3>3
    <3> QED BY <3>2, <3>3, <3>4 DEF Offsets
  <2>8. CASE o \in lo .. hi
    BY <1>8, <2>7, <2>8
  <2>9. CASE o \notin lo .. hi
    <3>1. o < lo
      BY <1>6, <2>7, <2>9
    <3>2. first = f /\ s < f
      BY <1>6, <2>7, <3>1
    <3>3. o \in off .. off + Share(k, j) - 1
      BY <1>6, <2>4, <2>7, <3>1, <3>2
    <3>4. outDisk[job.path[e]].bytes[o] = [entry |-> e, try |-> strm[k].try]
      BY <1>2, <1>4, <2>1, <2>6, <3>3 DEF Held
    <3> QED BY <1>8, <2>7, <2>9, <3>4
  <2> QED BY <2>8, <2>9
\* The other slices.
<1>18. ASSUME NEW m \in Streams, NEW i \in 1 .. Len(Slices(m)), m # k \/ i # j
       PROVE  Held(m, i)'
  <2>1. PICK d \in Entries : d = EntryOf(m, i) /\ EntryOf(m, i)' = d
    BY <1>11
  <2>2. Stays(EntryOf(m, i))' => Stays(d)
    <3>1. Stays(d)' => Stays(d)
      BY <1>7, <1>9, StaysKept
    <3> QED BY <2>1, <3>1 DEF Stays, Healthy, Opened
  <2>3. Share(m, i)' = Share(m, i) /\ Held(m, i) /\ (Alive(m)' => Alive(m))
    BY <1>7, <1>15, <1>18 DEF HeldInv, Alive
  <2>4. CASE job.path[d] # job.path[e]
    <3>1. job.path[d] \in Paths
      BY <1>1, PSinkAssumption DEF Extraction
    <3>2. outDisk'[job.path[EntryOf(m, i)]] = outDisk[job.path[EntryOf(m, i)]]
      BY <1>8, <2>1, <2>4, <3>1
    <3> QED BY <1>1, <1>7, <2>1, <2>2, <2>3, <3>2, HeldKept
  <2>5. CASE d = e
    <3>1. PICK a \in Nat, l \in Nat, q \in Nat :
             a = Slices(m)[i].off /\ l = Slices(m)[i].len /\ q = Share(m, i) /\ q <= l
      <4>1. PICK p \in Nat : p = Reached(m, i)
        <5>1. i \in Nat
          OBVIOUS
        <5> QED BY <1>1, <5>1, ReachedIs
      <4>2. /\ Slices(m)[i].off \in Nat /\ Slices(m)[i].len \in Nat
            /\ Before(m, i, EntryOf(m, i), p) \in Nat
            /\ Before(m, i, EntryOf(m, i), p) <= Slices(m)[i].len
        BY <1>1, ShareIs
      <4> QED BY <4>1, <4>2 DEF Share
    <3>2. off + n <= a \/ a + l <= off
      <4>1. \/ k = m /\ j = i
            \/ Slices(k)[j].off + Slices(k)[j].len <= Slices(m)[i].off
            \/ Slices(m)[i].off + Slices(m)[i].len <= Slices(k)[j].off
        <5>1. EntryOf(k, j) = EntryOf(m, i) /\ job.path[EntryOf(k, j)] = job.path[EntryOf(m, i)]
          BY <1>2, <2>1, <2>5
        <5> QED BY <1>1, <5>1, OrderlyIs
      <4> QED BY <1>4, <1>18, <3>1, <4>1
    <3>3. SUFFICES ASSUME Alive(m), Stays(d), NEW o \in a .. a + q - 1
                   PROVE  outDisk'[job.path[e]].bytes[o] = [entry |-> d, try |-> strm[m].try]
      BY <1>7, <1>10, <2>1, <2>2, <2>3, <2>5, <3>1 DEF Held
    <3>4. o \notin lo .. hi
      <4>1. off <= lo /\ hi < off + n
        BY <1>6
      <4>2. o \in Int /\ a <= o /\ o < a + l
        BY <3>1, <3>3
      <4>3. o < off \/ off + n <= o
        BY <3>1, <3>2, <4>2
      <4>4. o < lo \/ hi < o
        BY <4>1, <4>2, <4>3
      <4> QED BY <4>4
    <3>5. o \in Offsets
      <4>1. Slices(m)[i].off + Slices(m)[i].len <= LongestFile /\ LongestFile \in Nat
        <5>1. m \in DOMAIN job.streams /\ i \in DOMAIN job.streams[m]
          <6>1. DOMAIN job.streams = Streams
            BY <1>1, PSinkAssumption DEF Streams, Extraction
          <6> QED BY <1>1, <6>1, SliceFacts DEF Slices
        <5> QED BY <1>1, <5>1, PSinkAssumption DEF Slices
      <4> QED BY <3>1, <4>1 DEF Offsets
    <3>6. outDisk[job.path[e]].bytes[o] = [entry |-> d, try |-> strm[m].try]
      BY <2>1, <2>3, <2>5, <3>1, <3>3 DEF Held
    <3> QED BY <1>8, <3>4, <3>5, <3>6
  <2>6. CASE d # e /\ job.path[d] = job.path[e]
    <3>1. /\ k = m /\ (e < d => j < i)
      BY <1>1, <1>2, <2>1, <2>6, OrderlyIs
    <3>2. d \in Nat /\ e \in Nat
      BY PSinkAssumption
    <3>3. CASE d < e
      <4>1. ~Stays(d)
        BY <1>13, <2>6, <3>2, <3>3 DEF Stays
      <4> QED BY <2>1, <2>2, <4>1 DEF Held
    <3>4. CASE e < d
      <4>1. Reached(k, i) = f
        <5>1. i \in Nat /\ ~ (i < thr[k].i) /\ i # thr[k].i
          BY <1>2, <3>1, <3>4
        <5> QED BY <1>1, <1>4, <5>1, ReachedIs
      <4>2. f < Send(k, j) /\ Send(k, j) <= Spos(k, i) /\ Spos(k, i) \in Nat /\ Send(k, j) \in Nat
        <5>1. /\ Send(k, j) <= Spos(k, i) /\ Spos(k, i) \in Nat /\ Send(k, j) \in Nat
          BY <1>1, <3>1, <3>4, SposOrder
        <5>2. PICK z \in Nat : z = Send(k, j) /\ z = s + n
          BY <1>4
        <5>3. f < z
          BY <1>6, <5>2
        <5> QED BY <5>1, <5>2, <5>3
      <4>3. f <= Spos(k, i)
        BY <1>4, <4>2
      <4>4. Before(k, i, EntryOf(k, i), f) = 0
        BY <1>1, <1>4, <3>1, <4>3, ShareIs
      <4>5. Share(m, i)' = 0
        BY <2>3, <3>1, <4>1, <4>4 DEF Share
      <4> QED BY <1>1, <1>7, <4>5, HeldNone
    <3> QED BY <2>6, <3>2, <3>3, <3>4
  <2> QED BY <2>4, <2>5, <2>6
<1>19. \A m \in Streams : \A i \in 1 .. Len(Slices(m)) : Held(m, i)'
  BY <1>17, <1>18
<1> QED BY <1>1, <1>7, <1>9, <1>12, <1>14, <1>15, <1>16, <1>19, StepHeld

\* CloseAll: the workers are joined, and the files hold what they held.
LEMMA CloseAllHeld ==
    ASSUME HeldInv, SinkInv, CloseAll
    PROVE  HeldInv'
<1>1. /\ outFile' = [e \in Entries |->
                        [outFile[e] EXCEPT !.open = FALSE, !.closed = @ \/ outFile[e].open]]
      /\ \A k \in Streams : thr[k].pc = "done"
      /\ UNCHANGED <<job, outDisk, strm, thr>>
  BY Zenon DEF CloseAll
<1>2. ASSUME NEW d \in Entries
      PROVE  /\ outFile'[d].created = outFile[d].created /\ outFile'[d].writeIt = outFile[d].writeIt
             /\ outFile'[d].cannot = outFile[d].cannot /\ outFile'[d].failed = outFile[d].failed
  <2>1. outFile[d] \in FileState
    BY DEF SinkInv, SinkTypeOK
  <2>2. PICK c : outFile'[d] = [outFile[d] EXCEPT !.open = FALSE, !.closed = c]
    BY <1>1
  <2> QED BY <2>1, <2>2 DEF FileState
<1> QED BY <1>1, <1>2, StillHeld

\* Nothing is written yet, and nothing created.
LEMMA InitHeld ==
    ASSUME SinkInit
    PROVE  HeldInv
<1>1. SinkTypeOK /\ job \in Cases
  BY InitInv DEF SinkInv, SinkTypeOK
<1>2. ~allClosed /\ \A e \in Entries : ~outFile[e].created
  BY DEF SinkInit
<1>3. ASSUME NEW k \in Streams
      PROVE  /\ thr[k].pc = "start" /\ thr[k].call = "begin" /\ thr[k].i = 1
             /\ strm[k].produced = 0 /\ strm[k].flushed = 0 /\ strm[k].ends = "no"
  BY DEF SinkInit
<1>4. ASSUME NEW k \in Streams PROVE Ended(k) /\ Due(k)
  BY <1>3 DEF Ended, Due
<1>5. ASSUME NEW k \in Streams, NEW i \in 1 .. Len(Slices(k))
      PROVE  ~Been(k, i) /\ EntryOf(k, i) \in Entries /\ Held(k, i)
  <2>1. i \in Nat /\ Spos(k, i) \in Nat
    BY <1>1, SposOrder
  <2>2. Reached(k, i) = 0
    BY <1>1, <1>3, <2>1, ReachedIs
  <2>3. ~Been(k, i)
    BY <1>3, <2>1, <2>2 DEF Been
  <2>4. EntryOf(k, i) \in Entries
    BY <1>1, SliceFacts DEF EntryOf
  <2>5. ~Stays(EntryOf(k, i))
    BY <1>2, <2>4 DEF Stays, Healthy
  <2> QED BY <2>3, <2>4, <2>5 DEF Held
<1>6. ASSUME NEW k \in Streams PROVE Visited(k) /\ InOrder(k)
  BY <1>2, <1>5 DEF Visited, InOrder
<1> QED BY <1>2, <1>4, <1>5, <1>6 DEF HeldInv

-----------------------------------------------------------------------------
\* Every stream that may still end well holds what it has written of the files that stay,
\* however its worker's steps and those of the others fall.
THEOREM BytesHeld ==
    ASSUME Orderly
    PROVE  SinkSpec => []HeldInv
<1>1. ASSUME HeldInv, SinkInv, SinkInv', SinkNext PROVE HeldInv'
  <2>1. CASE CloseAll
    BY <1>1, <2>1, CloseAllHeld
  <2>2. ASSUME NEW k \in Streams, Worker(k) \/ Answered(k) PROVE HeldInv'
    <3>1. CASE CreateDecided(k) \/ Decide(k)
      BY <1>1, <3>1, CreateHeld
    <3>2. CASE DecideByAsking(k)
      BY <1>1, <3>2, DecideByAskingHeld
    <3>3. CASE LockAskMu(k) \/ SaysYes(k) \/ SaysNo(k)
      BY <1>1, <3>3, AnswerHeld
    <3>4. CASE StreamBegin(k)
      BY <1>1, <3>4, BeginHeld
    <3>5. ASSUME NEW n \in 1 .. MaxChunk, StreamWrite(k, n) PROVE HeldInv'
      BY <1>1, <3>5, WriteHeld
    <3>6. ASSUME NEW ends \in {"ok", "fail", "clean"}, NEW p \in 0 .. Total(k), StreamEnd(k, ends, p)
          PROVE  HeldInv'
      BY <1>1, <3>6, EndHeld
    <3>7. CASE StreamRewind(k)
      BY <1>1, <3>7, RewindHeld
    <3>8. CASE NextSlice(k)
      BY <1>1, <3>8, NextSliceHeld
    <3>9. CASE WriteAt(k)
      BY <1>1, <3>9, WriteAtHeld
    <3>10. CASE WriteFails(k)
      BY <1>1, <3>10, WriteFailsHeld
    <3>11. CASE Check(k)
      BY <1>1, <3>11, CheckHeld
    <3>12. CASE EndSlices(k)
      BY <1>1, <3>12, EndSlicesHeld
    <3>13. CASE EnterGroup(k)
      BY <1>1, <3>13, EnterGroupHeld
    <3> QED
      BY <2>2, <3>1, <3>2, <3>3, <3>4, <3>5, <3>6, <3>7, <3>8, <3>9, <3>10, <3>11, <3>12, <3>13,
         Zenon DEF Worker, Answered
  <2> QED BY <1>1, <2>1, <2>2, Zenon DEF SinkNext
<1>2. ASSUME HeldInv, SinkInv, UNCHANGED sinkVars PROVE HeldInv'
  <2>1. UNCHANGED <<job, outFile, outDisk, strm, thr, allClosed>>
    BY <1>2 DEF sinkVars
  <2>2. allClosed' => \A k \in Streams : thr[k].pc = "done"
    BY <1>2, <2>1 DEF HeldInv
  <2> QED BY <1>2, <2>1, <2>2, StillHeld
<1>3. ASSUME HeldInv, SinkInv, SinkInv', [SinkNext \/ SinkTerminated]_sinkVars PROVE HeldInv'
  BY <1>1, <1>2, <1>3, Zenon DEF SinkTerminated
<1>4. SinkInit => HeldInv
  BY InitHeld
<1> QED BY <1>3, <1>4, Invariance, PTL DEF SinkSpec

\* When every stream has decoded, the files that stay at their paths are complete.
THEOREM FilesAreComplete ==
    ASSUME Orderly
    PROVE  SinkSpec => []FilesComplete
<1>1. ASSUME SinkInv, HeldInv PROVE FilesComplete
  <2>1. SUFFICES ASSUME AllOk, NEW k \in Streams, NEW i \in 1 .. Len(Slices(k)),
                        Stays(EntryOf(k, i)),
                        NEW o \in Slices(k)[i].off .. Slices(k)[i].off + Slices(k)[i].len - 1
                 PROVE  outDisk[job.path[EntryOf(k, i)]].bytes[o]
                        = [entry |-> EntryOf(k, i), try |-> strm[k].try]
    BY DEF FilesComplete, EntryOf
  <2>2. /\ SinkTypeOK /\ job \in Cases /\ Flushed(k) /\ Ended(k) /\ Held(k, i)
        /\ thr[k].pc = "done" /\ strm[k].ends = "ok"
    BY <1>1, <2>1 DEF SinkInv, HeldInv, AllOk, SinkTypeOK
  <2>3. thr[k].call \in {"begin", "write", "end", "group"}
    BY <2>2 DEF SinkTypeOK, WorkerState
  <2>4. thr[k].call = "end"
    BY <2>2, <2>3 DEF Flushed, Ended
  <2>5. strm[k].flushed = Total(k)
    BY <2>2, <2>4 DEF Flushed, EndFlush, Ended
  <2>6. Reached(k, i) = strm[k].flushed
    <3>1. i \in Nat
      OBVIOUS
    <3> QED BY <2>2, <3>1, ReachedIs
  <2>7. PICK t \in Nat, s \in Nat, n \in Nat :
           /\ t = Total(k) /\ s = Spos(k, i) /\ n = Slices(k)[i].len
           /\ Send(k, i) = s + n /\ s + n <= t
    <3>1. Slices(k)[i].len \in Nat
      BY <2>2, SliceFacts
    <3>2. Total(k) \in Nat
      BY <2>2, TotalType
    <3> QED BY <2>2, <3>1, <3>2, SposOrder
  <2>8. Share(k, i) = Slices(k)[i].len
    <3>1. Before(k, i, EntryOf(k, i), t)
          = IF t <= Spos(k, i) THEN 0 ELSE IF t <= Send(k, i) THEN t - Spos(k, i)
            ELSE Slices(k)[i].len
      BY <2>2, <2>7, ShareIs
    <3>2. Share(k, i) = IF t <= s THEN 0 ELSE IF t <= s + n THEN t - s ELSE n
      BY <2>5, <2>6, <2>7, <3>1 DEF Share
    <3>3. Share(k, i) = n
      BY <2>7, <3>2
    <3> QED BY <2>7, <3>3
  <2> QED BY <2>1, <2>2, <2>8 DEF Held, Alive
<1> QED BY <1>1, BytesHeld, Invariance, PTL
=============================================================================
