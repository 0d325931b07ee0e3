-------------------------- MODULE LiveCheck_proofs --------------------------
(***************************************************************************)
(* For any number of streams, any archive and any bound on the queues: the *)
(* verdict of the checks made while an archive is written is right.  What  *)
(* a check has decoded is what the file holds of its stream up to the      *)
(* record it has popped (Follows), what waits for it is the rest of what   *)
(* has been written (Queue), and when the writer is through nothing waits  *)
(* (Buffered).                                                             *)
(***************************************************************************)
EXTENDS LiveCheck, Induction

-----------------------------------------------------------------------------
(* The invariant *)

Writing == wpc \in {"write", "route", "feed"}

\* Where the writer is in its own course, and with whom it is through.
Stages ==
    /\ Writing => wk = 0 /\ verdict = "ok" /\ ~after
    /\ wpc \in {"notify", "join"} => wk < Workers
    /\ wpc = "end" => wk = Workers
    /\ wAsleep => wpc = "feed"
    /\ \A s \in LiveStreams : /\ done[s] => ~Writing
                              /\ s < wk => cpc[s] = "exit"

\* The lengths of the records.
Lengths == [i \in DOMAIN archive |-> archive[i].len]

\* The demux has what was written of the records from `next` on, and has let none pass
\* that it could not tell; between two calls no record is ready.
Buffered ==
    /\ have + left + SumBefore(Lengths, next) = ArchiveBytes(archive)
    /\ \A i \in 1 .. next - 1 : archive[i].kind \notin {"garbled", "cut"}
    /\ demuxBad => next <= Len(archive) /\ archive[next].kind = "garbled"
    /\ wpc = "feed" => RecordReady
    /\ wpc = "write" /\ ~outBad => ~RecordReady
    /\ ~Writing /\ verdict = "ok" => left = 0 /\ have = 0 /\ ~outBad

\* What waits for the check of stream s is its records behind the one it has popped, in
\* the file's order, and all of them unless it has given up.
Sized(s) == [a \in DOMAIN q[s] |-> archive[q[s][a]].len]

Queue(s) ==
    /\ piece[s] < next /\ (piece[s] # 0 => archive[piece[s]].stream = s)
    /\ \A a \in DOMAIN q[s] : /\ q[s][a] > piece[s] /\ q[s][a] < next
                              /\ archive[q[s][a]].stream = s
                              /\ \A b \in DOMAIN q[s] : a < b => q[s][a] < q[s][b]
    /\ state[s] \in {"running", "ok"} =>
          \A i \in 1 .. next - 1 :
              archive[i].stream = s /\ i > piece[s] => \E a \in DOMAIN q[s] : q[s][a] = i
    /\ queued[s] = SumBefore(Sized(s), Len(q[s]) + 1)

\* The place up to which check s has decoded.
Point(s) == IF cpc[s] = "decode" THEN piece[s] - 1 ELSE piece[s]

Seen(s) == {i \in 1 .. Point(s) : archive[i].stream = s}

\* What a check has made of the records before that place.
Follows(s) ==
    /\ cpc[s] = "decode" => state[s] = "running" /\ piece[s] # 0
    /\ cpc[s] = "exit" => state[s] # "running" /\ q[s] = <<>> /\ done[s]
    /\ state[s] = "ok" => cpc[s] = "exit"
    /\ stop[s] <=> state[s] \in {"failed", "skipped"}
    /\ state[s] \in {"running", "ok"} =>
          /\ \A i \in Seen(s) : ~Damaged(i)
          /\ built[s] <=> \E i \in Seen(s) : archive[i].kind = "codec"
          /\ decoded[s] = DataUpTo(archive, s)[Point(s)]
    /\ state[s] = "failed" => \E i \in 1 .. Len(archive) : Damaged(i)

\* What the verdict says of the checks that were waited for.
Judgement ==
    /\ ~Writing /\ verdict = "ok" /\ ~after =>
          \A s \in LiveStreams : s < wk => state[s] = "ok" /\ decoded[s] = Want[archive][s]
    /\ verdict = "failed" =>
          \/ \E i \in 1 .. Len(archive) : Damaged(i)
          \/ \E s \in LiveStreams : DataOf(s) # Want[archive][s]

LiveInv ==
    /\ LiveTypeOK /\ Stages /\ Buffered /\ Judgement
    /\ \A s \in LiveStreams : Queue(s) /\ Follows(s)
-----------------------------------------------------------------------------
(* The archive and its records *)

\* What a record is.
LEMMA RecordFacts ==
    ASSUME LiveAssumption, archive \in Archives
    PROVE  /\ Len(archive) \in Nat /\ DOMAIN archive = 1 .. Len(archive)
           /\ \A i \in 1 .. Len(archive) :
                 /\ archive[i].stream \in LiveStreams /\ archive[i].kind \in Kinds
                 /\ archive[i].len \in Nat \ {0}
<1>1. archive \in Seq(Record)
  BY DEF LiveAssumption
<1>2. \A r \in Record : r.stream \in LiveStreams /\ r.kind \in Kinds /\ r.len \in Nat \ {0}
  BY DEF Record, LiveAssumption
<1>3. \A i \in 1 .. Len(archive) : archive[i] \in Record
  BY <1>1
<1> QED BY <1>1, <1>2, <1>3

\* Sums grow with the places.
LEMMA SumGrows ==
    ASSUME NEW sizes, NEW i \in Nat \ {0}, NEW j \in Nat, i <= j, \A k \in 1 .. j - 1 : sizes[k] \in Nat
    PROVE  SumBefore(sizes, i) <= SumBefore(sizes, j)
<1> DEFINE S == {n \in Nat : SumBefore(sizes, i) <= SumBefore(sizes, i + n)}
<1>1. SumBefore(sizes, i) \in Nat
  <2>1. \A k \in 1 .. i - 1 : sizes[k] \in Nat
    OBVIOUS
  <2> QED BY <2>1, SumType
<1>2. 0 \in S
  BY <1>1
<1>3. ASSUME NEW n \in 0 .. (j - i) - 1, n \in S PROVE n + 1 \in S
  <2>1. i + n \in Nat \ {0} /\ i + n \in 1 .. j - 1 /\ i + (n + 1) = (i + n) + 1
    OBVIOUS
  <2>2. SumBefore(sizes, (i + n) + 1) = SumBefore(sizes, i + n) + sizes[i + n]
    BY <2>1, SumStep
  <2>3. SumBefore(sizes, i + n) \in Nat
    <3>1. \A k \in 1 .. (i + n) - 1 : sizes[k] \in Nat
      BY <2>1
    <3> QED BY <2>1, <3>1, SumType
  <2>4. sizes[i + n] \in Nat
    BY <2>1
  <2> QED BY <1>1, <1>3, <2>1, <2>2, <2>3, <2>4
<1>4. j - i \in Nat /\ i + (j - i) = j
  OBVIOUS
<1> HIDE DEF S
<1>5. 0 .. j - i \subseteq S
  BY <1>2, <1>3, <1>4, InductionUpTo
<1>6. j - i \in S
  BY <1>4, <1>5
<1> QED BY <1>4, <1>6 DEF S

\* What comes before a record, the record and what comes behind it.
LEMMA BytesFacts ==
    ASSUME LiveAssumption, archive \in Archives, NEW n \in 1 .. Len(archive) + 1
    PROVE  /\ SumBefore(Lengths, n) \in Nat /\ ArchiveBytes(archive) \in Nat
           /\ SumBefore(Lengths, n) <= ArchiveBytes(archive)
           /\ ArchiveBytes(archive) = SumBefore(Lengths, Len(archive) + 1)
           /\ n <= Len(archive) =>
                 /\ SumBefore(Lengths, n + 1) = SumBefore(Lengths, n) + archive[n].len
                 /\ SumBefore(Lengths, n) + archive[n].len <= ArchiveBytes(archive)
<1>1. /\ Len(archive) \in Nat
      /\ \A k \in 1 .. Len(archive) : Lengths[k] = archive[k].len /\ Lengths[k] \in Nat
  BY RecordFacts DEF Lengths
<1>2. ArchiveBytes(archive) = SumBefore(Lengths, Len(archive) + 1)
  BY DEF ArchiveBytes, Lengths
<1>3. n \in Nat \ {0} /\ n <= Len(archive) + 1
  BY <1>1
<1>4. \A m \in Nat \ {0} : m <= Len(archive) + 1 =>
          SumBefore(Lengths, m) \in Nat /\ SumBefore(Lengths, m) <= SumBefore(Lengths, Len(archive) + 1)
  <2>1. SUFFICES ASSUME NEW m \in Nat \ {0}, m <= Len(archive) + 1
                 PROVE  /\ SumBefore(Lengths, m) \in Nat
                        /\ SumBefore(Lengths, m) <= SumBefore(Lengths, Len(archive) + 1)
    OBVIOUS
  <2>2. \A k \in 1 .. m - 1 : Lengths[k] \in Nat
    BY <1>1, <2>1
  <2>3. SumBefore(Lengths, m) \in Nat
    BY <2>2, SumType
  <2>4. PICK j \in Nat : j = Len(archive) + 1
    BY <1>1
  <2>5. \A k \in 1 .. j - 1 : Lengths[k] \in Nat
    BY <1>1, <2>4
  <2>6. SumBefore(Lengths, m) <= SumBefore(Lengths, j)
    BY <2>1, <2>4, <2>5, SumGrows
  <2> QED BY <2>3, <2>4, <2>6
<1>5. SumBefore(Lengths, n + 1) = SumBefore(Lengths, n) + Lengths[n]
  BY <1>3, SumStep
<1>6. ArchiveBytes(archive) \in Nat /\ SumBefore(Lengths, n) \in Nat /\ SumBefore(Lengths, n) <= ArchiveBytes(archive)
  BY <1>1, <1>2, <1>3, <1>4
<1>7. n <= Len(archive) => SumBefore(Lengths, n + 1) <= ArchiveBytes(archive) /\ Lengths[n] = archive[n].len
  BY <1>1, <1>2, <1>3, <1>4
<1> QED BY <1>2, <1>5, <1>6, <1>7

\* d lists the data records of stream s among the first n records of a.
Lists(a, s, d, n) ==
    d = [m \in 0 .. n |->
            IF m = 0 THEN <<>>
            ELSE IF IsDataOf(a, s, m) THEN Append(d[m - 1], m) ELSE d[m - 1]]

\* There is such a list, however many records there are.
LEMMA ListsExist ==
    ASSUME NEW a, NEW s
    PROVE  \A n \in Nat : \E d : Lists(a, s, d, n)
<1> DEFINE S == {n \in Nat : \E d : Lists(a, s, d, n)}
           Step(d, m) == IF m = 0 THEN <<>>
                         ELSE IF IsDataOf(a, s, m) THEN Append(d[m - 1], m) ELSE d[m - 1]
<1>1. 0 \in S
  <2>1. Lists(a, s, [m \in 0 .. 0 |-> <<>>], 0)
    BY DEF Lists
  <2> QED BY <2>1
<1>2. ASSUME NEW n \in Nat, n \in S PROVE n + 1 \in S
  <2>1. PICK d : Lists(a, s, d, n)
    BY <1>2
  <2>2. \A m \in 0 .. n : d[m] = Step(d, m)
    BY <2>1 DEF Lists
  <2> DEFINE g == [m \in 0 .. n + 1 |-> IF m <= n THEN d[m] ELSE Step(d, m)]
  <2>3. ASSUME NEW m \in 0 .. n + 1 PROVE g[m] = Step(g, m)
    <3>1. \A k \in 0 .. n : g[k] = d[k]
      OBVIOUS
    <3>2. m # 0 => g[m - 1] = d[m - 1]
      <4>1. m # 0 => m - 1 \in 0 .. n
        OBVIOUS
      <4> QED BY <3>1, <4>1
    <3>3. g[m] = IF m <= n THEN d[m] ELSE Step(d, m)
      OBVIOUS
    <3>4. g[m] = Step(d, m)
      BY <2>2, <3>3
    <3> HIDE DEF g
    <3> QED BY <3>2, <3>4
  <2>4. g = [m \in 0 .. n + 1 |-> g[m]]
    OBVIOUS
  <2> HIDE DEF g
  <2>5. Lists(a, s, g, n + 1)
    BY <2>3, <2>4 DEF Lists
  <2> QED BY <2>5
<1> HIDE DEF S
<1>3. Nat \subseteq S
  BY <1>1, <1>2, InductionOverNat
<1> QED BY <1>3 DEF S

\* What DataUpTo lists, record by record.
LEMMA DataStep ==
    ASSUME NEW a, NEW s, Len(a) \in Nat
    PROVE  /\ DataUpTo(a, s)[0] = <<>>
           /\ \A n \in 1 .. Len(a) :
                 DataUpTo(a, s)[n] = IF IsDataOf(a, s, n) THEN Append(DataUpTo(a, s)[n - 1], n)
                                     ELSE DataUpTo(a, s)[n - 1]
<1> DEFINE d == CHOOSE d : Lists(a, s, d, Len(a))
<1>1. Lists(a, s, d, Len(a))
  BY ListsExist, Zenon
<1>2. DataUpTo(a, s) = d
  BY Zenon DEF DataUpTo, Lists
<1> HIDE DEF d
<1>3. d[0] = <<>>
  BY <1>1 DEF Lists
<1>4. ASSUME NEW n \in 1 .. Len(a)
      PROVE  d[n] = IF IsDataOf(a, s, n) THEN Append(d[n - 1], n) ELSE d[n - 1]
  <2>1. n \in 0 .. Len(a) /\ n # 0
    OBVIOUS
  <2> QED BY <1>1, <2>1 DEF Lists
<1> QED BY <1>2, <1>3, <1>4

\* Between two data records the list does not change.
LEMMA DataSame ==
    ASSUME NEW a, NEW s, Len(a) \in Nat, NEW i \in 0 .. Len(a), NEW j \in i .. Len(a),
           \A n \in i + 1 .. j : ~IsDataOf(a, s, n)
    PROVE  DataUpTo(a, s)[j] = DataUpTo(a, s)[i]
<1> DEFINE S == {n \in Nat : DataUpTo(a, s)[i + n] = DataUpTo(a, s)[i]}
<1>1. 0 \in S
  OBVIOUS
<1>2. ASSUME NEW n \in 0 .. (j - i) - 1, n \in S PROVE n + 1 \in S
  <2>1. i + (n + 1) \in 1 .. Len(a) /\ i + (n + 1) \in i + 1 .. j /\ (i + (n + 1)) - 1 = i + n
    OBVIOUS
  <2>2. DataUpTo(a, s)[i + (n + 1)] = DataUpTo(a, s)[i + n]
    BY <2>1, DataStep
  <2> QED BY <1>2, <2>2
<1>3. j - i \in Nat /\ i + (j - i) = j
  OBVIOUS
<1> HIDE DEF S
<1>4. 0 .. j - i \subseteq S
  BY <1>1, <1>2, <1>3, InductionUpTo
<1>5. j - i \in S
  BY <1>3, <1>4
<1> QED BY <1>3, <1>5 DEF S

\* The list is of records.
LEMMA DataType ==
    ASSUME NEW a, NEW s, Len(a) \in Nat, NEW n \in 0 .. Len(a)
    PROVE  DataUpTo(a, s)[n] \in Seq(1 .. Len(a))
<1> DEFINE S == {m \in Nat : DataUpTo(a, s)[m] \in Seq(1 .. Len(a))}
<1>1. 0 \in S
  <2>1. DataUpTo(a, s)[0] = <<>>
    BY DataStep
  <2>2. DataUpTo(a, s)[0] \in Seq(1 .. Len(a))
    BY <2>1
  <2> QED BY <2>2
<1>2. ASSUME NEW m \in 0 .. n - 1, m \in S PROVE m + 1 \in S
  <2>1. m + 1 \in 1 .. Len(a) /\ (m + 1) - 1 = m
    OBVIOUS
  <2>2. PICK k \in 1 .. Len(a) : k = m + 1 /\ k - 1 = m
    BY <2>1
  <2>5. DataUpTo(a, s)[k] = IF IsDataOf(a, s, k) THEN Append(DataUpTo(a, s)[k - 1], k)
                            ELSE DataUpTo(a, s)[k - 1]
    BY DataStep
  <2>3. DataUpTo(a, s)[m] \in Seq(1 .. Len(a))
    BY <1>2
  <2>4. Append(DataUpTo(a, s)[m], k) \in Seq(1 .. Len(a))
    BY <2>3
  <2>6. DataUpTo(a, s)[k] \in Seq(1 .. Len(a))
    BY <2>2, <2>3, <2>4, <2>5
  <2> QED BY <2>2, <2>6
<1> HIDE DEF S
<1>3. 0 .. n \subseteq S
  BY <1>1, <1>2, InductionUpTo
<1> QED BY <1>3 DEF S

\* The first of a queue is not in the sum of the others.
LEMMA SumTail ==
    ASSUME NEW sizes, NEW others, NEW i \in Nat \ {0}, \A k \in 1 .. i : sizes[k] \in Nat,
           \A k \in 1 .. i - 1 : others[k] = sizes[k + 1]
    PROVE  SumBefore(sizes, i + 1) = sizes[1] + SumBefore(others, i)
<1> DEFINE S == {n \in Nat : SumBefore(sizes, (n + 1) + 1) = sizes[1] + SumBefore(others, n + 1)}
<1>1. 0 \in S
  <2>1. SumBefore(sizes, 1 + 1) = SumBefore(sizes, 1) + sizes[1]
    BY SumStep
  <2>2. SumBefore(sizes, 1) = 0 /\ SumBefore(others, 1) = 0
    BY SumNone
  <2>3. sizes[1] \in Nat
    OBVIOUS
  <2> QED BY <2>1, <2>2, <2>3
<1>2. ASSUME NEW n \in 0 .. (i - 1) - 1, n \in S PROVE n + 1 \in S
  <2>1. n + 1 \in 1 .. i - 1 /\ (n + 1) + 1 \in 1 .. i
    OBVIOUS
  <2>2. SumBefore(sizes, ((n + 1) + 1) + 1) = SumBefore(sizes, (n + 1) + 1) + sizes[(n + 1) + 1]
    BY <2>1, SumStep
  <2>3. SumBefore(others, (n + 1) + 1) = SumBefore(others, n + 1) + others[n + 1]
    BY <2>1, SumStep
  <2>4. others[n + 1] = sizes[(n + 1) + 1] /\ sizes[(n + 1) + 1] \in Nat
    BY <2>1
  <2>5. SumBefore(others, n + 1) \in Nat
    <3>1. \A k \in 1 .. (n + 1) - 1 : others[k] \in Nat
      BY <2>1
    <3> QED BY <2>1, <3>1, SumType
  <2>6. sizes[1] \in Nat
    OBVIOUS
  <2>7. SumBefore(sizes, (n + 1) + 1) = sizes[1] + SumBefore(others, n + 1)
    BY <1>2
  <2> QED BY <2>2, <2>3, <2>4, <2>5, <2>6, <2>7
<1>3. i - 1 \in Nat /\ (i - 1) + 1 = i
  OBVIOUS
<1> HIDE DEF S
<1>4. 0 .. i - 1 \subseteq S
  BY <1>1, <1>2, <1>3, InductionUpTo
<1>5. i - 1 \in S
  BY <1>3, <1>4
<1> QED BY <1>3, <1>5 DEF S
-----------------------------------------------------------------------------
(* What a step leaves alone *)

\* Whether a record is damaged does not change.
LEMMA DamagedKept ==
    ASSUME archive' = archive
    PROVE  \A i : Damaged(i)' <=> Damaged(i)
BY DEF Damaged

\* A queue nobody touches.
LEMMA QueueKept ==
    ASSUME NEW s \in LiveStreams, Queue(s), UNCHANGED <<archive, next>>,
           piece'[s] = piece[s], q'[s] = q[s], queued'[s] = queued[s],
           state'[s] \in {"running", "ok"} => state[s] \in {"running", "ok"}
    PROVE  Queue(s)'
<1>1. Sized(s)' = Sized(s)
  BY DEF Sized
<1> QED BY <1>1 DEF Queue

\* A check nobody touches.
LEMMA FollowsKept ==
    ASSUME NEW s \in LiveStreams, Follows(s), archive' = archive, cpc'[s] = cpc[s],
           piece'[s] = piece[s], q'[s] = q[s], state'[s] = state[s], stop'[s] = stop[s],
           built'[s] = built[s], decoded'[s] = decoded[s], done[s] => done'[s], done'[s] \in BOOLEAN
    PROVE  Follows(s)'
<1>1. Point(s)' = Point(s)
  BY DEF Point
<1>2. Seen(s)' = Seen(s)
  BY <1>1 DEF Seen
<1> QED BY <1>1, <1>2, DamagedKept DEF Follows

\* A step of the writer that hands nothing over.
LEMMA WriterKeeps ==
    ASSUME LiveInv, UNCHANGED <<archive, next, q, queued, done, stop, cpc, piece, built, state, decoded>>,
           LiveTypeOK', Stages', Buffered', Judgement'
    PROVE  LiveInv'
<1>1. ASSUME NEW s \in LiveStreams PROVE Queue(s)' /\ Follows(s)'
  <2>1. Queue(s) /\ Follows(s) /\ done[s] \in BOOLEAN
    BY DEF LiveInv, LiveTypeOK
  <2>2. Queue(s)'
    BY <2>1, QueueKept
  <2>3. Follows(s)'
    BY <2>1, FollowsKept
  <2> QED BY <2>2, <2>3
<1> QED BY <1>1 DEF LiveInv

\* The verdict, if the step does not touch it and the checks that were waited for stay.
LEMMA JudgementKept ==
    ASSUME Judgement, UNCHANGED <<archive, verdict, after, wk>>, Writing' <=> Writing,
           \A s \in LiveStreams : s < wk => state'[s] = state[s] /\ decoded'[s] = decoded[s]
    PROVE  Judgement'
<1>1. \A s \in LiveStreams : DataOf(s)' = DataOf(s)
  BY DEF DataOf
<1> QED BY <1>1, DamagedKept DEF Judgement

\* A step of check s.
LEMMA CheckKeeps ==
    ASSUME LiveAssumption, LiveInv, NEW s \in LiveStreams,
           UNCHANGED <<archive, left, have, next, demuxBad, outBad, wpc, wk, verdict, after, done>>,
           wAsleep' => wAsleep, LiveTypeOK', Queue(s)', Follows(s)',
           cpc[s] = "exit" => cpc'[s] = "exit" /\ state'[s] = state[s] /\ decoded'[s] = decoded[s],
           \A u \in LiveStreams \ {s} :
               /\ q'[u] = q[u] /\ queued'[u] = queued[u] /\ stop'[u] = stop[u]
               /\ cpc'[u] = cpc[u] /\ piece'[u] = piece[u] /\ built'[u] = built[u]
               /\ state'[u] = state[u] /\ decoded'[u] = decoded[u]
    PROVE  LiveInv'
<1>1. ASSUME NEW u \in LiveStreams, u # s PROVE Queue(u)' /\ Follows(u)'
  <2>1. Queue(u) /\ Follows(u) /\ done[u] \in BOOLEAN /\ done'[u] = done[u]
    BY DEF LiveInv, LiveTypeOK
  <2>2. Queue(u)'
    BY <1>1, <2>1, QueueKept
  <2>3. Follows(u)'
    BY <1>1, <2>1, FollowsKept
  <2> QED BY <2>2, <2>3
<1>2. Writing' <=> Writing
  BY DEF Writing
<1>3. Stages'
  BY <1>2 DEF LiveInv, Stages
<1>4. Buffered'
  <2>1. Buffered /\ Lengths' = Lengths /\ RecordReady' = RecordReady
    BY DEF LiveInv, Lengths, RecordReady
  <2> QED BY <1>2, <2>1 DEF Buffered
<1>5. Judgement'
  <2>1. \A u \in LiveStreams : u < wk => state'[u] = state[u] /\ decoded'[u] = decoded[u]
    BY DEF LiveInv, Stages
  <2> QED BY <1>2, <2>1, JudgementKept DEF LiveInv
<1> QED BY <1>1, <1>3, <1>4, <1>5 DEF LiveInv

-----------------------------------------------------------------------------
(* The writer *)

\* A record is ready again after every step that changes nothing of the demux.
LEMMA ReadyKept ==
    ASSUME UNCHANGED <<archive, next, demuxBad, have>>
    PROVE  RecordReady' <=> RecordReady
BY DEF RecordReady

\* More bytes go to the file and to the demux.
LEMMA WriteInv == ASSUME LiveAssumption, LiveInv, NEW n \in 1 .. left, WriteBytes(n) PROVE LiveInv'
<1>1. LiveTypeOK /\ Stages /\ Buffered /\ Judgement
  BY DEF LiveInv
<1>2. left \in Nat /\ have \in Nat /\ left - n \in Nat /\ have + n \in Nat
      /\ (have + n) + (left - n) = have + left
  BY <1>1 DEF LiveTypeOK
<1>3. LiveTypeOK'
  BY <1>1, <1>2 DEF LiveTypeOK, WriteBytes, cvars
<1>4. Writing /\ Writing'
  BY DEF WriteBytes, Writing
<1>5. Stages'
  BY <1>1, <1>4 DEF Stages, WriteBytes, cvars
<1>6. Buffered'
  <2>1. Lengths' = Lengths /\ ArchiveBytes(archive)' = ArchiveBytes(archive)
    BY DEF WriteBytes, Lengths
  <2>2. have' + left' = have + left
    BY <1>2 DEF WriteBytes
  <2> QED BY <1>1, <1>4, <2>1, <2>2 DEF Buffered, WriteBytes
<1>7. Judgement'
  BY <1>1, <1>4, JudgementKept DEF WriteBytes, cvars
<1> QED BY <1>3, <1>5, <1>6, <1>7, WriterKeeps DEF WriteBytes, cvars

\* The stream fails.
LEMMA WriteFailsInv == ASSUME LiveAssumption, LiveInv, OutputFails PROVE LiveInv'
<1>1. LiveTypeOK /\ Stages /\ Buffered /\ Judgement
  BY DEF LiveInv
<1>2. LiveTypeOK'
  BY <1>1 DEF LiveTypeOK, OutputFails, cvars
<1>3. Writing /\ Writing'
  BY DEF OutputFails, Writing
<1>4. Stages'
  BY <1>1, <1>3 DEF Stages, OutputFails, cvars
<1>5. Buffered'
  <2>1. Lengths' = Lengths /\ ArchiveBytes(archive)' = ArchiveBytes(archive)
    BY DEF OutputFails, Lengths
  <2> QED BY <1>1, <1>3, <2>1 DEF Buffered, OutputFails
<1>6. Judgement'
  BY <1>1, <1>3, JudgementKept DEF OutputFails, cvars
<1> QED BY <1>2, <1>4, <1>5, <1>6, WriterKeeps DEF OutputFails, cvars

\* All that was written has been followed, or a record cannot be.
LEMMA NothingLeft ==
    ASSUME LiveAssumption, LiveTypeOK, Buffered, wpc = "write", left = 0, ~outBad
    PROVE  have # 0 \/ demuxBad => \E i \in 1 .. Len(archive) : Damaged(i)
<1>1. have \in Nat /\ next \in 1 .. Len(archive) + 1 /\ archive \in Archives /\ demuxBad \in BOOLEAN
  BY DEF LiveTypeOK
<1>2. Len(archive) \in Nat
  BY <1>1, RecordFacts
<1>3. CASE demuxBad
  BY <1>1, <1>2, <1>3 DEF Buffered, Damaged
<1>4. CASE ~demuxBad /\ have # 0
  <2>1. /\ SumBefore(Lengths, next) \in Nat /\ ArchiveBytes(archive) \in Nat
        /\ ArchiveBytes(archive) = SumBefore(Lengths, Len(archive) + 1)
        /\ next <= Len(archive) => SumBefore(Lengths, next) + archive[next].len <= ArchiveBytes(archive)
    BY <1>1, BytesFacts
  <2>2. have + SumBefore(Lengths, next) = ArchiveBytes(archive)
    BY <1>1, <2>1 DEF Buffered
  <2>3. next <= Len(archive)
    <3>1. next # Len(archive) + 1
      BY <1>1, <1>4, <2>1, <2>2
    <3> QED BY <1>1, <1>2, <3>1
  <2>4. archive[next].len \in Nat
    BY <1>1, <1>2, <2>3, RecordFacts
  <2>5. have >= archive[next].len
    BY <1>1, <2>1, <2>2, <2>3, <2>4
  <2>6. archive[next].kind \in {"garbled", "cut"}
    BY <1>4, <2>3, <2>5 DEF Buffered, RecordReady
  <2> QED BY <1>1, <1>2, <2>3, <2>6 DEF Damaged
<1> QED BY <1>1, <1>3, <1>4

\* The archive is written, or nothing more can be.
LEMMA WriteEndInv == ASSUME LiveAssumption, LiveInv, WriteEnd PROVE LiveInv'
<1>1. LiveTypeOK /\ Stages /\ Buffered /\ Judgement
  BY DEF LiveInv
<1>2. LiveTypeOK'
  BY <1>1 DEF LiveTypeOK, WriteEnd, cvars
<1>3. Writing /\ ~Writing' /\ wk = 0
  BY <1>1 DEF WriteEnd, Writing, Stages
<1>4. Stages'
  BY <1>1, <1>3 DEF Stages, WriteEnd, cvars
<1>5. Buffered'
  <2>1. Lengths' = Lengths /\ ArchiveBytes(archive)' = ArchiveBytes(archive)
    BY DEF WriteEnd, Lengths
  <2>2. verdict' = "ok" => left = 0 /\ have = 0 /\ ~outBad
    BY DEF WriteEnd
  <2> QED BY <1>1, <1>3, <2>1, <2>2 DEF Buffered, WriteEnd
<1>6. Judgement'
  <2>1. \A s \in LiveStreams : ~(s < wk)
    BY <1>3 DEF LiveStreams
  <2>2. verdict' = "failed" => left = 0 /\ ~outBad /\ (have # 0 \/ demuxBad)
    BY DEF WriteEnd
  <2>3. verdict' = "failed" => \E i \in 1 .. Len(archive) : Damaged(i)
    BY <1>1, <2>2, NothingLeft DEF WriteEnd
  <2>4. archive' = archive /\ wk' = wk
    BY DEF WriteEnd
  <2> QED BY <2>1, <2>3, <2>4, DamagedKept DEF Judgement
<1> QED BY <1>2, <1>4, <1>5, <1>6, WriterKeeps DEF WriteEnd, cvars

\* A record is found.
LEMMA RouteRecordInv == ASSUME LiveAssumption, LiveInv, RouteRecord PROVE LiveInv'
<1>1. LiveTypeOK /\ Stages /\ Buffered /\ Judgement
  BY DEF LiveInv
<1>2. LiveTypeOK'
  BY <1>1 DEF LiveTypeOK, RouteRecord, cvars
<1>3. Writing /\ Writing'
  BY DEF RouteRecord, Writing
<1>4. Stages'
  BY <1>1, <1>3 DEF Stages, RouteRecord, cvars
<1>5. Buffered'
  <2>1. Lengths' = Lengths /\ ArchiveBytes(archive)' = ArchiveBytes(archive) /\ RecordReady'
    BY DEF RouteRecord, Lengths, RecordReady
  <2> QED BY <1>1, <1>3, <2>1 DEF Buffered, RouteRecord
<1>6. Judgement'
  BY <1>1, <1>3, JudgementKept DEF RouteRecord, cvars
<1> QED BY <1>2, <1>4, <1>5, <1>6, WriterKeeps DEF RouteRecord, cvars

\* None is.
LEMMA RouteDoneInv == ASSUME LiveAssumption, LiveInv, RouteDone PROVE LiveInv'
<1>1. LiveTypeOK /\ Stages /\ Buffered /\ Judgement
  BY DEF LiveInv
<1>2. LiveTypeOK'
  BY <1>1 DEF LiveTypeOK, RouteDone, cvars
<1>3. Writing /\ Writing'
  BY DEF RouteDone, Writing
<1>4. Stages'
  BY <1>1, <1>3 DEF Stages, RouteDone, cvars
<1>5. Buffered'
  <2>1. Lengths' = Lengths /\ ArchiveBytes(archive)' = ArchiveBytes(archive) /\ ~RecordReady'
    BY DEF RouteDone, Lengths, RecordReady
  <2>2. demuxBad' => next <= Len(archive) /\ archive[next].kind = "garbled"
    BY <1>1 DEF Buffered, RouteDone
  <2> QED BY <1>1, <1>3, <2>1, <2>2 DEF Buffered, RouteDone
<1>6. Judgement'
  BY <1>1, <1>3, JudgementKept DEF RouteDone, cvars
<1> QED BY <1>2, <1>4, <1>5, <1>6, WriterKeeps DEF RouteDone, cvars

\* The writer waits for room, or is through waiting.
LEMMA FeedSleepInv == ASSUME LiveAssumption, LiveInv, FeedSleep \/ WriterWakes PROVE LiveInv'
<1>1. LiveTypeOK /\ Stages /\ Buffered /\ Judgement
  BY DEF LiveInv
<1>2. /\ UNCHANGED <<archive, left, have, next, demuxBad, outBad, wpc, wk, verdict, after,
                     q, queued, done, stop, cpc, cAsleep, piece, built, state, decoded>>
      /\ wAsleep' \in BOOLEAN /\ (wAsleep' => wpc = "feed")
  BY <1>1 DEF FeedSleep, WriterWakes, Stages, cvars
<1>3. LiveTypeOK'
  BY <1>1, <1>2 DEF LiveTypeOK
<1>4. Writing' <=> Writing
  BY <1>2 DEF Writing
<1>5. Stages'
  BY <1>1, <1>2, <1>4 DEF Stages
<1>6. Buffered'
  <2>1. Lengths' = Lengths /\ ArchiveBytes(archive)' = ArchiveBytes(archive) /\ RecordReady' = RecordReady
    BY <1>2 DEF Lengths, RecordReady
  <2> QED BY <1>1, <1>2, <1>4, <2>1 DEF Buffered
<1>7. Judgement'
  BY <1>1, <1>2, <1>4, JudgementKept
<1> QED BY <1>2, <1>3, <1>5, <1>6, <1>7, WriterKeeps

\* A record leaves the demux.
LEMMA RoutedBuffer ==
    ASSUME LiveAssumption, LiveInv, wpc = "feed", Routed(Target)
    PROVE  /\ Buffered' /\ have' \in Nat /\ next' \in 1 .. Len(archive) + 1
           /\ next \in 1 .. Len(archive) /\ Target \in LiveStreams
           /\ archive[next].len \in Nat \ {0}
<1>1. LiveTypeOK /\ Buffered /\ archive \in Archives /\ next \in 1 .. Len(archive) + 1
  BY DEF LiveInv, LiveTypeOK
<1>2. RecordReady
  BY <1>1 DEF Buffered
<1>3. /\ Len(archive) \in Nat /\ next \in 1 .. Len(archive)
      /\ archive[next].kind \notin {"garbled", "cut"} /\ have >= archive[next].len /\ ~demuxBad
  BY <1>1, <1>2, RecordFacts DEF RecordReady
<1>4. archive[next].len \in Nat \ {0} /\ Target \in LiveStreams /\ have \in Nat /\ left \in Nat
  BY <1>1, <1>3, RecordFacts DEF Target, LiveTypeOK
<1>5. /\ SumBefore(Lengths, next + 1) = SumBefore(Lengths, next) + archive[next].len
      /\ SumBefore(Lengths, next) \in Nat /\ ArchiveBytes(archive) \in Nat
  BY <1>1, <1>3, BytesFacts
<1>6. /\ archive' = archive /\ Lengths' = Lengths /\ ArchiveBytes(archive)' = ArchiveBytes(archive)
      /\ have' = have - archive[next].len /\ left' = left /\ next' = next + 1 /\ wpc' = "route"
      /\ demuxBad' = demuxBad
  BY DEF Routed, Lengths
<1>7. have + left + SumBefore(Lengths, next) = ArchiveBytes(archive)
  BY <1>1 DEF Buffered
<1>8. have' + left' + SumBefore(Lengths, next)' = ArchiveBytes(archive)'
  BY <1>3, <1>4, <1>5, <1>6, <1>7
<1>9. \A i \in 1 .. next' - 1 : archive'[i].kind \notin {"garbled", "cut"}
  BY <1>1, <1>3, <1>6 DEF Buffered
<1>10. Buffered'
  BY <1>3, <1>6, <1>8, <1>9 DEF Buffered, Writing
<1> QED BY <1>3, <1>4, <1>6, <1>10

\* The stages after a record was handed over.
LEMMA RoutedStages ==
    ASSUME LiveInv, wpc = "feed", ~wAsleep, Routed(Target), UNCHANGED <<cpc, state, decoded>>
    PROVE  Stages' /\ Judgement'
<1>1. Stages /\ Judgement
  BY DEF LiveInv
<1>2. Writing /\ Writing'
  BY DEF Routed, Writing
<1>3. Stages'
  BY <1>1, <1>2 DEF Stages, Routed
<1>4. Judgement'
  BY <1>1, <1>2, JudgementKept DEF Routed
<1> QED BY <1>3, <1>4

\* A queue that gets nothing of the record that is handed over.
LEMMA QueueOfOthers ==
    ASSUME LiveAssumption, LiveInv, wpc = "feed", Routed(Target), NEW u \in LiveStreams,
           u # Target \/ state[u] \notin {"running", "ok"},
           q'[u] = q[u], queued'[u] = queued[u], piece'[u] = piece[u], state'[u] = state[u]
    PROVE  Queue(u)'
<1>1. Queue(u) /\ LiveTypeOK
  BY DEF LiveInv
<1>2. /\ archive' = archive /\ next' = next + 1 /\ Sized(u)' = Sized(u)
      /\ archive[next].stream = Target
  BY DEF Routed, Sized, Target
<1>3. next \in Nat /\ piece[u] \in Nat /\ q[u] \in Seq(Nat)
  <2>1. /\ next \in 1 .. Len(archive) + 1 /\ piece[u] \in 0 .. Len(archive)
        /\ q[u] \in Seq(1 .. Len(archive)) /\ Len(archive) \in Nat
    BY <1>1, RecordFacts DEF LiveTypeOK
  <2>2. 1 .. Len(archive) \subseteq Nat
    BY <2>1
  <2>3. q[u] \in Seq(Nat)
    BY <2>1, <2>2
  <2> QED BY <2>1, <2>3
<1>4. \A a \in DOMAIN q[u] : q[u][a] \in Nat
  BY <1>3
<1>5. /\ piece'[u] < next' /\ (piece'[u] # 0 => archive'[piece'[u]].stream = u)
      /\ \A a \in DOMAIN q'[u] : /\ q'[u][a] > piece'[u] /\ q'[u][a] < next'
                                 /\ archive'[q'[u][a]].stream = u
                                 /\ \A b \in DOMAIN q'[u] : a < b => q'[u][a] < q'[u][b]
  BY <1>1, <1>2, <1>3, <1>4 DEF Queue
<1>6. state'[u] \in {"running", "ok"} =>
        \A i \in 1 .. next' - 1 :
            archive'[i].stream = u /\ i > piece'[u] => \E a \in DOMAIN q'[u] : q'[u][a] = i
  BY <1>1, <1>2, <1>3 DEF Queue
<1> QED BY <1>1, <1>2, <1>5, <1>6 DEF Queue

\* A record is put into the queue of its stream.
LEMMA FeedPushInv == ASSUME LiveAssumption, LiveInv, FeedPush PROVE LiveInv'
<1>1. LiveTypeOK /\ Stages /\ Buffered /\ Judgement
  BY DEF LiveInv
<1>2. wpc = "feed" /\ ~wAsleep /\ Routed(Target)
  BY DEF FeedPush
<1>3. /\ Buffered' /\ have' \in Nat /\ next' \in 1 .. Len(archive) + 1
      /\ next \in 1 .. Len(archive) /\ Target \in LiveStreams /\ archive[next].len \in Nat \ {0}
  BY <1>2, RoutedBuffer
<1>0. PICK s \in LiveStreams : s = Target
  BY <1>3
<1>4. /\ q' = [q EXCEPT ![s] = Append(@, next)]
      /\ queued' = [queued EXCEPT ![s] = @ + archive[next].len]
      /\ cAsleep' = [cAsleep EXCEPT ![s] = FALSE]
      /\ UNCHANGED <<cpc, piece, built, state, decoded>>
  BY <1>0 DEF FeedPush
<1>5. /\ UNCHANGED <<archive, left, demuxBad, outBad, wAsleep, wk, verdict, after, done, stop>>
      /\ wpc' = "route" /\ next' = next + 1
  BY <1>2 DEF Routed
<1>6. Stages' /\ Judgement'
  BY <1>2, <1>4, RoutedStages
<1>7. archive[next].stream = s
  BY <1>0 DEF Target
<1>8. /\ q[s] \in Seq(1 .. Len(archive)) /\ queued[s] \in Nat /\ Len(archive) \in Nat
      /\ Append(q[s], next) \in Seq(1 .. Len(archive))
  BY <1>1, <1>3, RecordFacts DEF LiveTypeOK
<1>9. LiveTypeOK'
  <2>1. q' \in [LiveStreams -> Seq(1 .. Len(archive))]
    <3>1. q \in [LiveStreams -> Seq(1 .. Len(archive))]
      BY <1>1 DEF LiveTypeOK
    <3>2. q' = [q EXCEPT ![s] = Append(q[s], next)]
      BY <1>4
    <3> QED BY ONLY <1>8, <3>1, <3>2
  <2>2. queued' \in [LiveStreams -> Nat]
    <3>1. queued \in [LiveStreams -> Nat]
      BY <1>1 DEF LiveTypeOK
    <3>2. queued' = [queued EXCEPT ![s] = queued[s] + archive[next].len]
      BY <1>4
    <3>3. queued[s] + archive[next].len \in Nat
      BY <1>3, <1>8
    <3> QED BY ONLY <3>1, <3>2, <3>3
  <2>3. cAsleep' \in [LiveStreams -> BOOLEAN]
    BY <1>1, <1>3, <1>4 DEF LiveTypeOK
  <2> QED BY <1>1, <1>3, <1>4, <1>5, <2>1, <2>2, <2>3 DEF LiveTypeOK
<1>10. Queue(s)'
  <2> DEFINE n == Len(q[s])
             t == Append(q[s], next)
  <2>1. /\ q'[s] = t /\ piece'[s] = piece[s] /\ state'[s] = state[s]
        /\ queued'[s] = queued[s] + archive[next].len
    BY <1>1, <1>3, <1>4 DEF LiveTypeOK
  <2>2. /\ n \in Nat /\ Len(t) = n + 1 /\ DOMAIN t = 1 .. n + 1 /\ DOMAIN q[s] = 1 .. n
        /\ t[n + 1] = next /\ \A a \in 1 .. n : t[a] = q[s][a] /\ q[s][a] \in 1 .. Len(archive)
    BY <1>3, <1>8
  <2>3. Queue(s) /\ piece[s] \in 0 .. Len(archive)
    BY <1>1, <1>3 DEF LiveInv, LiveTypeOK
  <2> HIDE DEF t, n
  <2>4. ASSUME NEW a \in 1 .. n + 1
        PROVE  /\ t[a] > piece[s] /\ t[a] < next + 1 /\ archive[t[a]].stream = s
               /\ \A b \in 1 .. n + 1 : a < b => t[a] < t[b]
    <3>1. CASE a = n + 1
      BY <1>3, <1>7, <2>2, <2>3, <3>1 DEF Queue
    <3>2. CASE a # n + 1
      <4>1. a \in 1 .. n
        BY <2>2, <3>2
      <4>2. q[s][a] > piece[s] /\ q[s][a] < next /\ archive[q[s][a]].stream = s
            /\ \A b \in 1 .. n : a < b => q[s][a] < q[s][b]
        BY <2>2, <2>3, <4>1 DEF Queue
      <4>3. \A b \in 1 .. n + 1 : a < b => t[a] < t[b]
        <5>1. ASSUME NEW b \in 1 .. n + 1, a < b PROVE t[a] < t[b]
          <6>1. b \in 1 .. n \/ b = n + 1
            BY <2>2, <5>1
          <6> QED BY <2>2, <4>1, <4>2, <5>1, <6>1
        <5> QED BY <5>1
      <4> QED BY <1>3, <2>2, <4>1, <4>2, <4>3
    <3> QED BY <3>1, <3>2
  <2>5. state[s] \in {"running", "ok"} =>
          \A i \in 1 .. (next + 1) - 1 :
              archive[i].stream = s /\ i > piece[s] => \E a \in 1 .. n + 1 : t[a] = i
    <3>1. SUFFICES ASSUME state[s] \in {"running", "ok"}, NEW i \in 1 .. (next + 1) - 1,
                          archive[i].stream = s, i > piece[s]
                   PROVE  \E a \in 1 .. n + 1 : t[a] = i
      OBVIOUS
    <3>2. CASE i = next
      <4>1. n + 1 \in 1 .. n + 1
        BY <2>2
      <4> QED BY <2>2, <3>2, <4>1
    <3>3. CASE i # next
      <4>1. i \in 1 .. next - 1
        BY <1>3, <1>8, <3>3
      <4>2. PICK a \in 1 .. n : q[s][a] = i
        BY <2>2, <2>3, <3>1, <4>1 DEF Queue
      <4> QED BY <2>2, <4>2
    <3> QED BY <3>2, <3>3
  <2>6. queued'[s] = SumBefore(Sized(s)', Len(t) + 1)
    <3> DEFINE f == Sized(s)
               g == Sized(s)'
    <3>1. g = [a \in DOMAIN t |-> archive[t[a]].len] /\ f = [a \in DOMAIN q[s] |-> archive[q[s][a]].len]
      BY <1>5, <2>1 DEF Sized
    <3>2. \A a \in 1 .. n : g[a] = f[a]
      BY <2>2, <3>1
    <3>3. g[n + 1] = archive[next].len
      BY <2>2, <3>1
    <3>4. queued[s] = SumBefore(f, n + 1)
      BY <2>3 DEF Queue, n
    <3> HIDE DEF f, g
    <3>5. PICK m \in Nat \ {0} : m = n + 1
      BY <2>2
    <3>6. \A k \in 1 .. m - 1 : f[k] = g[k]
      BY <2>2, <3>2, <3>5
    <3>7. SumBefore(f, m) = SumBefore(g, m)
      BY <3>6, SumSame
    <3>8. SumBefore(g, m + 1) = SumBefore(g, m) + g[m]
      BY SumStep
    <3>9. queued'[s] = SumBefore(g, Len(t) + 1)
      BY <2>1, <2>2, <3>3, <3>4, <3>5, <3>7, <3>8
    <3> QED BY <3>9 DEF g
  <2>7. piece[s] < next + 1 /\ (piece[s] # 0 => archive[piece[s]].stream = s)
    BY <1>3, <2>3 DEF Queue
  <2> QED BY <1>5, <2>1, <2>2, <2>4, <2>5, <2>6, <2>7 DEF Queue
<1>11. ASSUME NEW u \in LiveStreams, u # s PROVE Queue(u)'
  <2>1. q'[u] = q[u] /\ queued'[u] = queued[u] /\ piece'[u] = piece[u] /\ state'[u] = state[u]
    BY <1>1, <1>4, <1>11 DEF LiveTypeOK
  <2> QED BY <1>0, <1>2, <1>11, <2>1, QueueOfOthers
<1>12. ASSUME NEW u \in LiveStreams PROVE Follows(u)'
  <2>1. Follows(u) /\ ~done[u]
    BY <1>1, <1>2 DEF LiveInv, Stages, Writing
  <2>2. done' = done /\ cpc' = cpc /\ cpc[u] # "exit"
    BY <1>4, <1>5, <2>1 DEF Follows
  <2>3. Point(u)' = Point(u) /\ Seen(u)' = Seen(u)
    BY <1>4, <1>5 DEF Point, Seen
  <2> QED BY <1>4, <1>5, <2>1, <2>2, <2>3, DamagedKept DEF Follows
<1> QED BY <1>3, <1>6, <1>9, <1>10, <1>11, <1>12 DEF LiveInv

\* A check that has given up gets nothing any more.
LEMMA FeedDropInv == ASSUME LiveAssumption, LiveInv, FeedDrop PROVE LiveInv'
<1>1. LiveTypeOK
  BY DEF LiveInv
<1>2. /\ wpc = "feed" /\ ~wAsleep /\ stop[Target] /\ Routed(Target)
      /\ UNCHANGED <<q, queued, cpc, cAsleep, piece, built, state, decoded>>
  BY DEF FeedDrop, cvars
<1>3. /\ Buffered' /\ have' \in Nat /\ next' \in 1 .. Len(archive) + 1 /\ Target \in LiveStreams
  BY <1>2, RoutedBuffer
<1>4. Stages' /\ Judgement'
  BY <1>2, RoutedStages
<1>5. LiveTypeOK'
  BY <1>1, <1>2, <1>3 DEF LiveTypeOK, Routed
<1>6. ASSUME NEW u \in LiveStreams PROVE Queue(u)'
  <2>1. Follows(u) /\ (u = Target => state[u] \notin {"running", "ok"})
    BY <1>2 DEF LiveInv, Follows
  <2> QED BY <1>2, <2>1, QueueOfOthers
<1>7. ASSUME NEW u \in LiveStreams PROVE Follows(u)'
  <2>1. Follows(u) /\ done[u] \in BOOLEAN
    BY <1>1 DEF LiveInv, LiveTypeOK
  <2> QED BY <1>2, <2>1, FollowsKept DEF Routed
<1> QED BY <1>3, <1>4, <1>5, <1>6, <1>7 DEF LiveInv

\* A check is told that nothing more comes.
LEMMA WaitSetDoneInv == ASSUME LiveAssumption, LiveInv, WaitSetDone PROVE LiveInv'
<1>1. LiveTypeOK /\ Stages /\ Buffered /\ Judgement
  BY DEF LiveInv
<1>2. /\ UNCHANGED <<archive, left, have, next, demuxBad, outBad, wAsleep, wk, verdict, after,
                     q, queued, stop, cpc, cAsleep, piece, built, state, decoded>>
      /\ wpc = "setdone" /\ wk < Workers /\ wpc' = "notify"
      /\ done' = [done EXCEPT ![wk] = TRUE]
  BY DEF WaitSetDone, cvars
<1>3. done' \in [LiveStreams -> BOOLEAN] /\ \A s \in LiveStreams : done[s] => done'[s]
  BY <1>1, <1>2 DEF LiveTypeOK
<1>4. LiveTypeOK'
  BY <1>1, <1>2, <1>3 DEF LiveTypeOK
<1>5. ~Writing /\ ~Writing'
  BY <1>2 DEF Writing
<1>6. Stages'
  BY <1>1, <1>2, <1>5 DEF Stages
<1>7. Buffered'
  <2>1. Lengths' = Lengths /\ ArchiveBytes(archive)' = ArchiveBytes(archive)
    BY <1>2 DEF Lengths
  <2> QED BY <1>1, <1>2, <1>5, <2>1 DEF Buffered
<1>8. Judgement'
  BY <1>1, <1>2, <1>5, JudgementKept
<1>9. ASSUME NEW s \in LiveStreams PROVE Queue(s)' /\ Follows(s)'
  <2>1. Queue(s) /\ Follows(s) /\ done'[s] \in BOOLEAN /\ (done[s] => done'[s])
    BY <1>3 DEF LiveInv
  <2>2. Queue(s)'
    BY <1>2, <2>1, QueueKept
  <2>3. Follows(s)'
    BY <1>2, <2>1, FollowsKept
  <2> QED BY <2>2, <2>3
<1> QED BY <1>4, <1>6, <1>7, <1>8, <1>9 DEF LiveInv

\* It is woken; or the last one was waited for.
LEMMA WaitNotifyInv == ASSUME LiveAssumption, LiveInv, WaitNotify \/ WriterEnd PROVE LiveInv'
<1>1. LiveTypeOK /\ Stages /\ Buffered /\ Judgement
  BY DEF LiveInv
<1>2. /\ UNCHANGED <<archive, left, have, next, demuxBad, outBad, wAsleep, wk, verdict, after,
                     q, queued, done, stop, cpc, piece, built, state, decoded>>
      /\ \/ wpc = "notify" /\ wpc' = "join" /\ cAsleep' = [cAsleep EXCEPT ![wk] = FALSE]
         \/ wpc = "setdone" /\ wk = Workers /\ wpc' = "end" /\ cAsleep' = cAsleep
  BY DEF WaitNotify, WriterEnd, cvars
<1>3. cAsleep' \in [LiveStreams -> BOOLEAN]
  BY <1>1, <1>2 DEF LiveTypeOK
<1>4. LiveTypeOK'
  BY <1>1, <1>2, <1>3 DEF LiveTypeOK
<1>5. ~Writing /\ ~Writing'
  BY <1>2 DEF Writing
<1>6. Stages'
  BY <1>1, <1>2, <1>5 DEF Stages
<1>7. Buffered'
  <2>1. Lengths' = Lengths /\ ArchiveBytes(archive)' = ArchiveBytes(archive)
    BY <1>2 DEF Lengths
  <2> QED BY <1>1, <1>2, <1>5, <2>1 DEF Buffered
<1>8. Judgement'
  BY <1>1, <1>2, <1>5, JudgementKept
<1> QED BY <1>2, <1>4, <1>6, <1>7, <1>8, WriterKeeps

\* A check that is content has decoded the whole of its stream.
LEMMA ContentIsAll ==
    ASSUME LiveAssumption, LiveInv, ~Writing, verdict = "ok", NEW s \in LiveStreams, state[s] = "ok"
    PROVE  /\ next = Len(archive) + 1 /\ decoded[s] = DataOf(s)
           /\ \A i \in 1 .. Len(archive) : archive[i].stream = s => ~Damaged(i)
<1>1. LiveTypeOK /\ Buffered /\ Queue(s) /\ Follows(s)
  BY DEF LiveInv
<1>2. /\ archive \in Archives /\ next \in 1 .. Len(archive) + 1 /\ piece[s] \in 0 .. Len(archive)
  BY <1>1 DEF LiveTypeOK
<1>3. Len(archive) \in Nat
  BY <1>2, RecordFacts
<1>4. next = Len(archive) + 1
  <2>1. left = 0 /\ have = 0
    BY <1>1 DEF Buffered
  <2>2. /\ SumBefore(Lengths, next) \in Nat /\ ArchiveBytes(archive) \in Nat
        /\ next <= Len(archive) => SumBefore(Lengths, next) + archive[next].len <= ArchiveBytes(archive)
    BY <1>2, BytesFacts
  <2>3. SumBefore(Lengths, next) = ArchiveBytes(archive)
    BY <1>1, <2>1, <2>2 DEF Buffered
  <2>4. next <= Len(archive) => archive[next].len \in Nat \ {0}
    BY <1>2, <1>3, RecordFacts
  <2>5. ~(next <= Len(archive))
    BY <2>2, <2>3, <2>4
  <2> QED BY <1>2, <1>3, <2>5
<1>5. q[s] = <<>> /\ Point(s) = piece[s]
  BY <1>1 DEF Follows, Point
<1>6. \A i \in 1 .. Len(archive) : archive[i].stream = s => i <= piece[s]
  <2>1. SUFFICES ASSUME NEW i \in 1 .. Len(archive), archive[i].stream = s, i > piece[s] PROVE FALSE
    BY <1>2, <1>3
  <2>2. \E a \in DOMAIN q[s] : q[s][a] = i
    BY <1>1, <1>3, <1>4, <2>1 DEF Queue
  <2> QED BY <1>5, <2>2
<1>7. \A i \in 1 .. Len(archive) : archive[i].stream = s => ~Damaged(i)
  <2>1. \A i \in Seen(s) : ~Damaged(i)
    BY <1>1 DEF Follows
  <2>2. \A i \in 1 .. Len(archive) : archive[i].stream = s => i \in Seen(s)
    BY <1>2, <1>3, <1>5, <1>6 DEF Seen
  <2> QED BY <2>1, <2>2
<1>8. decoded[s] = DataOf(s)
  <2>1. decoded[s] = DataUpTo(archive, s)[piece[s]]
    BY <1>1, <1>5 DEF Follows
  <2>2. PICK n \in 0 .. Len(archive) : n = piece[s]
    BY <1>2
  <2>3. \A i \in n + 1 .. Len(archive) : ~IsDataOf(archive, s, i)
    BY <1>3, <1>6, <2>2 DEF IsDataOf
  <2>4. PICK m \in n .. Len(archive) : m = Len(archive)
    BY <1>3, <2>2
  <2>5. DataUpTo(archive, s)[m] = DataUpTo(archive, s)[n]
    BY <1>3, <2>3, <2>4, DataSame
  <2> QED BY <2>1, <2>2, <2>4, <2>5 DEF DataOf
<1> QED BY <1>4, <1>7, <1>8

\* A check has come to its end, and is judged.
LEMMA WaitJoinInv == ASSUME LiveAssumption, LiveInv, WaitJoin PROVE LiveInv'
<1>1. LiveTypeOK /\ Stages /\ Buffered /\ Judgement
  BY DEF LiveInv
<1>2. /\ UNCHANGED <<archive, left, have, next, demuxBad, outBad, wAsleep, q, queued, done, stop,
                     cpc, cAsleep, piece, built, state, decoded>>
      /\ wpc = "join" /\ cpc[wk] = "exit" /\ wpc' = "setdone" /\ wk' = wk + 1
      /\ verdict' = CheckJudged(wk) /\ after' = (after \/ (verdict = "ok" /\ state[wk] = "skipped"))
  BY DEF WaitJoin, cvars
<1>3. Workers \in Nat \ {0} /\ wk \in 0 .. Workers - 1 /\ wk \in LiveStreams
  BY <1>1, <1>2 DEF Stages, LiveTypeOK, LiveAssumption, LiveStreams
<1>4. PICK s \in LiveStreams : s = wk
  BY <1>3
<1>5. LiveTypeOK'
  <2>1. verdict' \in {"ok", "failed", "discarded"} /\ after' \in BOOLEAN /\ wk' \in 0 .. Workers
    BY <1>1, <1>2, <1>3 DEF LiveTypeOK, CheckJudged
  <2> QED BY <1>1, <1>2, <2>1 DEF LiveTypeOK
<1>6. ~Writing /\ ~Writing'
  BY <1>2 DEF Writing
<1>7. verdict' = "ok" => verdict = "ok"
  BY <1>2 DEF CheckJudged
<1>8. Stages'
  <2>1. ASSUME NEW u \in LiveStreams, u < wk + 1 PROVE cpc[u] = "exit"
    <3>1. u < wk \/ u = wk
      BY <1>3, <2>1 DEF LiveStreams
    <3> QED BY <1>1, <1>2, <3>1 DEF Stages
  <2> QED BY <1>1, <1>2, <1>6, <2>1 DEF Stages
<1>9. Buffered'
  <2>1. Lengths' = Lengths /\ ArchiveBytes(archive)' = ArchiveBytes(archive)
    BY <1>2 DEF Lengths
  <2> QED BY <1>1, <1>2, <1>6, <1>7, <2>1 DEF Buffered
<1>10. state[s] \in {"ok", "failed", "skipped"}
  BY <1>1, <1>2, <1>4 DEF LiveInv, Follows, LiveTypeOK
<1>11. Judgement'
  <2>1. \A u \in LiveStreams : DataOf(u)' = DataOf(u)
    BY <1>2 DEF DataOf
  <2>2. verdict' = "ok" /\ ~after' =>
          \A u \in LiveStreams : u < wk' => state'[u] = "ok" /\ decoded'[u] = Want[archive'][u]
    <3>1. SUFFICES ASSUME verdict' = "ok", ~after', NEW u \in LiveStreams, u < wk'
                   PROVE  state[u] = "ok" /\ decoded[u] = Want[archive][u]
      BY <1>2
    <3>2. verdict = "ok" /\ ~after /\ state[s] # "skipped"
      BY <1>1, <1>2, <1>4, <1>7, <3>1 DEF LiveTypeOK
    <3>3. CASE u = s
      BY <1>2, <1>4, <3>1, <3>2, <3>3 DEF CheckJudged
    <3>4. CASE u # s
      <4>1. u < wk
        BY <1>2, <1>3, <1>4, <3>1, <3>4 DEF LiveStreams
      <4> QED BY <1>1, <1>6, <3>2, <4>1 DEF Judgement
    <3> QED BY <3>3, <3>4
  <2>3. verdict' = "failed" =>
          (\E i \in 1 .. Len(archive) : Damaged(i)) \/ \E u \in LiveStreams : DataOf(u) # Want[archive][u]
    <3>1. CASE verdict = "failed"
      BY <1>1, <3>1 DEF Judgement
    <3>2. CASE verdict # "ok" /\ verdict # "failed"
      BY <1>2, <3>2 DEF CheckJudged
    <3>3. CASE verdict = "ok" /\ state[s] = "failed"
      BY <3>3 DEF LiveInv, Follows
    <3>4. CASE verdict = "ok" /\ state[s] = "ok"
      <4>1. verdict' = "failed" => decoded[s] # Want[archive][s]
        BY <1>2, <1>4, <3>4 DEF CheckJudged
      <4>2. decoded[s] = DataOf(s)
        BY <1>6, <3>4, ContentIsAll
      <4> QED BY <4>1, <4>2
    <3>5. CASE verdict = "ok" /\ state[s] = "skipped"
      BY <1>2, <1>4, <3>5 DEF CheckJudged
    <3> QED BY <1>10, <3>1, <3>2, <3>3, <3>4, <3>5
  <2> QED BY <1>2, <2>1, <2>2, <2>3, DamagedKept DEF Judgement
<1> QED BY <1>2, <1>5, <1>8, <1>9, <1>11, WriterKeeps

-----------------------------------------------------------------------------
(* The checks *)

\* A check falls asleep, or wakes.
LEMMA PopSleepInv ==
    ASSUME LiveAssumption, LiveInv, NEW s \in LiveStreams, PopSleep(s) \/ CheckWakes(s)
    PROVE  LiveInv'
<1>1. LiveTypeOK /\ Queue(s) /\ Follows(s) /\ done[s] \in BOOLEAN
  BY DEF LiveInv, LiveTypeOK
<1>2. /\ UNCHANGED <<archive, left, have, next, demuxBad, outBad, wpc, wAsleep, wk, verdict, after,
                     q, queued, done, stop, cpc, piece, built, state, decoded>>
      /\ cAsleep' \in [LiveStreams -> BOOLEAN]
  BY <1>1 DEF PopSleep, CheckWakes, wvars, LiveTypeOK
<1>3. LiveTypeOK'
  BY <1>1, <1>2 DEF LiveTypeOK
<1>4. Queue(s)'
  BY <1>1, <1>2, QueueKept
<1>5. Follows(s)'
  BY <1>1, <1>2, FollowsKept
<1> QED BY <1>2, <1>3, <1>4, <1>5, CheckKeeps

\* Nothing more comes.
LEMMA PopEndInv == ASSUME LiveAssumption, LiveInv, NEW s \in LiveStreams, PopEnd(s) PROVE LiveInv'
<1>1. LiveTypeOK /\ Queue(s) /\ Follows(s)
  BY DEF LiveInv
<1>2. /\ UNCHANGED <<archive, left, have, next, demuxBad, outBad, wpc, wAsleep, wk, verdict, after,
                     q, queued, done, stop, cAsleep, piece, built, decoded>>
      /\ cpc[s] = "pop" /\ q[s] = <<>> /\ done[s]
      /\ state' = [state EXCEPT ![s] = IF @ = "running" THEN "ok" ELSE @]
      /\ cpc' = [cpc EXCEPT ![s] = "exit"]
  BY DEF PopEnd, wvars
<1>3. /\ state[s] \in {"running", "ok", "failed", "skipped"}
      /\ state'[s] = IF state[s] = "running" THEN "ok" ELSE state[s]
      /\ cpc'[s] = "exit"
      /\ \A u \in LiveStreams \ {s} : state'[u] = state[u] /\ cpc'[u] = cpc[u]
  BY <1>1, <1>2 DEF LiveTypeOK
<1>4. LiveTypeOK'
  <2>1. state' \in [LiveStreams -> {"running", "ok", "failed", "skipped"}]
        /\ cpc' \in [LiveStreams -> {"pop", "decode", "exit"}]
    BY <1>1, <1>2 DEF LiveTypeOK
  <2> QED BY <1>1, <1>2, <2>1 DEF LiveTypeOK
<1>5. Queue(s)'
  <2>1. state'[s] \in {"running", "ok"} => state[s] \in {"running", "ok"}
    BY <1>3
  <2> QED BY <1>1, <1>2, <2>1, QueueKept
<1>6. Follows(s)'
  <2>1. Point(s)' = Point(s) /\ Seen(s)' = Seen(s)
    BY <1>2, <1>3 DEF Point, Seen
  <2> QED BY <1>1, <1>2, <1>3, <2>1, DamagedKept DEF Follows
<1> QED BY <1>2, <1>3, <1>4, <1>5, <1>6, CheckKeeps

\* A queue without its first.
LEMMA TailFacts ==
    \A S : \A u \in Seq(S), n \in Nat :
        Len(u) = n + 1 => Tail(u) \in Seq(S) /\ Len(Tail(u)) = n
  OBVIOUS

\* A record is taken from the queue.
LEMMA PopTakeInv == ASSUME LiveAssumption, LiveInv, NEW s \in LiveStreams, PopTake(s) PROVE LiveInv'
<1>1. LiveTypeOK /\ Queue(s) /\ Follows(s) /\ archive \in Archives
  BY DEF LiveInv, LiveTypeOK
<1>2. /\ Len(archive) \in Nat /\ q[s] \in Seq(1 .. Len(archive)) /\ q[s] # <<>>
      /\ next \in 1 .. Len(archive) + 1 /\ piece[s] \in 0 .. Len(archive) /\ queued[s] \in Nat
  BY <1>1, RecordFacts DEF PopTake, LiveTypeOK
<1>3. PICK n \in Nat : Len(q[s]) = n + 1
  BY <1>2
<1>4. PICK r \in 1 .. Len(archive) : r = Head(q[s]) /\ r = q[s][1]
  BY <1>2
<1>5. PICK t : t = Tail(q[s])
  OBVIOUS
<1>5a. /\ t \in Seq(1 .. Len(archive)) /\ Len(t) = n /\ DOMAIN t = 1 .. n
       /\ \A a \in 1 .. n : t[a] = q[s][a + 1]
  <2>1. q[s] \in Seq(1 .. Len(archive))
    BY <1>2
  <2>2. Tail(q[s]) \in Seq(1 .. Len(archive))
    BY ONLY <2>1, <1>3, n \in Nat, TailFacts, Zenon
  <2>3. Len(Tail(q[s])) = n
    BY ONLY <2>1, <1>3, n \in Nat, TailFacts, Zenon
  <2>4. \A a \in 1 .. n : Tail(q[s])[a] = q[s][a + 1]
    BY ONLY <2>1, <1>3, n \in Nat
  <2>5. DOMAIN Tail(q[s]) = 1 .. n
    BY ONLY <2>2, <2>3
  <2> QED BY <1>5, <2>2, <2>3, <2>4, <2>5
<1>6. DOMAIN q[s] = 1 .. n + 1
  BY <1>2, <1>3
<1>7. /\ UNCHANGED <<archive, left, have, next, demuxBad, outBad, wpc, wk, verdict, after, done,
                     stop, cAsleep, built, state, decoded>>
      /\ cpc[s] = "pop" /\ wAsleep' = (wAsleep /\ Target # s)
      /\ q' = [q EXCEPT ![s] = t] /\ queued' = [queued EXCEPT ![s] = queued[s] - archive[r].len]
      /\ piece' = [piece EXCEPT ![s] = r]
      /\ cpc' = [cpc EXCEPT ![s] = IF state[s] = "running" THEN "decode" ELSE "pop"]
  BY <1>4, <1>5 DEF PopTake
<1>8. /\ q'[s] = t /\ queued'[s] = queued[s] - archive[r].len /\ piece'[s] = r
      /\ cpc'[s] = IF state[s] = "running" THEN "decode" ELSE "pop"
      /\ \A u \in LiveStreams \ {s} : q'[u] = q[u] /\ queued'[u] = queued[u] /\ piece'[u] = piece[u]
                                  /\ cpc'[u] = cpc[u]
  BY <1>1, <1>7 DEF LiveTypeOK
<1>9. /\ r > piece[s] /\ r < next /\ archive[r].stream = s
      /\ \A a \in 1 .. n : t[a] > r /\ t[a] < next /\ archive[t[a]].stream = s
      /\ \A a, b \in 1 .. n : a < b => t[a] < t[b]
  <2>1. 1 \in 1 .. n + 1 /\ \A a \in 1 .. n : a + 1 \in 1 .. n + 1 /\ 1 < a + 1
    OBVIOUS
  <2>2. \A a \in 1 .. n + 1 : /\ q[s][a] > piece[s] /\ q[s][a] < next /\ archive[q[s][a]].stream = s
                              /\ \A b \in 1 .. n + 1 : a < b => q[s][a] < q[s][b]
    BY <1>1, <1>6 DEF Queue
  <2>3. \A a \in 1 .. n : t[a] \in Nat
    <3>1. \A a \in 1 .. n : t[a] \in 1 .. Len(archive)
      BY <1>5a
    <3> QED BY <1>2, <3>1
  <2>4. \A a \in 1 .. n : t[a] > r
    BY <1>4, <1>5a, <2>1, <2>2, <2>3
  <2>5. \A a, b \in 1 .. n : a < b => t[a] < t[b]
    <3>1. SUFFICES ASSUME NEW a \in 1 .. n, NEW b \in 1 .. n, a < b PROVE t[a] < t[b]
      OBVIOUS
    <3>2. a + 1 \in 1 .. n + 1 /\ b + 1 \in 1 .. n + 1 /\ a + 1 < b + 1
      BY <3>1
    <3>3. q[s][a + 1] < q[s][b + 1]
      BY <2>2, <3>2
    <3> QED BY <1>5a, <3>3
  <2> QED BY <1>4, <1>5a, <2>1, <2>2, <2>4, <2>5
<1>10. queued'[s] = SumBefore(Sized(s)', Len(t) + 1) /\ queued'[s] \in Nat
  <2> DEFINE f == Sized(s)
             g == Sized(s)'
  <2>1. /\ g = [a \in DOMAIN t |-> archive[t[a]].len]
        /\ f = [a \in DOMAIN q[s] |-> archive[q[s][a]].len]
    BY <1>7, <1>8 DEF Sized
  <2>2. \A i \in 1 .. Len(archive) : archive[i].len \in Nat
    BY <1>1, RecordFacts
  <2>3. \A k \in 1 .. n + 1 : f[k] \in Nat
    <3>1. \A k \in 1 .. n + 1 : q[s][k] \in 1 .. Len(archive)
      BY <1>2, <1>3
    <3> QED BY <1>6, <2>1, <2>2, <3>1
  <2>4. \A k \in 1 .. (n + 1) - 1 : g[k] = f[k + 1]
    <3>1. SUFFICES ASSUME NEW k \in 1 .. n PROVE g[k] = f[k + 1]
      OBVIOUS
    <3>2. k \in DOMAIN t /\ k + 1 \in DOMAIN q[s] /\ t[k] = q[s][k + 1]
      BY <1>5a, <1>6, <3>1
    <3>3. g[k] = archive[t[k]].len /\ f[k + 1] = archive[q[s][k + 1]].len
      BY <2>1, <3>2
    <3> QED BY <3>2, <3>3
  <2>5. f[1] = archive[r].len
    BY <1>4, <1>6, <2>1
  <2>6. queued[s] = SumBefore(f, (n + 1) + 1)
    BY <1>1, <1>3 DEF Queue
  <2> HIDE DEF f, g
  <2>7. PICK m \in Nat \ {0} : m = n + 1
    OBVIOUS
  <2>8. SumBefore(f, m + 1) = f[1] + SumBefore(g, m)
    BY <2>3, <2>4, <2>7, SumTail
  <2>9. SumBefore(g, m) \in Nat
    <3>1. \A k \in 1 .. m - 1 : g[k] \in Nat
      BY <2>3, <2>4, <2>7
    <3> QED BY <3>1, SumType
  <2>10. archive[r].len \in Nat
    BY <2>2
  <2>11. queued'[s] = SumBefore(g, m) /\ Len(t) + 1 = m
    BY <1>5a, <1>8, <2>5, <2>6, <2>7, <2>8, <2>9, <2>10
  <2> QED BY <2>9, <2>11 DEF g
<1>11. LiveTypeOK'
  <2>1. q' \in [LiveStreams -> Seq(1 .. Len(archive))]
    <3>1. q \in [LiveStreams -> Seq(1 .. Len(archive))]
      BY <1>1 DEF LiveTypeOK
    <3> QED BY ONLY <1>7, <3>1, <1>5a
  <2>2. queued' \in [LiveStreams -> Nat]
    <3>1. queued \in [LiveStreams -> Nat]
      BY <1>1 DEF LiveTypeOK
    <3>2. queued[s] - archive[r].len \in Nat
      BY <1>8, <1>10
    <3> QED BY ONLY <1>7, <3>1, <3>2
  <2>3. piece' \in [LiveStreams -> 0 .. Len(archive)] /\ cpc' \in [LiveStreams -> {"pop", "decode", "exit"}]
        /\ wAsleep' \in BOOLEAN
    BY <1>1, <1>2, <1>7 DEF LiveTypeOK
  <2> QED BY <1>1, <1>7, <2>1, <2>2, <2>3 DEF LiveTypeOK
<1>12. Queue(s)'
  <2>1. state[s] \in {"running", "ok"} =>
          \A i \in 1 .. next - 1 : archive[i].stream = s /\ i > r => \E a \in 1 .. n : t[a] = i
    <3>1. SUFFICES ASSUME state[s] \in {"running", "ok"}, NEW i \in 1 .. next - 1,
                          archive[i].stream = s, i > r
                   PROVE  \E a \in 1 .. n : t[a] = i
      OBVIOUS
    <3>1a. i > piece[s]
      BY <1>2, <1>9, <3>1
    <3>2. PICK b \in 1 .. n + 1 : q[s][b] = i
      BY <1>1, <1>6, <3>1, <3>1a DEF Queue
    <3>3. b # 1
      BY <1>4, <3>1, <3>2
    <3>4. b - 1 \in 1 .. n /\ (b - 1) + 1 = b
      BY <3>3
    <3> QED BY <1>5a, <3>2, <3>4
  <2>2. /\ piece'[s] < next' /\ (piece'[s] # 0 => archive'[piece'[s]].stream = s)
        /\ \A a \in DOMAIN q'[s] : /\ q'[s][a] > piece'[s] /\ q'[s][a] < next'
                                   /\ archive'[q'[s][a]].stream = s
                                   /\ \A b \in DOMAIN q'[s] : a < b => q'[s][a] < q'[s][b]
    BY <1>5a, <1>7, <1>8, <1>9
  <2>3. state'[s] \in {"running", "ok"} =>
          \A i \in 1 .. next' - 1 :
              archive'[i].stream = s /\ i > piece'[s] => \E a \in DOMAIN q'[s] : q'[s][a] = i
    <3>1. SUFFICES ASSUME state'[s] \in {"running", "ok"}, NEW i \in 1 .. next' - 1,
                          archive'[i].stream = s, i > piece'[s]
                   PROVE  \E a \in DOMAIN q'[s] : q'[s][a] = i
      OBVIOUS
    <3>2. \E a \in 1 .. n : t[a] = i
      BY <1>7, <1>8, <2>1, <3>1
    <3> QED BY <1>5a, <1>8, <3>2
  <2>4. queued'[s] = SumBefore(Sized(s)', Len(q'[s]) + 1)
    BY <1>8, <1>10
  <2> QED BY <2>2, <2>3, <2>4 DEF Queue
<1>13. Follows(s)'
  <2>1. CASE state[s] # "running"
    <3>1. state[s] # "ok"
      BY <1>1, <1>7 DEF Follows
    <3> QED BY <1>1, <1>7, <1>8, <2>1, <3>1, DamagedKept DEF Follows
  <2>2. CASE state[s] = "running"
    <3>1. cpc'[s] = "decode" /\ state'[s] = "running" /\ piece'[s] # 0
      BY <1>4, <1>7, <1>8, <2>2
    <3>2. Point(s) = piece[s] /\ Point(s)' = r - 1
      BY <1>7, <1>8, <3>1 DEF Point
    <3>3. \A i \in piece[s] + 1 .. r - 1 : archive[i].stream # s
      <4>1. SUFFICES ASSUME NEW i \in piece[s] + 1 .. r - 1, archive[i].stream = s PROVE FALSE
        OBVIOUS
      <4>2. i \in 1 .. next - 1 /\ i > piece[s] /\ i < r
        BY <1>2, <1>9, <4>1
      <4>3. PICK b \in 1 .. n + 1 : q[s][b] = i
        BY <1>1, <1>6, <2>2, <4>1, <4>2 DEF Queue
      <4>4. b = 1 \/ (b - 1 \in 1 .. n /\ (b - 1) + 1 = b)
        OBVIOUS
      <4>5. q[s][b] = r \/ q[s][b] > r
        BY <1>4, <1>5a, <1>9, <4>4
      <4> QED BY <4>2, <4>3, <4>5
    <3>4. Seen(s)' = Seen(s)
      <4>1. \A i \in 1 .. r - 1 : archive[i].stream = s => i \in 1 .. piece[s]
        BY <1>2, <3>3
      <4>2. 1 .. piece[s] \subseteq 1 .. r - 1
        BY <1>2, <1>9
      <4> QED BY <1>7, <3>2, <4>1, <4>2 DEF Seen
    <3>5. DataUpTo(archive, s)[r - 1] = DataUpTo(archive, s)[piece[s]]
      <4>1. PICK i \in 0 .. Len(archive) : i = piece[s]
        BY <1>2
      <4>2. PICK j \in i .. Len(archive) : j = r - 1
        BY <1>9, <4>1
      <4>3. \A k \in i + 1 .. j : ~IsDataOf(archive, s, k)
        BY <3>3, <4>1, <4>2 DEF IsDataOf
      <4>4. DataUpTo(archive, s)[j] = DataUpTo(archive, s)[i]
        BY <1>2, <4>3, DataSame
      <4> QED BY <4>1, <4>2, <4>4
    <3>6. /\ \A i \in Seen(s) : ~Damaged(i)
          /\ built[s] <=> \E i \in Seen(s) : archive[i].kind = "codec"
          /\ decoded[s] = DataUpTo(archive, s)[piece[s]]
      BY <1>1, <2>2, <3>2 DEF Follows
    <3>7. stop'[s] <=> state'[s] \in {"failed", "skipped"}
      BY <1>1, <1>7 DEF Follows
    <3>8. /\ \A i \in Seen(s)' : ~Damaged(i)'
          /\ built'[s] <=> \E i \in Seen(s)' : archive'[i].kind = "codec"
          /\ decoded'[s] = DataUpTo(archive', s)[Point(s)']
      BY <1>7, <3>2, <3>4, <3>5, <3>6, DamagedKept
    <3> QED BY <3>1, <3>7, <3>8 DEF Follows
  <2> QED BY <2>1, <2>2
<1>14. /\ wAsleep' => wAsleep
       /\ cpc[s] # "exit"
  BY <1>7
<1> QED BY <1>7, <1>8, <1>11, <1>12, <1>13, <1>14, CheckKeeps

\* The record a check has in its hands.
LEMMA InHand ==
    ASSUME LiveAssumption, LiveInv, NEW s \in LiveStreams, cpc[s] = "decode"
    PROVE  /\ piece[s] \in 1 .. Len(archive) /\ Len(archive) \in Nat
           /\ archive[piece[s]].stream = s /\ Kind(s) \in Kinds \ {"garbled", "cut"}
           /\ Point(s) = piece[s] - 1 /\ state[s] = "running" /\ ~stop[s]
<1>1. /\ LiveTypeOK /\ Buffered /\ Queue(s) /\ Follows(s) /\ archive \in Archives
      /\ next \in 1 .. Len(archive) + 1 /\ piece[s] \in 0 .. Len(archive)
  BY DEF LiveInv, LiveTypeOK
<1>2. Len(archive) \in Nat /\ \A i \in 1 .. Len(archive) : archive[i].kind \in Kinds
  BY <1>1, RecordFacts
<1>3. piece[s] # 0 /\ state[s] = "running" /\ ~stop[s]
  BY <1>1 DEF Follows, LiveTypeOK
<1>4. piece[s] \in 1 .. next - 1 /\ archive[piece[s]].stream = s
  BY <1>1, <1>2, <1>3 DEF Queue
<1>5. archive[piece[s]].kind \notin {"garbled", "cut"}
  BY <1>1, <1>4 DEF Buffered
<1>6. piece[s] \in 1 .. Len(archive)
  BY <1>1, <1>3
<1> QED BY <1>2, <1>3, <1>4, <1>5, <1>6 DEF Point, Kind

\* After a record that is not damaged the check goes on from behind it.
LEMMA DecodedFollows ==
    ASSUME LiveAssumption, LiveInv, NEW s \in LiveStreams, cpc[s] = "decode", cpc'[s] = "pop",
           UNCHANGED <<archive, next, piece, q, queued, stop, state, done>>, ~Damaged(piece[s]),
           built'[s] <=> built[s] \/ Kind(s) = "codec",
           decoded'[s] = IF Kind(s) \in {"data", "baddata"} THEN Append(decoded[s], piece[s]) ELSE decoded[s]
    PROVE  Queue(s)' /\ Follows(s)'
<1>1. Queue(s) /\ Follows(s)
  BY DEF LiveInv
<1>2. PICK r \in 1 .. Len(archive) : r = piece[s]
  BY InHand
<1>3. /\ Len(archive) \in Nat /\ archive[r].stream = s /\ Point(s) = r - 1
      /\ state[s] = "running" /\ ~stop[s] /\ Kind(s) = archive[r].kind
  BY <1>2, InHand DEF Kind
<1>4. Point(s)' = r
  BY <1>2 DEF Point
<1>5. Seen(s)' = Seen(s) \cup {r}
  <2>1. \A i : i \in 1 .. r <=> (i \in 1 .. r - 1 \/ i = r)
    OBVIOUS
  <2> QED BY <1>3, <1>4, <2>1 DEF Seen
<1>6. /\ \A i \in Seen(s) : ~Damaged(i)
      /\ built[s] <=> \E i \in Seen(s) : archive[i].kind = "codec"
      /\ decoded[s] = DataUpTo(archive, s)[r - 1]
  BY <1>1, <1>3 DEF Follows
<1>7. DataUpTo(archive, s)[r] = IF IsDataOf(archive, s, r) THEN Append(DataUpTo(archive, s)[r - 1], r)
                                ELSE DataUpTo(archive, s)[r - 1]
  BY <1>3, DataStep
<1>8. IsDataOf(archive, s, r) <=> Kind(s) \in {"data", "baddata"}
  BY <1>3 DEF IsDataOf
<1>9. decoded'[s] = DataUpTo(archive, s)[r]
  BY <1>2, <1>6, <1>7, <1>8
<1>10. built'[s] <=> \E i \in Seen(s)' : archive[i].kind = "codec"
  BY <1>3, <1>5, <1>6
<1>11. \A i \in Seen(s)' : ~Damaged(i)'
  BY <1>2, <1>5, <1>6, DamagedKept
<1>12. Follows(s)'
  BY <1>1, <1>3, <1>4, <1>9, <1>10, <1>11 DEF Follows
<1>13. Queue(s)'
  BY <1>1, QueueKept
<1> QED BY <1>12, <1>13

\* A record that needs a decoder is not damaged if there is one.
LEMMA NeedsDecoder ==
    ASSUME LiveAssumption, LiveInv, NEW s \in LiveStreams, cpc[s] = "decode",
           Kind(s) \in {"short", "data"}
    PROVE  Damaged(piece[s]) <=> ~built[s]
<1>1. PICK r \in 1 .. Len(archive) : r = piece[s]
  BY InHand
<1>2. /\ archive[r].stream = s /\ Point(s) = r - 1 /\ state[s] = "running" /\ Kind(s) = archive[r].kind
  BY <1>1, InHand DEF Kind
<1>3. built[s] <=> \E i \in Seen(s) : archive[i].kind = "codec"
  BY <1>2 DEF LiveInv, Follows
<1>4. (\E i \in Seen(s) : archive[i].kind = "codec") <=>
      \E j \in 1 .. r - 1 : archive[j].stream = archive[r].stream /\ archive[j].kind = "codec"
  BY <1>2 DEF Seen
<1> QED BY <1>1, <1>2, <1>3, <1>4 DEF Damaged

\* A record is decoded, or passed over.
LEMMA DecodeInv ==
    ASSUME LiveAssumption, LiveInv, NEW s \in LiveStreams, DecodeCodec(s) \/ DecodeData(s) \/ DecodeOther(s)
    PROVE  LiveInv'
<1>1. LiveTypeOK
  BY DEF LiveInv
<1>2. /\ UNCHANGED <<archive, left, have, next, demuxBad, outBad, wpc, wAsleep, wk, verdict, after,
                     q, queued, done, stop, cAsleep, piece, state>>
      /\ cpc[s] = "decode" /\ cpc' = [cpc EXCEPT ![s] = "pop"]
  BY DEF DecodeCodec, DecodeData, DecodeOther, DecodeStep
<1>3. /\ piece[s] \in 1 .. Len(archive) /\ Kind(s) \in Kinds \ {"garbled", "cut"}
      /\ Kind(s) = archive[piece[s]].kind
  BY <1>2, InHand DEF Kind
<1>4. cpc'[s] = "pop" /\ \A u \in LiveStreams \ {s} : cpc'[u] = cpc[u]
  BY <1>1, <1>2 DEF LiveTypeOK
<1>5. decoded[s] \in Seq(1 .. Len(archive)) /\ built \in [LiveStreams -> BOOLEAN]
      /\ decoded \in [LiveStreams -> Seq(1 .. Len(archive))]
  BY <1>1 DEF LiveTypeOK
<1>6. CASE DecodeCodec(s)
  <2>1. /\ Kind(s) = "codec" \/ (Kind(s) = "short" /\ built[s])
        /\ built' = [built EXCEPT ![s] = TRUE] /\ decoded' = decoded
    BY <1>6 DEF DecodeCodec
  <2>2. built'[s] = TRUE /\ built' \in [LiveStreams -> BOOLEAN]
        /\ \A u \in LiveStreams \ {s} : built'[u] = built[u]
    BY <1>5, <2>1
  <2>3. ~Damaged(piece[s])
    <3>1. CASE Kind(s) = "codec"
      BY <1>3, <3>1 DEF Damaged
    <3>2. CASE Kind(s) = "short" /\ built[s]
      BY <1>2, <3>2, NeedsDecoder
    <3> QED BY <2>1, <3>1, <3>2
  <2>4. Queue(s)' /\ Follows(s)'
    BY <1>2, <1>4, <2>1, <2>2, <2>3, DecodedFollows
  <2>5. LiveTypeOK'
    BY <1>1, <1>2, <2>1, <2>2 DEF LiveTypeOK
  <2> QED BY <1>2, <1>4, <2>1, <2>2, <2>4, <2>5, CheckKeeps
<1>7. CASE DecodeData(s)
  <2>1. Kind(s) = "data" /\ built[s] /\ built' = built
        /\ decoded' = [decoded EXCEPT ![s] = Append(decoded[s], piece[s])]
    BY <1>7 DEF DecodeData
  <2>2. Append(decoded[s], piece[s]) \in Seq(1 .. Len(archive))
    BY <1>3, <1>5
  <2>3. decoded'[s] = Append(decoded[s], piece[s]) /\ decoded' \in [LiveStreams -> Seq(1 .. Len(archive))]
        /\ \A u \in LiveStreams \ {s} : decoded'[u] = decoded[u]
    BY ONLY <1>5, <2>1, <2>2
  <2>4. ~Damaged(piece[s])
    BY <1>2, <2>1, NeedsDecoder
  <2>5. Queue(s)' /\ Follows(s)'
    BY <1>2, <1>4, <2>1, <2>3, <2>4, DecodedFollows
  <2>6. LiveTypeOK'
    BY <1>1, <1>2, <2>1, <2>3 DEF LiveTypeOK
  <2> QED BY <1>2, <1>4, <2>1, <2>3, <2>5, <2>6, CheckKeeps
<1>8. CASE DecodeOther(s)
  <2>1. Kind(s) = "other" /\ built' = built /\ decoded' = decoded
    BY <1>8 DEF DecodeOther
  <2>2. ~Damaged(piece[s])
    BY <1>3, <2>1 DEF Damaged
  <2>3. Queue(s)' /\ Follows(s)'
    BY <1>2, <1>4, <2>1, <2>2, DecodedFollows
  <2>4. LiveTypeOK'
    BY <1>1, <1>2, <2>1 DEF LiveTypeOK
  <2> QED BY <1>2, <1>4, <2>1, <2>3, <2>4, CheckKeeps
<1> QED BY <1>6, <1>7, <1>8

\* A check gives up.
LEMMA StopInv ==
    ASSUME LiveAssumption, LiveInv, NEW s \in LiveStreams, DecodeFails(s) \/ DecodeNoMemory(s)
    PROVE  LiveInv'
<1>1. LiveTypeOK /\ Queue(s) /\ Follows(s)
  BY DEF LiveInv
<1>2. PICK v \in {"failed", "skipped"} : Stop(s, v) /\ (v = "failed" => DecodeFails(s))
  BY DEF DecodeFails, DecodeNoMemory
<1>3. /\ UNCHANGED <<archive, left, have, next, demuxBad, outBad, wpc, wk, verdict, after, done,
                     cAsleep, piece, built, decoded>>
      /\ cpc[s] = "decode" /\ cpc' = [cpc EXCEPT ![s] = "pop"]
  BY DEF DecodeFails, DecodeNoMemory, DecodeStep
<1>4. /\ state' = [state EXCEPT ![s] = v] /\ stop' = [stop EXCEPT ![s] = TRUE]
      /\ q' = [q EXCEPT ![s] = <<>>] /\ queued' = [queued EXCEPT ![s] = 0]
      /\ wAsleep' = (wAsleep /\ Target # s)
  BY <1>2 DEF Stop
<1>5. /\ q'[s] = <<>> /\ queued'[s] = 0 /\ state'[s] = v /\ stop'[s] = TRUE /\ cpc'[s] = "pop"
      /\ \A u \in LiveStreams \ {s} :
            /\ q'[u] = q[u] /\ queued'[u] = queued[u] /\ stop'[u] = stop[u]
            /\ state'[u] = state[u] /\ cpc'[u] = cpc[u]
  BY <1>1, <1>3, <1>4 DEF LiveTypeOK
<1>6. LiveTypeOK'
  <2>1. q' \in [LiveStreams -> Seq(1 .. Len(archive))]
    <3>1. q \in [LiveStreams -> Seq(1 .. Len(archive))] /\ <<>> \in Seq(1 .. Len(archive))
      BY <1>1 DEF LiveTypeOK
    <3> QED BY ONLY <1>4, <3>1
  <2>2. /\ queued' \in [LiveStreams -> Nat] /\ stop' \in [LiveStreams -> BOOLEAN] /\ wAsleep' \in BOOLEAN
        /\ state' \in [LiveStreams -> {"running", "ok", "failed", "skipped"}]
        /\ cpc' \in [LiveStreams -> {"pop", "decode", "exit"}]
    BY <1>1, <1>3, <1>4 DEF LiveTypeOK
  <2> QED BY <1>1, <1>3, <2>1, <2>2 DEF LiveTypeOK
<1>7. Queue(s)'
  <2>1. DOMAIN q'[s] = {} /\ Len(q'[s]) = 0
    BY <1>5
  <2>2. SumBefore(Sized(s)', Len(q'[s]) + 1) = 0
    BY <2>1, SumNone
  <2> QED BY <1>1, <1>3, <1>5, <2>1, <2>2 DEF Queue
<1>8. v = "failed" => \E i \in 1 .. Len(archive) : Damaged(i)
  <2>1. SUFFICES ASSUME DecodeFails(s) PROVE Damaged(piece[s]) /\ piece[s] \in 1 .. Len(archive)
    BY <1>2
  <2>2. piece[s] \in 1 .. Len(archive)
    BY <1>3, InHand
  <2>3. CASE Kind(s) = "baddata"
    BY <2>2, <2>3 DEF Damaged, Kind
  <2>4. CASE Kind(s) \in {"short", "data"} /\ ~built[s]
    BY <1>3, <2>2, <2>4, NeedsDecoder
  <2> QED BY <2>1, <2>2, <2>3, <2>4 DEF DecodeFails
<1>9. Follows(s)'
  BY <1>3, <1>5, <1>8, DamagedKept DEF Follows
<1> QED BY <1>3, <1>4, <1>5, <1>6, <1>7, <1>9, CheckKeeps
-----------------------------------------------------------------------------
(* The theorems *)

\* A compression starts with the invariant.
LEMMA InitInv == ASSUME LiveAssumption, LiveInit PROVE LiveInv
<1>1. archive \in Archives /\ Len(archive) \in Nat
      /\ \A i \in 1 .. Len(archive) : archive[i].len \in Nat \ {0}
  BY RecordFacts DEF LiveInit
<1>2. ArchiveBytes(archive) \in Nat
  <2>1. 1 \in 1 .. Len(archive) + 1
    BY <1>1
  <2> QED BY <1>1, <2>1, BytesFacts
<1>3. <<>> \in Seq(1 .. Len(archive)) /\ Workers \in Nat \ {0}
  BY DEF LiveAssumption
<1>4. LiveTypeOK
  <2>1. q \in [LiveStreams -> Seq(1 .. Len(archive))] /\ decoded \in [LiveStreams -> Seq(1 .. Len(archive))]
    BY <1>3 DEF LiveInit
  <2>2. next \in 1 .. Len(archive) + 1 /\ piece \in [LiveStreams -> 0 .. Len(archive)] /\ wk \in 0 .. Workers
    BY <1>1, <1>3 DEF LiveInit
  <2> QED BY <1>1, <1>2, <2>1, <2>2 DEF LiveInit, LiveTypeOK
<1>5. Writing /\ ~RecordReady
  BY <1>1 DEF LiveInit, Writing, RecordReady
<1>6. Stages
  BY <1>5 DEF LiveInit, Stages, LiveStreams
<1>7. Buffered
  <2>1. SumBefore(Lengths, 1) = 0
    BY SumNone
  <2>2. have + left + SumBefore(Lengths, next) = ArchiveBytes(archive)
    BY <1>2, <2>1 DEF LiveInit
  <2> QED BY <1>5, <2>2 DEF LiveInit, Buffered
<1>8. Judgement
  BY <1>5 DEF LiveInit, Judgement
<1>9. ASSUME NEW s \in LiveStreams PROVE Queue(s) /\ Follows(s)
  <2>1. q[s] = <<>> /\ DOMAIN q[s] = {} /\ Len(q[s]) = 0 /\ piece[s] = 0 /\ queued[s] = 0
        /\ cpc[s] = "pop" /\ state[s] = "running" /\ ~built[s] /\ decoded[s] = <<>> /\ ~stop[s] /\ next = 1
    BY DEF LiveInit
  <2>2. SumBefore(Sized(s), Len(q[s]) + 1) = 0
    BY <2>1, SumNone
  <2>3. Queue(s)
    BY <2>1, <2>2 DEF Queue
  <2>4. Point(s) = 0 /\ Seen(s) = {}
    BY <2>1 DEF Point, Seen
  <2>5. DataUpTo(archive, s)[0] = <<>>
    BY <1>1, DataStep
  <2> QED BY <2>1, <2>3, <2>4, <2>5 DEF Follows
<1> QED BY <1>4, <1>6, <1>7, <1>8, <1>9 DEF LiveInv

\* Every step keeps it.
LEMMA NextInv == ASSUME LiveAssumption, LiveInv, [LiveNext \/ LiveTerminated]_liveVars PROVE LiveInv'
<1>1. CASE Writer
  <2>1. CASE \E n \in 1 .. left : WriteBytes(n)
    BY <2>1, WriteInv
  <2>2. CASE OutputFails
    BY <2>2, WriteFailsInv
  <2>3. CASE WriteEnd
    BY <2>3, WriteEndInv
  <2>4. CASE RouteRecord
    BY <2>4, RouteRecordInv
  <2>5. CASE RouteDone
    BY <2>5, RouteDoneInv
  <2>6. CASE FeedSleep
    BY <2>6, FeedSleepInv
  <2>7. CASE FeedPush
    BY <2>7, FeedPushInv
  <2>8. CASE FeedDrop
    BY <2>8, FeedDropInv
  <2>9. CASE WaitSetDone
    BY <2>9, WaitSetDoneInv
  <2>10. CASE WaitNotify \/ WriterEnd
    BY <2>10, WaitNotifyInv
  <2>11. CASE WaitJoin
    BY <2>11, WaitJoinInv
  <2> QED BY <1>1, <2>1, <2>2, <2>3, <2>4, <2>5, <2>6, <2>7, <2>8, <2>9, <2>10, <2>11 DEF Writer
<1>2. CASE WriterWakes
  BY <1>2, FeedSleepInv
<1>3. ASSUME NEW s \in LiveStreams, CheckThread(s) \/ CheckWakes(s) PROVE LiveInv'
  <2>1. CASE PopSleep(s) \/ CheckWakes(s)
    BY <2>1, PopSleepInv
  <2>2. CASE PopTake(s)
    BY <2>2, PopTakeInv
  <2>3. CASE PopEnd(s)
    BY <2>3, PopEndInv
  <2>4. CASE DecodeCodec(s) \/ DecodeData(s) \/ DecodeOther(s)
    BY <2>4, DecodeInv
  <2>5. CASE DecodeFails(s) \/ DecodeNoMemory(s)
    BY <2>5, StopInv
  <2> QED BY <1>3, <2>1, <2>2, <2>3, <2>4, <2>5 DEF CheckThread
<1>4. CASE UNCHANGED liveVars
  <2>1. /\ UNCHANGED <<archive, left, have, next, demuxBad, outBad, wpc, wAsleep, wk, verdict, after,
                       q, queued, done, stop, cpc, cAsleep, piece, built, state, decoded>>
    BY <1>4 DEF liveVars, wvars, cvars
  <2>2. LiveTypeOK /\ Stages /\ Buffered /\ Judgement
    BY DEF LiveInv
  <2>3. LiveTypeOK'
    BY <2>1, <2>2 DEF LiveTypeOK
  <2>4. Writing' <=> Writing
    BY <2>1 DEF Writing
  <2>5. Stages'
    BY <2>1, <2>2, <2>4 DEF Stages
  <2>6. Buffered'
    <3>1. Lengths' = Lengths /\ ArchiveBytes(archive)' = ArchiveBytes(archive) /\ RecordReady' = RecordReady
      BY <2>1 DEF Lengths, RecordReady
    <3> QED BY <2>1, <2>2, <2>4, <3>1 DEF Buffered
  <2>7. Judgement'
    BY <2>1, <2>2, <2>4, JudgementKept
  <2> QED BY <2>1, <2>3, <2>5, <2>6, <2>7, WriterKeeps
<1> QED BY <1>1, <1>2, <1>3, <1>4 DEF LiveNext, LiveTerminated

\* The invariant of a compression and its checks.
THEOREM Invariance == ASSUME LiveAssumption PROVE LiveSpec => []LiveInv
<1>1. LiveInit => LiveInv
  BY InitInv
<1>2. LiveInv /\ [LiveNext \/ LiveTerminated]_liveVars => LiveInv'
  BY NextInv
<1> QED BY <1>1, <1>2, PTL DEF LiveSpec

\* The types hold in every state: what the counters of the queues count never goes
\* below nothing, and the demux never hands over more than it has.
THEOREM TypeCorrect == ASSUME LiveAssumption PROVE LiveSpec => []LiveTypeOK
<1>1. LiveInv => LiveTypeOK
  BY DEF LiveInv
<1> QED BY <1>1, Invariance, PTL

\* What the verdict promises in a state of the invariant.
LEMMA InvIsRight == ASSUME LiveAssumption, LiveInv PROVE VerdictRight
<1>1. LiveTypeOK /\ Stages /\ Buffered /\ Judgement
  BY DEF LiveInv
<1>2. archive \in Archives /\ Workers \in Nat \ {0}
  BY <1>1 DEF LiveTypeOK, LiveAssumption
<1>3. ASSUME wpc = "end", verdict = "ok", ~after
      PROVE  /\ next = Len(archive) + 1 /\ ~outBad
             /\ \A i \in 1 .. Len(archive) : ~Damaged(i)
             /\ \A s \in LiveStreams : decoded[s] = DataOf(s) /\ decoded[s] = Want[archive][s]
  <2>1. ~Writing /\ wk = Workers
    BY <1>1, <1>3 DEF Writing, Stages
  <2>2. \A s \in LiveStreams : s < wk
    BY <1>2, <2>1 DEF LiveStreams
  <2>3. \A s \in LiveStreams : state[s] = "ok" /\ decoded[s] = Want[archive][s]
    BY <1>1, <1>3, <2>1, <2>2 DEF Judgement
  <2>4. \A s \in LiveStreams : /\ next = Len(archive) + 1 /\ decoded[s] = DataOf(s)
                               /\ \A i \in 1 .. Len(archive) : archive[i].stream = s => ~Damaged(i)
    BY <1>3, <2>1, <2>3, ContentIsAll
  <2>5. \A i \in 1 .. Len(archive) : archive[i].stream \in LiveStreams
    BY <1>2, RecordFacts
  <2>6. 0 \in LiveStreams
    BY <1>2 DEF LiveStreams
  <2>7. ~outBad
    BY <1>1, <1>3, <2>1 DEF Buffered
  <2> QED BY <2>3, <2>4, <2>5, <2>6, <2>7
<1>4. wpc = "end" /\ verdict = "failed" =>
        (\E i \in 1 .. Len(archive) : Damaged(i)) \/ \E s \in LiveStreams : DataOf(s) # Want[archive][s]
  BY <1>1 DEF Judgement
<1> QED BY <1>3, <1>4 DEF VerdictRight, OkMeansDecoded, FailedMeansDamaged

\* "ok" from the checks means that every record of the archive went through, none is
\* damaged, and every stream decodes, in the file's order, to what was read; and the
\* checks fail an archive only when a record is damaged or the data are not what was
\* read.  However the writer and the checks take turns, and wherever the file, the
\* memory or a record lets them down.
THEOREM VerdictIsRight == ASSUME LiveAssumption PROVE LiveSpec => []VerdictRight
<1>1. LiveInv => VerdictRight
  BY InvIsRight
<1> QED BY <1>1, Invariance, PTL
=============================================================================
