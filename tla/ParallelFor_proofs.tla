-------------------------- MODULE ParallelFor_proofs --------------------------
(***************************************************************************)
(* For any number of streams and threads and for every batch: what goes    *)
(* wrong in a stream is reported as the one-thread run reports it          *)
(* (ParallelFor).                                                          *)
(*                                                                         *)
(* The argument.  A slot is handed out once, in order; one that fails is   *)
(* in the hands of a thread until it, or a lower one, is recorded          *)
(* (Accounted).  A thread's status is empty when it starts a stream, and   *)
(* then the stream's own, unless an allocation has failed, when it is no   *)
(* longer reported (StatusOwn).                                            *)
(***************************************************************************)
EXTENDS ParallelFor, TLAPS

Working == {"decode", "record"}

\* Which slots have been started, and where the threads are.
HandedOut ==
    /\ \A i \in Slots : starts[i] = IF i < slot THEN 1 ELSE 0
    /\ \A t \in Threads :
          /\ pc[t] \in Working => item[t] < slot
          /\ pc[t] \in {"join", "exit"} => slot >= N
          /\ pc[t] \in {"spawn", "join"} => t = Caller
          /\ Running => pc[t] # "end"
    /\ pc[Caller] = "spawn" => slot = 0 /\ \A t \in Helpers : pc[t] = "off"
    /\ pc[Caller] # "spawn" => \A t \in Threads : pc[t] = "off" <=> t \notin pool \cup {Caller}
    /\ ~Running => pc[Caller] # "spawn"

At(i, places) == \E t \in Threads : pc[t] \in places /\ item[t] = i

\* What goes wrong in a slot is in a thread's hands, or noted.
Accounted ==
    \A i \in Slots :
        i < slot =>
            /\ batch[i].ends = "fail" => At(i, Working) \/ (haveFail /\ failSlot <= i)
            /\ batch[i].ends = "badalloc" => At(i, {"decode"}) \/ oom \/ result = "badalloc"
            /\ batch[i].ends = "length" => At(i, {"decode"}) \/ result \in {"length", "terminated"}

\* What is noted did go wrong.
Recorded ==
    /\ \A t \in Threads : pc[t] = "record" => batch[item[t]].ends = "fail" /\ ~ok
    /\ haveFail =>
          /\ ~ok /\ failSlot < slot /\ batch[failSlot].ends = "fail"
          /\ oom \/ failCode = batch[failSlot].code
    /\ oom => ~ok
    /\ oom \/ result = "badalloc" =>
          \E i \in Slots : starts[i] > 0 /\ batch[i].ends = "badalloc"
    /\ ~ok => haveFail \/ oom \/ \E t \in Threads : pc[t] = "record"

StatusOwn ==
    Running /\ ~oom =>
        \A t \in Threads : status[t] = IF pc[t] = "record" THEN batch[item[t]].code ELSE 0

LoopIInv ==
    LoopTypeOK /\ HandedOut /\ Accounted /\ Recorded /\ StatusOwn /\ FailuresReported

-----------------------------------------------------------------------------
\* The loop starts with the invariant.
LEMMA InitLoopIInv == LoopInit => LoopIInv
<1> SUFFICES ASSUME LoopInit PROVE LoopIInv
  OBVIOUS
<1> USE ParallelAssumption DEF LoopInit
<1>1. LoopTypeOK
  <2>1. 0 \in Slots /\ Caller \in Threads
    BY DEF Slots, Threads
  <2> QED  BY <2>1 DEF LoopTypeOK
<1>2. HandedOut
  BY DEF HandedOut, Working, Running, Slots, Threads
<1>3. Accounted /\ Recorded
  BY DEF Accounted, Recorded, Slots, Threads
<1>4. StatusOwn
  BY DEF StatusOwn, Threads
<1>5. FailuresReported
  BY DEF FailuresReported, LowestSlotReported, OutOfMemoryRethrown, SuccessMeansAll
<1> QED
  BY <1>1, <1>2, <1>3, <1>4, <1>5 DEF LoopIInv

\* A failing slot that none undercuts is the lowest one.
LEMMA LowestFailing ==
    ASSUME LoopTypeOK, NEW s \in Slots, batch[s].ends = "fail",
           \A i \in Slots : batch[i].ends = "fail" => s <= i
    PROVE  s = Min(Failing)
<1>1. s \in Failing /\ \A i \in Failing : s <= i
  BY DEF Failing
<1>2. \A m \in Failing : (\A i \in Failing : m <= i) => m = s
  BY <1>1, ParallelAssumption DEF Failing, Slots
<1> QED
  BY <1>1, <1>2 DEF Min

-----------------------------------------------------------------------------
\* The types are kept by every step (ParallelForEach).
LEMMA TypeStep ==
    ASSUME LoopTypeOK, LoopNext \/ UNCHANGED loopVars
    PROVE  LoopTypeOK'
<1> USE ParallelAssumption DEF LoopTypeOK, MoveTo
<1>1. CASE UNCHANGED loopVars
  BY <1>1 DEF loopVars
<1>2. CASE Start
  BY <1>2 DEF Start
<1>3. CASE Finish
  BY <1>3 DEF Finish, Threads
<1>4. ASSUME NEW t \in Threads, Step(t) PROVE LoopTypeOK'
  <2>1. batch[item[t]] \in Outcome /\ batch[item[t]].code \in Nat
    BY DEF Outcome
  <2>2. CASE TakeSlot(t)
    <3>1. slot < N => slot \in Slots
      BY DEF Slots
    <3>2. CASE slot < N
      BY <2>2, <3>1, <3>2 DEF TakeSlot
    <3>3. CASE ~(slot < N)
      BY <2>2, <3>3 DEF TakeSlot
    <3> QED  BY <3>2, <3>3
  <2>3. CASE DecodeOk(t) \/ DecodeLengthError(t)
    BY <2>3 DEF DecodeOk, DecodeLengthError
  <2>4. CASE DecodeFails(t)
    BY <2>1, <2>4 DEF DecodeFails, NoteStatus
  <2>5. CASE DecodeBadAlloc(t)
    BY <2>1, <2>5 DEF DecodeBadAlloc, NoteStatus
  <2>6. CASE RecordFailure(t)
    BY <2>6 DEF RecordFailure
  <2> QED  BY <1>4, <2>2, <2>3, <2>4, <2>5, <2>6 DEF Step
<1> QED
  BY <1>1, <1>2, <1>3, <1>4 DEF LoopNext

-----------------------------------------------------------------------------
(* The steps of a thread *)

Others(t) == \A u \in Threads \ {t} : pc'[u] = pc[u] /\ item'[u] = item[u]

\* A slot leaves a thread's hands by a step of that thread.
LEMMA AtKept ==
    ASSUME NEW t \in Threads, Others(t), NEW i, NEW places, At(i, places)
    PROVE  At(i, places)' \/ (pc[t] \in places /\ item[t] = i)
  BY DEF At, Others

\* Where a step takes a thread, next to the others.
LEMMA HandedOutStep ==
    ASSUME LoopTypeOK, HandedOut, Running, NEW t \in Threads, Others(t),
           pc[t] \in Working, pc'[t] \notin {"off", "join", "exit", "spawn"},
           pc'[t] = "end" => ~Running',
           item' = item, slot' = slot, starts' = starts, pool' = pool
    PROVE  HandedOut'
<1>1. pc[Caller] # "spawn" /\ pc'[Caller] # "spawn"
  BY ParallelAssumption DEF HandedOut, Others, Working, Threads
<1>2. \A u \in Threads : pc'[u] \in Working => item'[u] < slot'
  BY DEF HandedOut, Others
<1>3. \A u \in Threads : (pc'[u] = "off" <=> pc[u] = "off")
  BY DEF Others, Working
<1> QED
  BY <1>1, <1>2, <1>3 DEF HandedOut, Others, Running

\* A thread that takes a slot keeps the rest of the invariant.
LEMMA TakeSlotStep ==
    ASSUME LoopIInv, NEW t \in Threads, TakeSlot(t)
    PROVE  HandedOut' /\ Accounted' /\ Recorded' /\ StatusOwn' /\ FailuresReported'
<1> USE ParallelAssumption
<1>1. /\ LoopTypeOK /\ Running /\ pc[t] = "take" /\ slot' = slot + 1
      /\ UNCHANGED <<batch, pool, status, haveFail, failSlot, failCode, ok, oom, bwt, result>>
  BY DEF TakeSlot, LoopIInv
<1>2. FailuresReported'
  BY <1>1 DEF FailuresReported, LowestSlotReported, OutOfMemoryRethrown, SuccessMeansAll, Running
<1>3. slot \in Nat /\ \A i \in Slots : i \in Nat /\ i < N
  BY DEF LoopIInv, LoopTypeOK, Slots
<1>4. CASE slot < N
  <2>1. /\ slot \in Slots /\ item' = [item EXCEPT ![t] = slot]
        /\ starts' = [starts EXCEPT ![slot] = @ + 1] /\ pc' = [pc EXCEPT ![t] = "decode"]
    BY <1>3, <1>4 DEF TakeSlot, MoveTo, Slots
  <2>2. pc'[t] = "decode" /\ item'[t] = slot /\ Others(t)
    BY <1>1, <2>1 DEF LoopTypeOK, Others
  <2>3. HandedOut'
    <3>1. \A i \in Slots : starts'[i] = IF i < slot' THEN 1 ELSE 0
      BY <1>1, <1>3, <2>1 DEF LoopIInv, LoopTypeOK, HandedOut
    <3>2. \A u \in Threads :
             /\ pc'[u] \in Working => item'[u] < slot'
             /\ pc'[u] \in {"join", "exit"} => slot' >= N
             /\ pc'[u] \in {"spawn", "join"} => u = Caller
             /\ pc'[u] # "end"
             /\ pc'[u] = "off" <=> pc[u] = "off"
      <4> SUFFICES ASSUME NEW u \in Threads
                   PROVE  /\ pc'[u] \in Working => item'[u] < slot + 1
                          /\ pc'[u] \in {"join", "exit"} => slot + 1 >= N
                          /\ pc'[u] \in {"spawn", "join"} => u = Caller
                          /\ pc'[u] # "end"
                          /\ pc'[u] = "off" <=> pc[u] = "off"
        BY <1>1
      <4>1. CASE u = t
        BY <1>1, <1>3, <2>2, <4>1
      <4>2. CASE u # t
        <5>1. item[u] \in Nat
          BY <1>1, <1>3 DEF LoopTypeOK
        <5> QED  BY <1>1, <1>3, <2>2, <4>2, <5>1 DEF LoopIInv, HandedOut, Others
      <4> QED  BY <4>1, <4>2
    <3>3. pc[Caller] # "spawn" /\ pc'[Caller] # "spawn"
      BY <1>1, <2>2 DEF LoopIInv, HandedOut, Others, Threads
    <3> QED  BY <1>1, <3>1, <3>2, <3>3 DEF LoopIInv, HandedOut, Running
  <2>4. Accounted'
    <3> SUFFICES ASSUME NEW i \in Slots, i < slot + 1
                 PROVE  /\ batch[i].ends = "fail" => At(i, Working)' \/ (haveFail /\ failSlot <= i)
                        /\ batch[i].ends = "badalloc"
                               => At(i, {"decode"})' \/ oom \/ result = "badalloc"
                        /\ batch[i].ends = "length"
                               => At(i, {"decode"})' \/ result \in {"length", "terminated"}
      BY <1>1 DEF Accounted, Working
    <3>1. CASE i = slot
      BY <2>2, <3>1 DEF At, Working
    <3>2. CASE i # slot
      <4>1. i < slot
        BY <1>3, <3>2
      <4>2. At(i, Working) => At(i, Working)'
        BY <1>1, <2>2, AtKept DEF Working
      <4>3. At(i, {"decode"}) => At(i, {"decode"})'
        BY <1>1, <2>2, AtKept
      <4> QED  BY <4>1, <4>2, <4>3 DEF LoopIInv, Accounted
    <3> QED  BY <3>1, <3>2
  <2>5. Recorded'
    <3>1. \A i \in Slots : starts[i] > 0 => starts'[i] > 0
      BY <1>1, <2>1 DEF LoopTypeOK
    <3>2. haveFail => failSlot < slot'
      BY <1>1, <1>3 DEF LoopIInv, LoopTypeOK, Recorded
    <3>3. \A u \in Threads : pc'[u] = "record" <=> pc[u] = "record"
      BY <1>1, <2>2 DEF Others
    <3>4. \A u \in Threads : pc[u] = "record" => item'[u] = item[u]
      BY <1>1, <2>2 DEF Others
    <3> QED  BY <1>1, <3>1, <3>2, <3>3, <3>4 DEF LoopIInv, Recorded
  <2>6. StatusOwn'
    BY <1>1, <2>2 DEF LoopIInv, StatusOwn, Others, Running
  <2> QED  BY <1>2, <2>3, <2>4, <2>5, <2>6
<1>5. CASE ~(slot < N)
  <2>1. /\ item' = item /\ starts' = starts
        /\ pc' = [pc EXCEPT ![t] = IF t = Caller THEN "join" ELSE "exit"]
    BY <1>5 DEF TakeSlot, MoveTo
  <2>2. pc'[t] \in {"join", "exit"} /\ (pc'[t] = "join" <=> t = Caller) /\ Others(t)
    BY <1>1, <2>1 DEF LoopTypeOK, Others
  <2>3. HandedOut'
    <3>1. \A i \in Slots : i < slot /\ i < slot'
      BY <1>1, <1>3, <1>5
    <3>2. \A u \in Threads :
             /\ pc'[u] \in Working => item'[u] < slot'
             /\ pc'[u] \in {"join", "exit"} => slot' >= N
             /\ pc'[u] \in {"spawn", "join"} => u = Caller
             /\ pc'[u] # "end"
             /\ pc'[u] = "off" <=> pc[u] = "off"
      <4> SUFFICES ASSUME NEW u \in Threads
                   PROVE  /\ pc'[u] \in Working => item[u] < slot + 1
                          /\ pc'[u] \in {"join", "exit"} => slot + 1 >= N
                          /\ pc'[u] \in {"spawn", "join"} => u = Caller
                          /\ pc'[u] # "end"
                          /\ pc'[u] = "off" <=> pc[u] = "off"
        BY <1>1, <2>1
      <4>1. slot + 1 >= N /\ item[u] < slot + 1
        <5>1. item[u] \in Slots
          BY <1>1 DEF LoopTypeOK
        <5> QED  BY <1>1, <1>3, <1>5, <5>1, <3>1
      <4>2. CASE u = t
        BY <1>1, <2>2, <4>1, <4>2 DEF Working
      <4>3. CASE u # t
        BY <1>1, <2>2, <4>1, <4>3 DEF LoopIInv, HandedOut, Others
      <4> QED  BY <4>2, <4>3
    <3>3. pc[Caller] # "spawn" /\ pc'[Caller] # "spawn"
      BY <1>1, <2>2 DEF LoopIInv, HandedOut, Others, Threads
    <3> QED  BY <1>1, <2>1, <3>1, <3>2, <3>3 DEF LoopIInv, HandedOut, Running
  <2>4. Accounted'
    <3> SUFFICES ASSUME NEW i \in Slots
                 PROVE  /\ batch[i].ends = "fail" => At(i, Working)' \/ (haveFail /\ failSlot <= i)
                        /\ batch[i].ends = "badalloc"
                               => At(i, {"decode"})' \/ oom \/ result = "badalloc"
                        /\ batch[i].ends = "length"
                               => At(i, {"decode"})' \/ result \in {"length", "terminated"}
      BY <1>1 DEF Accounted, Working
    <3>1. i < slot
      BY <1>3, <1>5
    <3>2. At(i, Working) => At(i, Working)'
      BY <1>1, <2>2, AtKept DEF Working
    <3>3. At(i, {"decode"}) => At(i, {"decode"})'
      BY <1>1, <2>2, AtKept
    <3> QED  BY <3>1, <3>2, <3>3 DEF LoopIInv, Accounted
  <2>5. Recorded'
    <3>1. haveFail => failSlot < slot'
      BY <1>1, <1>3 DEF LoopIInv, LoopTypeOK, Recorded
    <3>2. \A u \in Threads : pc'[u] = "record" <=> pc[u] = "record"
      BY <1>1, <2>2 DEF Others
    <3> QED  BY <1>1, <2>1, <3>1, <3>2 DEF LoopIInv, Recorded
  <2>6. StatusOwn'
    BY <1>1, <2>1, <2>2 DEF LoopIInv, StatusOwn, Others, Running
  <2> QED  BY <1>2, <2>3, <2>4, <2>5, <2>6
<1> QED
  BY <1>4, <1>5

\* A stream is decoded, or fails and is about to be recorded.
LEMMA DecodeStep ==
    ASSUME LoopIInv, NEW t \in Threads, DecodeOk(t) \/ DecodeFails(t)
    PROVE  HandedOut' /\ Accounted' /\ Recorded' /\ StatusOwn' /\ FailuresReported'
<1> USE ParallelAssumption
<1>1. /\ LoopTypeOK /\ Running /\ pc[t] = "decode"
      /\ UNCHANGED <<batch, pool, slot, item, haveFail, failSlot, failCode, oom, starts, bwt,
                     result>>
  BY DEF DecodeOk, DecodeFails, LoopIInv
<1>2. FailuresReported'
  BY <1>1 DEF FailuresReported, LowestSlotReported, OutOfMemoryRethrown, SuccessMeansAll, Running
<1>3. \/ /\ batch[item[t]].ends = "ok" /\ pc' = [pc EXCEPT ![t] = "take"]
         /\ ok' = ok /\ status' = status
      \/ /\ batch[item[t]].ends = "fail" /\ pc' = [pc EXCEPT ![t] = "record"]
         /\ ok' = FALSE
         /\ status' = [status EXCEPT ![t] = IF @ = 0 THEN batch[item[t]].code ELSE @]
  BY DEF DecodeOk, DecodeFails, MoveTo, NoteStatus
<1>4. Others(t) /\ pc'[t] \in {"take", "record"}
  BY <1>1, <1>3 DEF LoopTypeOK, Others
<1>5. HandedOut'
  BY <1>1, <1>4, HandedOutStep DEF LoopIInv, Working
<1>6. Accounted'
  <2> SUFFICES ASSUME NEW i \in Slots, i < slot
               PROVE  /\ batch[i].ends = "fail" => At(i, Working)' \/ (haveFail /\ failSlot <= i)
                      /\ batch[i].ends = "badalloc"
                             => At(i, {"decode"})' \/ oom \/ result = "badalloc"
                      /\ batch[i].ends = "length"
                             => At(i, {"decode"})' \/ result \in {"length", "terminated"}
    BY <1>1 DEF Accounted, Working
  <2>1. /\ batch[i].ends = "fail" => At(i, Working) \/ (haveFail /\ failSlot <= i)
        /\ batch[i].ends = "badalloc" => At(i, {"decode"}) \/ oom \/ result = "badalloc"
        /\ batch[i].ends = "length" => At(i, {"decode"}) \/ result \in {"length", "terminated"}
    BY DEF LoopIInv, Accounted
  <2>2. CASE item[t] = i
    <3>1. batch[i].ends = "fail" => At(i, Working)'
      BY <1>1, <1>3, <2>2 DEF At, Working, LoopTypeOK
    <3>2. batch[i].ends \notin {"badalloc", "length"}
      BY <1>3, <2>2
    <3> QED  BY <3>1, <3>2
  <2>3. CASE item[t] # i
    <3>1. At(i, Working) => At(i, Working)'
      BY <1>4, <2>3, AtKept DEF Working
    <3>2. At(i, {"decode"}) => At(i, {"decode"})'
      BY <1>4, <2>3, AtKept
    <3> QED  BY <2>1, <3>1, <3>2
  <2> QED  BY <2>2, <2>3
<1>7. Recorded'
  <2>1. \A u \in Threads : pc'[u] = "record" => batch[item[u]].ends = "fail" /\ ~ok'
    <3> SUFFICES ASSUME NEW u \in Threads, pc'[u] = "record"
                 PROVE  batch[item[u]].ends = "fail" /\ ~ok'
      OBVIOUS
    <3>1. CASE u = t
      BY <1>1, <1>3, <3>1 DEF LoopTypeOK
    <3>2. CASE u # t
      BY <1>3, <1>4, <3>2 DEF LoopIInv, Recorded, Others
    <3> QED  BY <3>1, <3>2
  <2>2. ~ok => ~ok'
    BY <1>3
  <2>3. ~ok' => haveFail \/ oom \/ \E u \in Threads : pc'[u] = "record"
    <3>1. CASE pc' = [pc EXCEPT ![t] = "record"]
      BY <1>1, <3>1 DEF LoopTypeOK
    <3>2. CASE pc' = [pc EXCEPT ![t] = "take"] /\ ok' = ok
      BY <1>1, <1>4, <3>2 DEF LoopIInv, Recorded, Others
    <3> QED  BY <1>3, <3>1, <3>2
  <2> QED  BY <1>1, <2>1, <2>2, <2>3 DEF LoopIInv, Recorded
<1>8. StatusOwn'
  <2> SUFFICES ASSUME ~oom, NEW u \in Threads
               PROVE  status'[u] = IF pc'[u] = "record" THEN batch[item[u]].code ELSE 0
    BY <1>1 DEF StatusOwn
  <2>1. status[u] = IF pc[u] = "record" THEN batch[item[u]].code ELSE 0
    BY <1>1 DEF LoopIInv, StatusOwn
  <2>2. CASE u = t
    BY <1>1, <1>3, <2>1, <2>2 DEF LoopTypeOK
  <2>3. CASE u # t
    <3>1. status'[u] = status[u]
      BY <1>1, <1>3, <2>3 DEF LoopTypeOK
    <3> QED  BY <1>4, <2>1, <2>3, <3>1 DEF Others
  <2> QED  BY <2>2, <2>3
<1> QED
  BY <1>2, <1>5, <1>6, <1>7, <1>8

\* A failure is recorded: the lowest slot stays.
LEMMA RecordStep ==
    ASSUME LoopIInv, NEW t \in Threads, RecordFailure(t)
    PROVE  HandedOut' /\ Accounted' /\ Recorded' /\ StatusOwn' /\ FailuresReported'
<1> USE ParallelAssumption
<1>1. /\ LoopTypeOK /\ Running /\ pc[t] = "record" /\ haveFail'
      /\ pc' = [pc EXCEPT ![t] = "take"] /\ status' = [status EXCEPT ![t] = 0]
      /\ UNCHANGED <<batch, pool, slot, item, ok, oom, starts, bwt, result>>
  BY DEF RecordFailure, MoveTo, LoopIInv
<1>2. FailuresReported'
  BY <1>1 DEF FailuresReported, LowestSlotReported, OutOfMemoryRethrown, SuccessMeansAll, Running
<1>3. IF ~haveFail \/ item[t] < failSlot
      THEN failSlot' = item[t] /\ failCode' = status[t]
      ELSE failSlot' = failSlot /\ failCode' = failCode
  BY DEF RecordFailure
<1>4. Others(t) /\ pc'[t] = "take"
  BY <1>1 DEF LoopTypeOK, Others
<1>5. HandedOut'
  BY <1>1, <1>4, HandedOutStep DEF LoopIInv, Working
<1>6. /\ item[t] \in Slots /\ item[t] < slot /\ batch[item[t]].ends = "fail" /\ ~ok
      /\ oom \/ status[t] = batch[item[t]].code
  <2>1. item[t] \in Slots
    BY <1>1 DEF LoopTypeOK
  <2>2. item[t] < slot
    BY <1>1 DEF LoopIInv, HandedOut, Working
  <2>3. batch[item[t]].ends = "fail" /\ ~ok
    BY <1>1 DEF LoopIInv, Recorded
  <2>4. oom \/ status[t] = batch[item[t]].code
    BY <1>1 DEF LoopIInv, StatusOwn
  <2> QED  BY <2>1, <2>2, <2>3, <2>4
<1>7. failSlot' <= item[t] /\ (haveFail => failSlot' <= failSlot)
  BY <1>1, <1>3, <1>6 DEF LoopTypeOK, Slots
<1>8. Accounted'
  <2> SUFFICES ASSUME NEW i \in Slots, i < slot
               PROVE  /\ batch[i].ends = "fail" => At(i, Working)' \/ failSlot' <= i
                      /\ batch[i].ends = "badalloc"
                             => At(i, {"decode"})' \/ oom \/ result = "badalloc"
                      /\ batch[i].ends = "length"
                             => At(i, {"decode"})' \/ result \in {"length", "terminated"}
    BY <1>1 DEF Accounted, Working
  <2>1. /\ batch[i].ends = "fail" => At(i, Working) \/ (haveFail /\ failSlot <= i)
        /\ batch[i].ends = "badalloc" => At(i, {"decode"}) \/ oom \/ result = "badalloc"
        /\ batch[i].ends = "length" => At(i, {"decode"}) \/ result \in {"length", "terminated"}
    BY DEF LoopIInv, Accounted
  <2>2. haveFail /\ failSlot <= i => failSlot' <= i
    BY <1>1, <1>3, <1>6, <1>7 DEF LoopTypeOK, Slots
  <2>3. At(i, Working) => At(i, Working)' \/ failSlot' <= i
    BY <1>4, <1>7, AtKept DEF Working
  <2>4. At(i, {"decode"}) => At(i, {"decode"})'
    BY <1>1, <1>4, AtKept
  <2> QED  BY <2>1, <2>2, <2>3, <2>4
<1>9. Recorded'
  <2>1. failSlot' < slot /\ batch[failSlot'].ends = "fail"
    BY <1>3, <1>6 DEF LoopIInv, Recorded
  <2>2. oom \/ failCode' = batch[failSlot'].code
    BY <1>3, <1>6 DEF LoopIInv, Recorded
  <2>3. \A u \in Threads : pc'[u] = "record" => pc[u] = "record"
    BY <1>4 DEF Others
  <2> QED  BY <1>1, <1>6, <2>1, <2>2, <2>3 DEF LoopIInv, Recorded
<1>10. StatusOwn'
  <2> SUFFICES ASSUME ~oom, NEW u \in Threads
               PROVE  status'[u] = IF pc'[u] = "record" THEN batch[item[u]].code ELSE 0
    BY <1>1 DEF StatusOwn
  <2>1. status[u] = IF pc[u] = "record" THEN batch[item[u]].code ELSE 0
    BY <1>1 DEF LoopIInv, StatusOwn
  <2>2. CASE u = t
    BY <1>1, <1>4, <2>2 DEF LoopTypeOK
  <2>3. CASE u # t
    BY <1>1, <1>4, <2>1, <2>3 DEF Others
  <2> QED  BY <2>2, <2>3
<1> QED
  BY <1>2, <1>5, <1>8, <1>9, <1>10

\* A failed allocation is noted, or leaves the loop that runs alone.
LEMMA BadAllocStep ==
    ASSUME LoopIInv, NEW t \in Threads, DecodeBadAlloc(t)
    PROVE  HandedOut' /\ Accounted' /\ Recorded' /\ StatusOwn' /\ FailuresReported'
<1> USE ParallelAssumption
<1>1. /\ LoopTypeOK /\ Running /\ pc[t] = "decode" /\ batch[item[t]].ends = "badalloc"
      /\ UNCHANGED <<batch, pool, slot, item, haveFail, failSlot, failCode, starts, bwt>>
  BY DEF DecodeBadAlloc, LoopIInv
<1>2. \/ /\ result' = "badalloc" /\ pc' = [pc EXCEPT ![t] = "end"] /\ ok' = ok /\ oom' = oom
      \/ /\ oom' = TRUE /\ ok' = FALSE /\ pc' = [pc EXCEPT ![t] = "take"] /\ result' = result
  BY DEF DecodeBadAlloc, MoveTo
<1>3. Others(t) /\ pc'[t] \in {"take", "end"} /\ (pc'[t] = "end" => ~Running')
  BY <1>1, <1>2 DEF LoopTypeOK, Others, Running
<1>4. item[t] \in Slots /\ starts[item[t]] > 0
  <2>1. item[t] \in Slots
    BY <1>1 DEF LoopTypeOK
  <2>2. item[t] < slot
    BY <1>1 DEF LoopIInv, HandedOut, Working
  <2> QED  BY <2>1, <2>2 DEF LoopIInv, HandedOut
<1>5. HandedOut'
  BY <1>1, <1>3, HandedOutStep DEF LoopIInv, Working
<1>6. Accounted'
  <2> SUFFICES ASSUME NEW i \in Slots, i < slot
               PROVE  /\ batch[i].ends = "fail" => At(i, Working)' \/ (haveFail /\ failSlot <= i)
                      /\ batch[i].ends = "badalloc"
                             => At(i, {"decode"})' \/ oom' \/ result' = "badalloc"
                      /\ batch[i].ends = "length"
                             => At(i, {"decode"})' \/ result' \in {"length", "terminated"}
    BY <1>1 DEF Accounted, Working
  <2>1. /\ batch[i].ends = "fail" => At(i, Working) \/ (haveFail /\ failSlot <= i)
        /\ batch[i].ends = "length" => At(i, {"decode"}) \/ result \in {"length", "terminated"}
    BY DEF LoopIInv, Accounted
  <2>2. At(i, Working) => At(i, Working)' \/ batch[i].ends = "badalloc"
    BY <1>1, <1>3, AtKept DEF Working
  <2>3. At(i, {"decode"}) => At(i, {"decode"})' \/ batch[i].ends = "badalloc"
    BY <1>1, <1>3, AtKept
  <2> QED  BY <1>1, <1>2, <2>1, <2>2, <2>3 DEF Running
<1>7. Recorded'
  <2>1. \A u \in Threads : pc'[u] = "record" => pc[u] = "record"
    BY <1>3 DEF Others
  <2>2. \A u \in Threads : pc[u] = "record" => pc'[u] = "record"
    BY <1>1, <1>3 DEF Others
  <2>3. \E i \in Slots : starts[i] > 0 /\ batch[i].ends = "badalloc"
    BY <1>1, <1>4
  <2> QED  BY <1>1, <1>2, <2>1, <2>2, <2>3 DEF LoopIInv, Recorded
<1>8. StatusOwn'
  BY <1>2 DEF StatusOwn, Running
<1>9. FailuresReported'
  BY <1>1, <1>2, <1>4
     DEF FailuresReported, LowestSlotReported, OutOfMemoryRethrown, SuccessMeansAll, Running
<1> QED
  BY <1>5, <1>6, <1>7, <1>8, <1>9

\* A length error leaves the loop that runs alone, or ends the process.
LEMMA LengthErrorStep ==
    ASSUME LoopIInv, NEW t \in Threads, DecodeLengthError(t)
    PROVE  HandedOut' /\ Accounted' /\ Recorded' /\ StatusOwn' /\ FailuresReported'
<1> USE ParallelAssumption
<1>1. /\ LoopTypeOK /\ Running /\ pc[t] = "decode" /\ batch[item[t]].ends = "length"
      /\ result' \in {"length", "terminated"} /\ pc' = [pc EXCEPT ![t] = "end"]
      /\ UNCHANGED <<batch, pool, slot, item, status, haveFail, failSlot, failCode, ok, oom,
                     starts, bwt>>
  BY DEF DecodeLengthError, MoveTo, LoopIInv
<1>2. Others(t) /\ pc'[t] = "end" /\ ~Running'
  BY <1>1 DEF LoopTypeOK, Others, Running
<1>3. HandedOut'
  BY <1>1, <1>2, HandedOutStep DEF LoopIInv, Working
<1>4. Accounted'
  <2> SUFFICES ASSUME NEW i \in Slots, i < slot
               PROVE  /\ batch[i].ends = "fail" => At(i, Working)' \/ (haveFail /\ failSlot <= i)
                      /\ batch[i].ends = "badalloc" => At(i, {"decode"})' \/ oom
    BY <1>1 DEF Accounted, Working
  <2>1. /\ batch[i].ends = "fail" => At(i, Working) \/ (haveFail /\ failSlot <= i)
        /\ batch[i].ends = "badalloc" => At(i, {"decode"}) \/ oom
    BY <1>1 DEF LoopIInv, Accounted, Running
  <2>2. At(i, Working) => At(i, Working)' \/ batch[i].ends = "length"
    BY <1>1, <1>2, AtKept DEF Working
  <2>3. At(i, {"decode"}) => At(i, {"decode"})' \/ batch[i].ends = "length"
    BY <1>1, <1>2, AtKept
  <2> QED  BY <2>1, <2>2, <2>3
<1>5. Recorded'
  <2>1. \A u \in Threads : pc'[u] = "record" <=> pc[u] = "record"
    BY <1>1, <1>2 DEF Others
  <2> QED  BY <1>1, <2>1 DEF LoopIInv, Recorded
<1>6. StatusOwn' /\ FailuresReported'
  BY <1>1 DEF StatusOwn, FailuresReported, LowestSlotReported, OutOfMemoryRethrown,
              SuccessMeansAll, Running
<1> QED
  BY <1>3, <1>4, <1>5, <1>6

-----------------------------------------------------------------------------
(* The calling thread *)

\* So does the caller that starts the threads.
LEMMA StartStep ==
    ASSUME LoopIInv, Start
    PROVE  HandedOut' /\ Accounted' /\ Recorded' /\ StatusOwn' /\ FailuresReported'
<1> USE ParallelAssumption
<1>1. /\ LoopTypeOK /\ pc[Caller] = "spawn" /\ Running /\ slot = 0
      /\ \A t \in Threads : pc[t] \in {"off", "spawn"}
      /\ pc' = [t \in Threads |-> IF t \in pool \cup {Caller} THEN "take" ELSE "off"]
      /\ UNCHANGED <<batch, pool, slot, item, status, haveFail, failSlot, failCode, ok, oom,
                     starts, result>>
  BY DEF Start, LoopIInv, HandedOut, Threads
<1>2. HandedOut'
  BY <1>1 DEF LoopIInv, HandedOut, Running, Working, Threads
<1>3. Accounted'
  BY <1>1 DEF Accounted, Slots
<1>4. Recorded'
  BY <1>1 DEF LoopIInv, Recorded
<1>5. StatusOwn' /\ FailuresReported'
  BY <1>1 DEF LoopIInv, StatusOwn, FailuresReported, LowestSlotReported, OutOfMemoryRethrown,
              SuccessMeansAll, Running
<1> QED
  BY <1>2, <1>3, <1>4, <1>5

\* When every thread is through, every slot is accounted for.
LEMMA FinishStep ==
    ASSUME LoopIInv, Finish
    PROVE  HandedOut' /\ Accounted' /\ Recorded' /\ StatusOwn' /\ FailuresReported'
<1> USE ParallelAssumption
<1>1. /\ LoopTypeOK /\ Running /\ pc[Caller] = "join" /\ \A t \in pool : pc[t] = "exit"
      /\ result' = IF oom THEN "badalloc" ELSE IF ok THEN "true" ELSE "false"
      /\ status' = IF oom \/ ~haveFail THEN status
                   ELSE [status EXCEPT ![Caller] = IF failCode = 0 THEN 100 ELSE failCode]
      /\ pc' = [pc EXCEPT ![Caller] = "end"]
      /\ UNCHANGED <<batch, pool, slot, item, haveFail, failSlot, failCode, ok, oom, starts>>
  BY DEF Finish, MoveTo, LoopIInv
<1>2. /\ Caller \in Threads /\ slot >= N
      /\ \A t \in Threads : pc[t] \in {"off", "exit", "join"}
  BY <1>1 DEF LoopIInv, HandedOut, Threads
<1>3. /\ \A t \in Threads \ {Caller} : pc'[t] = pc[t]
      /\ pc'[Caller] = "end" /\ ~Running'
  BY <1>1, <1>2 DEF LoopTypeOK, Running
<1>4. \A i \in Slots : i < slot /\ starts[i] = 1
  BY <1>1, <1>2 DEF LoopIInv, LoopTypeOK, HandedOut, Slots
<1>5. \A i \in Slots, places \in {Working, {"decode"}} : ~At(i, places)
  BY <1>2 DEF At, Working
<1>6. /\ \A i \in Slots : batch[i].ends = "fail" => haveFail /\ failSlot <= i
      /\ \A i \in Slots : batch[i].ends = "badalloc" => oom
      /\ \A i \in Slots : batch[i].ends # "length"
  BY <1>1, <1>4, <1>5 DEF LoopIInv, Accounted, Running
<1>7. HandedOut'
  BY <1>1, <1>2, <1>3 DEF LoopIInv, HandedOut, Running, Working
<1>8. Accounted'
  BY <1>1, <1>6 DEF Accounted
<1>9. Recorded'
  BY <1>1, <1>2, <1>3 DEF LoopIInv, Recorded, Threads
<1>10. StatusOwn'
  BY <1>3 DEF StatusOwn
<1>11. LowestSlotReported'
  <2> SUFFICES ASSUME ~oom, ~ok
               PROVE  /\ failSlot = Min(Failing)
                      /\ status'[Caller] = IF batch[failSlot].code = 0 THEN 100
                                           ELSE batch[failSlot].code
    BY <1>1 DEF LowestSlotReported, Failing
  <2>1. haveFail /\ failSlot \in Slots /\ batch[failSlot].ends = "fail"
        /\ failCode = batch[failSlot].code
    BY <1>1, <1>2 DEF LoopIInv, Recorded, LoopTypeOK
  <2>2. failSlot = Min(Failing)
    BY <1>1, <1>6, <2>1, LowestFailing
  <2>3. status'[Caller] = IF failCode = 0 THEN 100 ELSE failCode
    BY <1>1, <1>2, <2>1 DEF LoopTypeOK
  <2> QED  BY <2>1, <2>2, <2>3
<1>12. OutOfMemoryRethrown'
  <2>1. result' = "badalloc" <=> oom
    BY <1>1
  <2>2. oom <=> \E i \in Slots : batch[i].ends = "badalloc" /\ starts[i] > 0
    BY <1>6 DEF LoopIInv, Recorded
  <2> QED  BY <1>1, <2>1, <2>2 DEF OutOfMemoryRethrown
<1>13. SuccessMeansAll'
  <2> SUFFICES ASSUME ok, ~oom, NEW i \in Slots PROVE batch[i].ends = "ok"
    BY <1>1, <1>4 DEF SuccessMeansAll
  <2>1. ~haveFail
    BY DEF LoopIInv, Recorded
  <2>2. batch[i] \in Outcome
    BY <1>1 DEF LoopTypeOK
  <2> QED  BY <1>6, <2>1, <2>2 DEF Outcome
<1> QED
  BY <1>7, <1>8, <1>9, <1>10, <1>11, <1>12, <1>13 DEF FailuresReported

-----------------------------------------------------------------------------
\* Every step keeps the invariant.
LEMMA StepLoopIInv == LoopIInv /\ [LoopNext \/ LoopTerminated]_loopVars => LoopIInv'
<1> SUFFICES ASSUME LoopIInv, LoopNext \/ UNCHANGED loopVars PROVE LoopIInv'
  BY DEF LoopTerminated
<1>1. LoopTypeOK'
  BY TypeStep DEF LoopIInv
<1>2. CASE UNCHANGED loopVars
  BY <1>1, <1>2 DEF loopVars, LoopIInv, HandedOut, Accounted, At, Recorded, StatusOwn, Running,
                    FailuresReported, LowestSlotReported, Failing, OutOfMemoryRethrown,
                    SuccessMeansAll
<1>3. CASE LoopNext
  BY <1>1, <1>3, StartStep, FinishStep, TakeSlotStep, DecodeStep, RecordStep, BadAllocStep,
     LengthErrorStep DEF LoopNext, Step, LoopIInv
<1> QED
  BY <1>2, <1>3

\* The types hold throughout.
THEOREM LoopTypeCorrect == LoopSpec => []LoopTypeOK
<1>1. LoopIInv => LoopTypeOK
  BY DEF LoopIInv
<1> QED
  BY InitLoopIInv, StepLoopIInv, <1>1, PTL DEF LoopSpec

\* For any number of streams and threads and for every batch: a failed batch reports the
\* lowest slot that failed with the status of that slot's own decoder, a failed
\* allocation is thrown again, and success means that every stream was decoded.
THEOREM ReportIsSerial == LoopSpec => []FailuresReported
<1>1. LoopIInv => FailuresReported
  BY DEF LoopIInv
<1> QED
  BY InitLoopIInv, StepLoopIInv, <1>1, PTL DEF LoopSpec
=============================================================================
