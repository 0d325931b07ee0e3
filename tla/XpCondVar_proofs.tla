--------------------------- MODULE XpCondVar_proofs ---------------------------
(***************************************************************************)
(* The queue of waiters of nz_xp_compat.cpp, for any number of threads:    *)
(* nothing dangling in the queue, and no waiter that a wake cannot reach.  *)
(***************************************************************************)
EXTENDS XpCondVar, TLAPS

\* A call that has got past CondOf works on the XpCond the slot names: without
\* this a waiter could be queued where no waker looks.
UsesSlot ==
    \A t \in Threads :
        pc[t] \in {"enqueue", "leavecs", "blocked", "relock", "wakesome"}
            => mine[t] = slot /\ slot # NoThread

\* What the thread that allocated an XpCond compares and exchanges with.
CasOwn == \A t \in Threads : pc[t] = "cas" => mine[t] \in Conds

IInv ==
    /\ TypeOK /\ QueuedAreWaiting /\ NoLostWaiter /\ EventMeansSignaled
    /\ UsesSlot /\ CasOwn

-----------------------------------------------------------------------------
(* The operations on the queue. *)

\* Appending a thread that is not queued keeps the queue free of repeats.
LEMMA AppendFacts ==
    ASSUME NEW S, NEW q \in Seq(S), NEW e \in S, IsInjective(q), e \notin ToSet(q)
    PROVE  /\ Append(q, e) \in Seq(S)
           /\ IsInjective(Append(q, e))
           /\ ToSet(Append(q, e)) = ToSet(q) \cup {e}
<1>1. Append(q, e) \in Seq(S)
  OBVIOUS
<1>2. \A i \in 1..Len(q) : Append(q, e)[i] = q[i] /\ q[i] # e
  BY DEF ToSet
<1>3. Len(Append(q, e)) = Len(q) + 1 /\ Append(q, e)[Len(q) + 1] = e
  OBVIOUS
<1>4. IsInjective(Append(q, e))
  BY <1>1, <1>2, <1>3 DEF IsInjective
<1>5. ToSet(Append(q, e)) = ToSet(q) \cup {e}
  BY <1>1, <1>2, <1>3 DEF ToSet
<1> QED
  BY <1>1, <1>4, <1>5

\* Taking the head off leaves the other threads, each still once.
LEMMA TailFacts ==
    ASSUME NEW S, NEW q \in Seq(S), IsInjective(q), q # <<>>
    PROVE  /\ Tail(q) \in Seq(S) /\ IsInjective(Tail(q))
           /\ Head(q) \in ToSet(q)
           /\ ToSet(Tail(q)) = ToSet(q) \ {Head(q)}
<1>1. /\ Tail(q) \in Seq(S) /\ Len(Tail(q)) = Len(q) - 1 /\ Len(q) \in Nat \ {0}
      /\ Head(q) = q[1]
      /\ \A i \in 1 .. Len(q) - 1 : Tail(q)[i] = q[i + 1]
  OBVIOUS
<1>2. IsInjective(Tail(q))
  BY <1>1 DEF IsInjective
<1>3. Head(q) \in ToSet(q)
  BY <1>1 DEF ToSet
<1>4. ToSet(Tail(q)) \subseteq ToSet(q) \ {Head(q)}
  BY <1>1 DEF ToSet, IsInjective
<1>5. ASSUME NEW i \in 1..Len(q), q[i] # q[1]
      PROVE  q[i] \in ToSet(Tail(q))
  <2>1. i - 1 \in 1 .. Len(q) - 1 /\ Tail(q)[i - 1] = q[i]
    BY <1>1, <1>5
  <2>2. DOMAIN Tail(q) = 1 .. Len(q) - 1
    BY <1>1
  <2> QED
    BY <2>1, <2>2 DEF ToSet
<1>6. ToSet(q) \ {Head(q)} \subseteq ToSet(Tail(q))
  BY <1>1, <1>5 DEF ToSet
<1> QED
  BY <1>1, <1>2, <1>3, <1>4, <1>6

\* Unlinking a thread leaves the others, each still once.
LEMMA UnlinkFacts ==
    ASSUME NEW S, NEW q \in Seq(S), NEW e \in S, IsInjective(q)
    PROVE  /\ Unlink(q, e) \in Seq(S)
           /\ IsInjective(Unlink(q, e))
           /\ ToSet(Unlink(q, e)) = ToSet(q) \ {e}
<1>1. CASE e \notin ToSet(q)
  BY <1>1 DEF Unlink
<1>2. CASE e \in ToSet(q)
  <2> DEFINE at == CHOOSE i \in DOMAIN q : q[i] = e
             r == [i \in 1 .. Len(q) - 1 |-> IF i < at THEN q[i] ELSE q[i + 1]]
  <2>1. at \in 1..Len(q) /\ q[at] = e
    BY <1>2 DEF ToSet
  <2>2. Unlink(q, e) = r
    BY <1>2 DEF Unlink
  <2> HIDE DEF at
  <2>3. r \in Seq(S) /\ Len(r) = Len(q) - 1
    BY <2>1
  <2>4. IsInjective(r)
    BY <2>1, <2>3 DEF IsInjective
  <2>5. ToSet(r) \subseteq ToSet(q) \ {e}
    BY <2>1, <2>3 DEF IsInjective, ToSet
  <2>6. ASSUME NEW i \in 1..Len(q), q[i] # e
        PROVE  q[i] \in ToSet(r)
    <3>1. CASE i < at
      <4>1. i \in 1 .. Len(q) - 1 /\ r[i] = q[i]
        BY <2>1, <3>1
      <4> QED  BY <4>1, <2>3 DEF ToSet
    <3>2. CASE i > at
      <4>1. i - 1 \in 1 .. Len(q) - 1 /\ r[i - 1] = q[i]
        BY <2>1, <3>2
      <4> QED  BY <4>1, <2>3 DEF ToSet
    <3> QED  BY <2>1, <2>6, <3>1, <3>2
  <2>7. ToSet(q) \ {e} \subseteq ToSet(r)
    BY <2>6 DEF ToSet
  <2> QED
    BY <2>2, <2>3, <2>4, <2>5, <2>7
<1> QED
  BY <1>1, <1>2
-----------------------------------------------------------------------------
\* The invariant holds initially: no state behind the slot, nobody in a call.
LEMMA InitIInv == Init => IInv
<1> SUFFICES ASSUME Init PROVE IInv
  OBVIOUS
<1>1. TypeOK
  <2>1. gMode \in 0..2 /\ queue \in [Conds -> Seq(Threads)]
    BY DEF Init
  <2>2. /\ slot \in Conds \cup {NoThread} /\ cs \in Threads \cup {NoThread}
        /\ mine \in [Threads -> Conds \cup {NoThread}]
    BY DEF Init
  <2>3. pc \in [Threads -> Places] /\ op \in [Threads -> Ops]
    BY DEF Init, Places, Ops
  <2>4. /\ native \in BOOLEAN /\ gNative \in BOOLEAN
        /\ event \in [Threads -> BOOLEAN] /\ signaled \in [Threads -> BOOLEAN]
    BY DEF Init
  <2> QED
    BY <2>1, <2>2, <2>3, <2>4 DEF TypeOK
<1>2. QueuedAreWaiting
  BY DEF Init, QueuedAreWaiting, Conds, IsInjective, ToSet
<1>3. NoLostWaiter /\ EventMeansSignaled /\ UsesSlot /\ CasOwn
  BY DEF Init, NoLostWaiter, EventMeansSignaled, UsesSlot, CasOwn, InWait
<1> QED
  BY <1>1, <1>2, <1>3 DEF IInv

\* The steps that move a thread along without touching any queue, the slot or a
\* Waiter: they neither start nor end a wait.
LEMMA OutsideIInv ==
    ASSUME NEW t \in Threads, IInv,
           \/ EnterCs(t) \/ ExitCs(t) \/ (\E o \in Ops : Call(t, o))
           \/ ResolveKnown(t) \/ ResolveLookup(t) \/ ResolvePublish(t)
           \/ NativeCall(t) \/ CondOfNoMemory(t) \/ SleepNoEvent(t)
    PROVE  IInv'
<1> USE DEF IInv, TypeOK, Conds, Ops, Places, Goto, AfterResolve
<1>1. TypeOK'
  <2>1. CASE EnterCs(t)
    BY <2>1, XpAssumption DEF EnterCs
  <2>2. CASE ExitCs(t)
    BY <2>2, XpAssumption DEF ExitCs
  <2>3. CASE \E o \in Ops : Call(t, o)
    BY <2>3, XpAssumption DEF Call
  <2>4. CASE ResolveKnown(t)
    BY <2>4, XpAssumption DEF ResolveKnown
  <2>5. CASE ResolveLookup(t)
    BY <2>5, XpAssumption DEF ResolveLookup
  <2>6. CASE ResolvePublish(t)
    BY <2>6, XpAssumption DEF ResolvePublish
  <2>7. CASE NativeCall(t)
    BY <2>7, XpAssumption DEF NativeCall
  <2>8. CASE CondOfNoMemory(t)
    BY <2>8, XpAssumption DEF CondOfNoMemory
  <2>9. CASE SleepNoEvent(t)
    BY <2>9, XpAssumption DEF SleepNoEvent
  <2> QED
    BY <2>1, <2>2, <2>3, <2>4, <2>5, <2>6, <2>7, <2>8, <2>9
<1>2. /\ slot' = slot /\ queue' = queue /\ mine' = mine
      /\ event' = event /\ signaled' = signaled
      /\ \A u \in Threads : pc'[u] # pc[u] =>
            /\ pc[u] \notin {"leavecs", "blocked", "relock"}
            /\ pc'[u] \in {"resolve", "publish", "native", "condof", "idle"}
  <2>1. CASE EnterCs(t)
    BY <2>1, XpAssumption DEF EnterCs
  <2>2. CASE ExitCs(t)
    BY <2>2, XpAssumption DEF ExitCs
  <2>3. CASE \E o \in Ops : Call(t, o)
    BY <2>3, XpAssumption DEF Call
  <2>4. CASE ResolveKnown(t)
    BY <2>4, XpAssumption DEF ResolveKnown
  <2>5. CASE ResolveLookup(t)
    BY <2>5, XpAssumption DEF ResolveLookup
  <2>6. CASE ResolvePublish(t)
    BY <2>6, XpAssumption DEF ResolvePublish
  <2>7. CASE NativeCall(t)
    BY <2>7, XpAssumption DEF NativeCall
  <2>8. CASE CondOfNoMemory(t)
    BY <2>8, XpAssumption DEF CondOfNoMemory
  <2>9. CASE SleepNoEvent(t)
    BY <2>9, XpAssumption DEF SleepNoEvent
  <2> QED
    BY <2>1, <2>2, <2>3, <2>4, <2>5, <2>6, <2>7, <2>8, <2>9
<1>3. \A u \in Threads : (InWait(u)' <=> InWait(u))
  BY <1>2 DEF InWait
<1>4. QueuedAreWaiting'
  BY <1>2, <1>3 DEF QueuedAreWaiting, ToSet
<1>5. NoLostWaiter' /\ EventMeansSignaled'
  BY <1>2, <1>3 DEF NoLostWaiter, EventMeansSignaled
<1>6. UsesSlot' /\ CasOwn'
  BY <1>2 DEF UsesSlot, CasOwn
<1> QED
  BY <1>1, <1>4, <1>5, <1>6

\* CondOf: with nothing behind the slot nobody waits, so the first exchange may
\* put any XpCond there.
LEMMA CondOfIInv ==
    ASSUME NEW t \in Threads, IInv, CondOfFound(t) \/ CondOfAlloc(t) \/ CondOfCas(t)
    PROVE  IInv'
<1> USE DEF IInv, TypeOK, Conds, Ops, Places, Goto, AfterCondOf
<1>1. TypeOK'
  <2>1. CASE CondOfFound(t)
    BY <2>1, XpAssumption DEF CondOfFound, CasOwn
  <2>2. CASE CondOfAlloc(t)
    BY <2>2, XpAssumption DEF CondOfAlloc, CasOwn
  <2>3. CASE CondOfCas(t)
    BY <2>3, XpAssumption DEF CondOfCas, CasOwn
  <2> QED
    BY <2>1, <2>2, <2>3
<1>2. /\ event' = event /\ signaled' = signaled
      /\ \A u \in Threads : (InWait(u)' <=> InWait(u))
  BY DEF CondOfFound, CondOfAlloc, CondOfCas, InWait
<1>3. slot = NoThread => \A c \in Conds : queue[c] = <<>>
  BY XpAssumption DEF QueuedAreWaiting
<1>4. queue' = queue
  BY <1>3 DEF CondOfFound, CondOfAlloc, CondOfCas
<1>5. slot # NoThread => slot' = slot
  BY DEF CondOfFound, CondOfAlloc, CondOfCas
<1>6. QueuedAreWaiting'
  BY <1>2, <1>3, <1>4, <1>5 DEF QueuedAreWaiting, ToSet
<1>7. NoLostWaiter' /\ EventMeansSignaled'
  BY <1>2, <1>4, <1>5 DEF NoLostWaiter, EventMeansSignaled, UsesSlot, InWait
<1>8. UsesSlot'
  <2>1. CASE CondOfFound(t)
    BY <2>1 DEF CondOfFound, UsesSlot
  <2>2. CASE CondOfAlloc(t)
    BY <2>2 DEF CondOfAlloc, UsesSlot
  <2>3. CASE CondOfCas(t)
    BY <2>3, XpAssumption DEF CondOfCas, UsesSlot, CasOwn
  <2> QED  BY <2>1, <2>2, <2>3
<1>9. CasOwn'
  BY DEF CondOfFound, CondOfAlloc, CondOfCas, CasOwn
<1> QED
  BY <1>1, <1>6, <1>7, <1>8, <1>9

\* A sleeper queues itself where the wakers look, while it still holds cs.
LEMMA EnqueueIInv ==
    ASSUME NEW t \in Threads, IInv, SleepEnqueue(t)
    PROVE  IInv'
<1> USE DEF IInv, TypeOK, Conds, Ops, Places, Goto
<1>1. pc[t] = "enqueue" /\ mine[t] = slot /\ slot \in Conds
  BY DEF SleepEnqueue, UsesSlot
<1> DEFINE q == queue[slot]
<1>2. q \in Seq(Threads) /\ IsInjective(q) /\ t \notin ToSet(q)
  BY <1>1 DEF QueuedAreWaiting, InWait
<1>3. /\ Append(q, t) \in Seq(Threads) /\ IsInjective(Append(q, t))
      /\ ToSet(Append(q, t)) = ToSet(q) \cup {t}
  BY <1>2, AppendFacts
<1>4. queue' = [queue EXCEPT ![slot] = Append(q, t)] /\ slot' = slot
  BY <1>1 DEF SleepEnqueue
<1>5. TypeOK'
  BY <1>3, <1>4 DEF SleepEnqueue
<1>6. \A u \in Threads \ {t} : (InWait(u)' <=> InWait(u)) /\ signaled'[u] = signaled[u]
                                /\ event'[u] = event[u]
  BY DEF SleepEnqueue, InWait
<1>7. InWait(t)' /\ ~signaled'[t] /\ ~event'[t]
  BY DEF SleepEnqueue, InWait
<1>8. ToSet(queue'[slot]) = ToSet(q) \cup {t}
  BY <1>1, <1>3, <1>4
<1>9. QueuedAreWaiting'
  <2> SUFFICES ASSUME NEW c \in Conds
               PROVE  /\ IsInjective(queue'[c])
                      /\ queue'[c] # <<>> => c = slot
                      /\ \A u \in ToSet(queue'[c]) : InWait(u)' /\ ~signaled'[u]
    BY <1>4 DEF QueuedAreWaiting
  <2>1. CASE c = slot
    <3>1. \A u \in ToSet(q) : u \in Threads \ {t} /\ InWait(u) /\ ~signaled[u]
      BY <1>1, <1>2 DEF QueuedAreWaiting, ToSet
    <3>2. queue'[c] = Append(q, t)
      BY <2>1, <1>1, <1>4
    <3> QED  BY <2>1, <3>1, <3>2, <1>3, <1>6, <1>7
  <2>2. CASE c # slot
    <3>1. queue'[c] = <<>>
      BY <2>2, <1>4 DEF QueuedAreWaiting
    <3> QED  BY <3>1, <2>2 DEF IsInjective, ToSet
  <2> QED  BY <2>1, <2>2
<1>10. NoLostWaiter'
  BY <1>1, <1>4, <1>6, <1>7, <1>8, XpAssumption DEF NoLostWaiter
<1>11. EventMeansSignaled'
  BY <1>6, <1>7 DEF EventMeansSignaled
<1>12. UsesSlot' /\ CasOwn'
  BY <1>1 DEF UsesSlot, CasOwn, SleepEnqueue
<1> QED
  BY <1>5, <1>9, <1>10, <1>11, <1>12

\* Leaving cs and coming out of WaitForSingleObject change no queue.
LEMMA BlockIInv ==
    ASSUME NEW t \in Threads, IInv,
           \/ SleepLeaveCs(t) \/ SleepEventSet(t) \/ SleepTimesOut(t) \/ SleepReenter(t)
    PROVE  IInv'
<1> USE DEF IInv, TypeOK, Conds, Ops, Places, Goto
<1>1. TypeOK'
  BY XpAssumption DEF SleepLeaveCs, SleepEventSet, SleepTimesOut, SleepReenter
<1>2. /\ slot' = slot /\ queue' = queue /\ mine' = mine /\ signaled' = signaled
      /\ \A u \in Threads : (InWait(u)' <=> InWait(u))
      /\ \A u \in Threads : event'[u] => event[u]
  <2>1. CASE SleepLeaveCs(t)
    BY <2>1, XpAssumption DEF SleepLeaveCs, InWait
  <2>2. CASE SleepEventSet(t)
    BY <2>2, XpAssumption DEF SleepEventSet, InWait
  <2>3. CASE SleepTimesOut(t)
    BY <2>3, XpAssumption DEF SleepTimesOut, InWait
  <2>4. CASE SleepReenter(t)
    BY <2>4, XpAssumption DEF SleepReenter, InWait
  <2> QED
    BY <2>1, <2>2, <2>3, <2>4
<1>3. QueuedAreWaiting'
  BY <1>2 DEF QueuedAreWaiting, ToSet
<1>4. NoLostWaiter' /\ EventMeansSignaled'
  BY <1>2 DEF NoLostWaiter, EventMeansSignaled
<1>5. UsesSlot' /\ CasOwn'
  BY <1>2 DEF UsesSlot, CasOwn, SleepLeaveCs, SleepEventSet, SleepTimesOut, SleepReenter
<1> QED
  BY <1>1, <1>3, <1>4, <1>5

\* A sleeper that nobody has signaled unlinks itself before its frame goes.
LEMMA RelockIInv ==
    ASSUME NEW t \in Threads, IInv, SleepRelock(t)
    PROVE  IInv'
<1> USE DEF IInv, TypeOK, Conds, Ops, Places, Goto
<1>1. pc[t] = "relock" /\ mine[t] = slot /\ slot \in Conds
  BY DEF SleepRelock, UsesSlot
<1> DEFINE q == queue[slot]
<1>2. q \in Seq(Threads) /\ IsInjective(q)
  BY <1>1 DEF QueuedAreWaiting
<1>3. /\ Unlink(q, t) \in Seq(Threads) /\ IsInjective(Unlink(q, t))
      /\ ToSet(Unlink(q, t)) = ToSet(q) \ {t}
  BY <1>2, UnlinkFacts
<1>4. PICK r \in Seq(Threads) :
        /\ queue' = [queue EXCEPT ![slot] = r]
        /\ IsInjective(r) /\ ToSet(r) = ToSet(q) \ {t}
  <2>1. CASE signaled[t]
    <3>1. queue' = [queue EXCEPT ![slot] = q]
      BY <2>1, <1>1 DEF SleepRelock
    <3>2. t \notin ToSet(q)
      BY <2>1, <1>1 DEF QueuedAreWaiting
    <3>3. ToSet(q) = ToSet(q) \ {t}
      BY <3>2
    <3> HIDE DEF q
    <3> QED  BY <3>1, <3>3, <1>2
  <2>2. CASE ~signaled[t]
    BY <2>2, <1>1, <1>3 DEF SleepRelock
  <2> QED  BY <2>1, <2>2
<1>5. TypeOK'
  BY <1>1, <1>4 DEF SleepRelock
<1>6. /\ slot' = slot /\ mine' = mine /\ signaled' = signaled /\ event' = event
      /\ ~InWait(t)' /\ \A u \in Threads \ {t} : (InWait(u)' <=> InWait(u))
  BY DEF SleepRelock, InWait
<1>7. queue'[slot] = r /\ \A c \in Conds \ {slot} : queue'[c] = queue[c]
  BY <1>1, <1>4
<1>8. QueuedAreWaiting'
  <2> SUFFICES ASSUME NEW c \in Conds
               PROVE  /\ IsInjective(queue'[c])
                      /\ queue'[c] # <<>> => c = slot
                      /\ \A u \in ToSet(queue'[c]) : InWait(u)' /\ ~signaled'[u]
    BY <1>6 DEF QueuedAreWaiting
  <2>1. CASE c = slot
    <3>1. \A u \in ToSet(q) : u \in Threads /\ InWait(u) /\ ~signaled[u]
      BY <1>1, <1>2 DEF QueuedAreWaiting, ToSet
    <3> QED  BY <2>1, <3>1, <1>4, <1>6, <1>7
  <2>2. CASE c # slot
    <3>1. queue'[c] = <<>>
      BY <2>2, <1>7 DEF QueuedAreWaiting
    <3> QED  BY <3>1, <2>2 DEF IsInjective, ToSet
  <2> QED  BY <2>1, <2>2
<1>9. NoLostWaiter'
  BY <1>4, <1>6, <1>7 DEF NoLostWaiter
<1>10. EventMeansSignaled'
  BY <1>6 DEF EventMeansSignaled
<1>11. UsesSlot' /\ CasOwn'
  BY <1>6 DEF UsesSlot, CasOwn, SleepRelock
<1> QED
  BY <1>5, <1>8, <1>9, <1>10, <1>11

\* A waker takes from the front of the queue, and marks what it takes.
LEMMA WakeIInv ==
    ASSUME NEW t \in Threads, IInv, WakeSome(t)
    PROVE  IInv'
<1> USE DEF IInv, TypeOK, Conds, Ops, Places, Goto
<1>1. pc[t] = "wakesome" /\ mine[t] = slot /\ slot \in Conds
  BY DEF WakeSome, UsesSlot
<1> DEFINE q == queue[slot]
           taken == IF op[t] = "wakeall" THEN ToSet(q)
                    ELSE IF q = <<>> THEN {} ELSE {Head(q)}
           rest == IF op[t] = "wakeall" \/ q = <<>> THEN <<>> ELSE Tail(q)
<1>2. q \in Seq(Threads) /\ IsInjective(q)
  BY <1>1 DEF QueuedAreWaiting
<1>3. rest \in Seq(Threads) /\ IsInjective(rest) /\ ToSet(rest) = ToSet(q) \ taken
  <2>1. CASE op[t] = "wakeall" \/ q = <<>>
    BY <2>1 DEF IsInjective, ToSet
  <2>2. CASE ~(op[t] = "wakeall" \/ q = <<>>)
    BY <2>2, <1>2, TailFacts
  <2> QED  BY <2>1, <2>2
<1>4. /\ queue' = [queue EXCEPT ![slot] = rest]
      /\ event' = [u \in Threads |-> event[u] \/ u \in taken]
      /\ signaled' = [u \in Threads |-> signaled[u] \/ u \in taken]
      /\ slot' = slot /\ mine' = mine
  BY <1>1 DEF WakeSome
<1>5. TypeOK'
  <2>1. queue' \in [Conds -> Seq(Threads)]
    BY <1>1, <1>3, <1>4
  <2> HIDE DEF taken, rest, q
  <2>2. event' \in [Threads -> BOOLEAN] /\ signaled' \in [Threads -> BOOLEAN]
    BY <1>4
  <2> QED  BY <2>1, <2>2 DEF WakeSome
<1>6. \A u \in Threads : (InWait(u)' <=> InWait(u))
  BY <1>1 DEF WakeSome, InWait
<1> HIDE DEF taken, rest
<1>7. queue'[slot] = rest /\ \A c \in Conds \ {slot} : queue'[c] = queue[c]
  BY <1>1, <1>3, <1>4
<1>8. QueuedAreWaiting'
  <2> SUFFICES ASSUME NEW c \in Conds
               PROVE  /\ IsInjective(queue'[c])
                      /\ queue'[c] # <<>> => c = slot
                      /\ \A u \in ToSet(queue'[c]) : InWait(u)' /\ ~signaled'[u]
    BY <1>4 DEF QueuedAreWaiting
  <2>1. CASE c = slot
    <3>1. \A u \in ToSet(q) : u \in Threads /\ InWait(u) /\ ~signaled[u]
      BY <1>1, <1>2 DEF QueuedAreWaiting, ToSet
    <3> QED  BY <2>1, <3>1, <1>3, <1>4, <1>6, <1>7
  <2>2. CASE c # slot
    <3>1. queue'[c] = <<>>
      BY <2>2, <1>7 DEF QueuedAreWaiting
    <3> QED  BY <3>1, <2>2 DEF IsInjective, ToSet
  <2> QED  BY <2>1, <2>2
<1>9. NoLostWaiter'
  BY <1>3, <1>4, <1>6, <1>7 DEF NoLostWaiter
<1>10. EventMeansSignaled'
  BY <1>4, <1>6 DEF EventMeansSignaled
<1>11. UsesSlot' /\ CasOwn'
  BY <1>4 DEF UsesSlot, CasOwn, WakeSome
<1> QED
  BY <1>5, <1>8, <1>9, <1>10, <1>11

\* Every step of every thread keeps the invariant.
LEMMA StepIInv == IInv /\ [Next]_vars => IInv'
<1> SUFFICES ASSUME IInv, [Next]_vars PROVE IInv'
  OBVIOUS
<1>1. CASE UNCHANGED vars
  BY <1>1 DEF vars, IInv, TypeOK, QueuedAreWaiting, NoLostWaiter,
      EventMeansSignaled, UsesSlot, CasOwn, InWait
<1>2. ASSUME NEW t \in Threads,
             \/ EnterCs(t) \/ ExitCs(t) \/ (\E o \in Ops : Call(t, o))
             \/ Resolving(t) \/ Sleeping(t) \/ WakeSome(t)
      PROVE  IInv'
  BY <1>2, OutsideIInv, CondOfIInv, EnqueueIInv, BlockIInv, RelockIInv, WakeIInv
     DEF Resolving, Sleeping
<1> QED
  BY <1>1, <1>2 DEF Next

\* For any number of threads: the queue holds only threads that are inside their
\* wait, each once and in the queue the wakers look at, and every thread inside
\* its wait is either in that queue or already woken.
THEOREM WaitersReachable ==
    Spec => [](TypeOK /\ QueuedAreWaiting /\ NoLostWaiter /\ EventMeansSignaled)
<1>1. IInv => TypeOK /\ QueuedAreWaiting /\ NoLostWaiter /\ EventMeansSignaled
  BY DEF IInv
<1> QED
  BY InitIInv, StepIInv, <1>1, PTL DEF Spec

\* A waker writes through the Waiter of every thread it pops: whoever is queued is
\* inside its wait, once, in the queue of the XpCond the slot names.
THEOREM QueueHoldsWaiters == Spec => []QueuedAreWaiting
  BY WaitersReachable, PTL

\* The types hold throughout (nz_xp_compat).
THEOREM TypeCorrect == Spec => []TypeOK
  BY WaitersReachable, PTL

-----------------------------------------------------------------------------
(* The XP code implements the condition variable of the C++ runtime.        *)

\* The table is used in the mode it was published in, and only then.
Moded ==
    \A t \in Threads :
        /\ pc[t] = "native" => gMode = 1
        /\ pc[t] \in Places \ {"idle", "resolve", "publish", "native"} => gMode = 2

\* The steps of a wait are taken by a call of it, and those of a wake likewise.
OwnCall ==
    \A t \in Threads :
        /\ pc[t] \in {"enqueue", "leavecs", "blocked", "relock", "reenter"} => op[t] = "sleep"
        /\ pc[t] = "wakesome" => op[t] # "sleep"

\* A wait holds the caller's lock until it is queued and has left it.
Holding ==
    \A t \in Threads :
        op[t] = "sleep" /\ pc[t] \in {"resolve", "publish", "native", "condof", "cas",
                                      "enqueue", "leavecs"}
            => cs = t

CallInv == Moded /\ OwnCall /\ Holding

\* No call is under way at first.
LEMMA InitCallInv == Init => CallInv
  BY DEF Init, CallInv, Moded, OwnCall, Holding

\* What is known of the calls under way is kept by every step.
LEMMA StepCallInv ==
    ASSUME IInv, CallInv, [Next]_vars
    PROVE  CallInv'
<1> USE XpAssumption DEF CallInv, Moded, OwnCall, Holding, IInv, TypeOK, Conds, Ops, Places,
        Goto, AfterResolve, AfterCondOf
<1>1. CASE UNCHANGED vars
  BY <1>1 DEF vars
<1>2. ASSUME NEW t \in Threads, EnterCs(t) \/ ExitCs(t) \/ (\E o \in Ops : Call(t, o))
      PROVE  CallInv'
  <2>1. CASE EnterCs(t)
    BY <2>1 DEF EnterCs
  <2>2. CASE ExitCs(t)
    BY <2>2 DEF ExitCs
  <2>3. CASE \E o \in Ops : Call(t, o)
    BY <2>3 DEF Call
  <2> QED  BY <1>2, <2>1, <2>2, <2>3
<1>3. ASSUME NEW t \in Threads, Resolving(t)
      PROVE  CallInv'
  <2>1. CASE ResolveKnown(t)
    BY <2>1 DEF ResolveKnown
  <2>2. CASE ResolveLookup(t)
    BY <2>2 DEF ResolveLookup
  <2>3. CASE ResolvePublish(t)
    BY <2>3 DEF ResolvePublish
  <2>4. CASE NativeCall(t)
    BY <2>4 DEF NativeCall
  <2>5. CASE CondOfFound(t)
    BY <2>5 DEF CondOfFound
  <2>6. CASE CondOfAlloc(t)
    BY <2>6 DEF CondOfAlloc
  <2>7. CASE CondOfNoMemory(t)
    BY <2>7 DEF CondOfNoMemory
  <2>8. CASE CondOfCas(t)
    BY <2>8 DEF CondOfCas
  <2> QED  BY <1>3, <2>1, <2>2, <2>3, <2>4, <2>5, <2>6, <2>7, <2>8 DEF Resolving
<1>4. ASSUME NEW t \in Threads, Sleeping(t)
      PROVE  CallInv'
  <2>1. CASE SleepEnqueue(t)
    BY <2>1 DEF SleepEnqueue
  <2>2. CASE SleepNoEvent(t)
    BY <2>2 DEF SleepNoEvent
  <2>3. CASE SleepLeaveCs(t)
    BY <2>3 DEF SleepLeaveCs
  <2>4. CASE SleepEventSet(t)
    BY <2>4 DEF SleepEventSet
  <2>5. CASE SleepTimesOut(t)
    BY <2>5 DEF SleepTimesOut
  <2>6. CASE SleepRelock(t)
    BY <2>6 DEF SleepRelock
  <2>7. CASE SleepReenter(t)
    BY <2>7 DEF SleepReenter
  <2> QED  BY <1>4, <2>1, <2>2, <2>3, <2>4, <2>5, <2>6, <2>7 DEF Sleeping
<1>5. ASSUME NEW t \in Threads, WakeSome(t)
      PROVE  CallInv'
  BY <1>5 DEF WakeSome
<1> QED
  BY <1>1, <1>2, <1>3, <1>4, <1>5 DEF Next

\* The abstract state, part by part.
Owner == IF cs # NoThread /\ pc[cs] = "leavecs" THEN NoThread ELSE cs

Waiting == {t \in Threads : InWait(t) /\ ~signaled[t]}

Woken == {t \in Threads : InWait(t) /\ signaled[t]} \cup Sleepers(TRUE)

Waking == {<<t, op[t] = "wakeall">> : t \in {u \in Threads : pc[u] # "idle" /\ op[u] # "sleep"}}

\* What the abstract variables are, by name.
LEMMA Mapping ==
    /\ Abstract!Init <=> /\ Owner = NoThread /\ Waiting = {} /\ Woken = {}
                         /\ Sleepers(FALSE) = {} /\ Waking = {}
    /\ UNCHANGED <<Owner, Waiting, Woken, Sleepers(FALSE), Waking>> => UNCHANGED Abstract!vars
    /\ Abstract!Asleep = Waiting \cup Woken \cup Sleepers(FALSE)
  BY DEF Abstract!Init, Abstract!vars, Abstract!Asleep, Owner, Waiting, Woken, Waking

\* A step that changes neither who is in a wait nor who is in a call changes nothing
\* a caller can see.
LEMMA Unseen ==
    ASSUME cs' = cs, Owner' = Owner,
           \A u \in Threads : /\ InWait(u)' <=> InWait(u)
                              /\ pc'[u] = "reenter" <=> pc[u] = "reenter"
                              /\ signaled'[u] = signaled[u]
                              /\ (pc'[u] # "idle" /\ op'[u] # "sleep")
                                    <=> (pc[u] # "idle" /\ op[u] # "sleep")
                              /\ pc[u] # "idle" => op'[u] = op[u]
    PROVE  UNCHANGED Abstract!vars
<1>1. Waiting' = Waiting
  BY DEF Waiting
<1>2. Sleepers(FALSE)' = Sleepers(FALSE) /\ Sleepers(TRUE)' = Sleepers(TRUE)
  BY DEF Sleepers
<1>3. Woken' = Woken
  BY <1>2 DEF Woken
<1>4. Waking' = Waking
  BY DEF Waking
<1> QED
  BY <1>1, <1>2, <1>3, <1>4, Mapping

\* Taking and leaving the lock, and calling, are what they are in the abstract.
LEMMA OutsideSteps ==
    ASSUME NEW t \in Threads, IInv, CallInv,
           EnterCs(t) \/ ExitCs(t) \/ (\E o \in Ops : Call(t, o))
    PROVE  Abstract!Next \/ UNCHANGED Abstract!vars
<1> USE XpAssumption DEF IInv, TypeOK, Conds, Ops, Places, Goto
<1>1. CASE EnterCs(t)
  <2>1. Owner = NoThread /\ Owner' = t
    BY <1>1 DEF EnterCs, Owner
  <2>2. Waiting' = Waiting /\ Woken' = Woken /\ Sleepers(FALSE)' = Sleepers(FALSE)
        /\ Waking' = Waking
    BY <1>1 DEF EnterCs, Waiting, Woken, Sleepers, InWait, Waking
  <2>3. t \notin Waiting \cup Woken \cup Sleepers(FALSE)
    BY <1>1 DEF EnterCs, Waiting, Woken, Sleepers, InWait
  <2>4. Abstract!Acquire(t)
    BY <2>1, <2>2, <2>3, Mapping DEF Abstract!Acquire, Owner, Waiting, Woken, Waking
  <2> QED  BY <2>4 DEF Abstract!Next
<1>2. CASE ExitCs(t)
  <2>1. Owner = t /\ Owner' = NoThread
    BY <1>2 DEF ExitCs, Owner
  <2>2. Waiting' = Waiting /\ Woken' = Woken /\ Sleepers(FALSE)' = Sleepers(FALSE)
        /\ Waking' = Waking
    BY <1>2 DEF ExitCs, Waiting, Woken, Sleepers, InWait, Waking
  <2>4. Abstract!Release(t)
    BY <2>1, <2>2 DEF Abstract!Release, Owner, Waiting, Woken, Waking
  <2> QED  BY <2>4 DEF Abstract!Next
<1>3. ASSUME NEW o \in Ops, Call(t, o)
      PROVE  Abstract!Next \/ UNCHANGED Abstract!vars
  <2>1. /\ pc[t] = "idle" /\ pc' = [pc EXCEPT ![t] = "resolve"]
        /\ op' = [op EXCEPT ![t] = o]
        /\ cs' = cs /\ signaled' = signaled
    BY <1>3 DEF Call
  <2>2. Owner' = Owner
    BY <2>1 DEF Owner
  <2>3. CASE o = "sleep"
    BY <2>1, <2>2, <2>3, Unseen DEF InWait
  <2>4. CASE o # "sleep"
    <3>1. Waiting' = Waiting /\ Woken' = Woken /\ Sleepers(FALSE)' = Sleepers(FALSE)
      BY <2>1 DEF Waiting, Woken, Sleepers, InWait
    <3>2. t \notin Waiting \cup Woken \cup Sleepers(FALSE)
      BY <2>1 DEF Waiting, Woken, Sleepers, InWait
    <3>3. Waking' = Waking \cup {<<t, o = "wakeall">>}
      BY <2>1, <2>4 DEF Waking
    <3>4. Abstract!CallWake(t, o = "wakeall")
      BY <2>2, <3>1, <3>2, <3>3, Mapping DEF Abstract!CallWake, Owner, Waiting, Woken, Waking
    <3> QED  BY <3>4 DEF Abstract!Next
  <2> QED  BY <2>3, <2>4
<1> QED
  BY <1>1, <1>2, <1>3

\* A wake takes all that wait, or one of them, or nobody if nobody does.
LEMMA Takes ==
    ASSUME NEW t, NEW all \in BOOLEAN, NEW taken \in SUBSET Waiting,
           all => taken = Waiting,
           ~all /\ Waiting # {} => \E u \in Waiting : taken = {u},
           <<t, all>> \in Waking, Waking' = Waking \ {<<t, all>>},
           Waiting' = Waiting \ taken, Woken' = Woken \cup taken,
           Owner' = Owner, Sleepers(FALSE)' = Sleepers(FALSE)
    PROVE  Abstract!Wake(t, all)
  BY DEF Abstract!Wake, Owner, Waiting, Woken, Waking

\* A wake that finds nobody is an abstract wake of nobody.
LEMMA TakesNone ==
    ASSUME NEW t, NEW all \in BOOLEAN, Waiting = {},
           <<t, all>> \in Waking, Waking' = Waking \ {<<t, all>>},
           Waiting' = Waiting, Woken' = Woken,
           Owner' = Owner, Sleepers(FALSE)' = Sleepers(FALSE)
    PROVE  Abstract!Wake(t, all)
<1>1. Waiting' = Waiting \ {} /\ Woken' = Woken \cup {}
  OBVIOUS
<1> QED
  BY <1>1, Takes

\* A wake is a step of the abstract condition variable.
LEMMA IsNext ==
    ASSUME NEW t \in Threads, NEW all \in BOOLEAN, Abstract!Wake(t, all)
    PROVE  Abstract!Next
  BY DEF Abstract!Next

\* Before the queue a call is on its way only; a wake that comes to its end there has
\* nobody to take.
LEMMA ResolvingSteps ==
    ASSUME NEW t \in Threads, IInv, CallInv, Resolving(t)
    PROVE  Abstract!Next \/ UNCHANGED Abstract!vars
<1> USE XpAssumption DEF IInv, TypeOK, Conds, Ops, Places, Goto
<1>1. CASE /\ pc[t] # "idle" /\ pc'[t] # "idle"
           /\ Resolving(t)
  <2>1. /\ pc[t] \notin {"leavecs", "blocked", "relock", "reenter"}
        /\ pc'[t] \notin {"leavecs", "blocked", "relock", "reenter"}
        /\ \A u \in Threads \ {t} : pc'[u] = pc[u]
        /\ cs' = cs /\ signaled' = signaled /\ op' = op
    BY <1>1 DEF Resolving, ResolveKnown, ResolveLookup, ResolvePublish, NativeCall, CondOfFound,
                CondOfAlloc, CondOfNoMemory, CondOfCas, AfterResolve, AfterCondOf
  <2>2. Owner' = Owner
    BY <2>1 DEF Owner
  <2> QED  BY <1>1, <2>1, <2>2, Unseen DEF InWait
<1>2. CASE NativeCall(t) \/ CondOfNoMemory(t)
  <2>1. /\ pc[t] \in {"native", "condof"} /\ pc' = [pc EXCEPT ![t] = "idle"]
        /\ cs' = cs /\ signaled' = signaled /\ op' = op
    BY <1>2 DEF NativeCall, CondOfNoMemory
  <2>2. Owner' = Owner
    BY <2>1 DEF Owner
  <2>3. CASE op[t] = "sleep"
    BY <2>1, <2>2, <2>3, Unseen DEF InWait
  <2>4. CASE op[t] # "sleep"
    <3>1. Waiting = {}
      <4>1. CASE NativeCall(t)
        <5>1. gMode = 1
          BY <4>1 DEF NativeCall, CallInv, Moded
        <5>2. ASSUME NEW u \in Threads PROVE ~InWait(u)
          <6>1. pc[u] \in Places \ {"idle", "resolve", "publish", "native"} => gMode = 2
            BY DEF CallInv, Moded
          <6> QED  BY <5>1, <6>1 DEF InWait
        <5> QED  BY <5>2 DEF Waiting
      <4>2. CASE CondOfNoMemory(t)
        BY <4>2 DEF CondOfNoMemory, Waiting, NoLostWaiter
      <4> QED  BY <1>2, <4>1, <4>2
    <3>2. Waiting' = Waiting /\ Woken' = Woken /\ Sleepers(FALSE)' = Sleepers(FALSE)
      BY <2>1 DEF Waiting, Woken, Sleepers, InWait
    <3>3. PICK all \in BOOLEAN : all = (op[t] = "wakeall")
      OBVIOUS
    <3>4. <<t, all>> \in Waking /\ Waking' = Waking \ {<<t, all>>}
      BY <2>1, <2>4, <3>3 DEF Waking
    <3> HIDE DEF IInv, TypeOK, Conds, Ops, Places, Goto
    <3>5. Abstract!Wake(t, all)
      BY <2>2, <3>1, <3>2, <3>4, TakesNone
    <3> QED  BY <3>5, IsNext
  <2> QED  BY <2>3, <2>4
<1> QED
  BY <1>1, <1>2 DEF Resolving, ResolveKnown, ResolveLookup, ResolvePublish, CondOfFound,
                    CondOfAlloc, CondOfCas, AfterResolve, AfterCondOf

\* The lock is given up where the thread is queued, not where it leaves the critical
\* section.
LEMMA SleepingSteps ==
    ASSUME NEW t \in Threads, IInv, CallInv, Sleeping(t)
    PROVE  Abstract!Next \/ UNCHANGED Abstract!vars
<1> USE XpAssumption DEF IInv, TypeOK, Conds, Ops, Places, Goto
<1>1. CASE SleepEnqueue(t)
  <2>1. op[t] = "sleep" /\ cs = t /\ pc[t] = "enqueue"
    BY <1>1 DEF SleepEnqueue, CallInv, OwnCall, Holding
  <2>2. Owner = t /\ Owner' = NoThread
    BY <1>1, <2>1 DEF SleepEnqueue, Owner
  <2>3. Waiting' = Waiting \cup {t}
    BY <1>1 DEF SleepEnqueue, Waiting, InWait
  <2>4. Woken' = Woken /\ Sleepers(FALSE)' = Sleepers(FALSE)
    BY <1>1 DEF SleepEnqueue, Woken, Sleepers, InWait
  <2>5. Waking' = Waking
    BY <1>1, <2>1 DEF SleepEnqueue, Waking
  <2>6. Abstract!Sleep(t)
    BY <2>2, <2>3, <2>4, <2>5 DEF Abstract!Sleep, Owner, Waiting, Woken, Waking
  <2> QED  BY <2>6 DEF Abstract!Next
<1>2. CASE SleepNoEvent(t)
  <2>1. op[t] = "sleep"
    BY <1>2 DEF SleepNoEvent, CallInv, OwnCall
  <2>2. Owner' = Owner
    BY <1>2 DEF SleepNoEvent, Owner
  <2> QED  BY <1>2, <2>1, <2>2, Unseen DEF SleepNoEvent, InWait
<1>3. CASE SleepLeaveCs(t)
  <2>1. op[t] = "sleep" /\ cs = t /\ pc[t] = "leavecs"
    BY <1>3 DEF SleepLeaveCs, CallInv, OwnCall, Holding
  <2>2. Owner' = Owner
    BY <1>3, <2>1 DEF SleepLeaveCs, Owner
  <2>3. Waiting' = Waiting
    BY <1>3 DEF SleepLeaveCs, Waiting, InWait
  <2>4. Woken' = Woken /\ Sleepers(FALSE)' = Sleepers(FALSE)
    BY <1>3 DEF SleepLeaveCs, Woken, Sleepers, InWait
  <2>5. Waking' = Waking
    BY <1>3, <2>1 DEF SleepLeaveCs, Waking
  <2> QED  BY <2>2, <2>3, <2>4, <2>5, Mapping
<1>4. CASE SleepEventSet(t) \/ SleepTimesOut(t)
  <2>1. op[t] = "sleep"
    BY <1>4 DEF SleepEventSet, SleepTimesOut, CallInv, OwnCall
  <2>2. Owner' = Owner
    BY <1>4 DEF SleepEventSet, SleepTimesOut, Owner
  <2> QED  BY <1>4, <2>1, <2>2, Unseen DEF SleepEventSet, SleepTimesOut, InWait
<1>5. CASE SleepRelock(t)
  <2>1. /\ op[t] = "sleep" /\ pc[t] = "relock" /\ pc' = [pc EXCEPT ![t] = "reenter"]
        /\ cs' = cs /\ signaled' = signaled /\ op' = op
    BY <1>5 DEF SleepRelock, CallInv, OwnCall
  <2>2. Owner' = Owner
    BY <2>1 DEF Owner
  <2>3. Waking' = Waking
    BY <2>1 DEF Waking
  <2>4. CASE signaled[t]
    <3>1. Waiting' = Waiting /\ Sleepers(FALSE)' = Sleepers(FALSE)
      BY <2>1, <2>4 DEF Waiting, Sleepers, InWait
    <3>2. Woken' = Woken
      BY <2>1, <2>4 DEF Woken, Sleepers, InWait
    <3> QED  BY <2>2, <2>3, <3>1, <3>2, Mapping
  <2>5. CASE ~signaled[t]
    <3>1. t \in Waiting /\ Waiting' = Waiting \ {t}
      BY <2>1, <2>5 DEF Waiting, InWait
    <3>2. Sleepers(FALSE)' = Sleepers(FALSE) \cup {t}
      BY <2>1, <2>5 DEF Sleepers
    <3>3. Woken' = Woken
      BY <2>1, <2>5 DEF Woken, Sleepers, InWait
    <3>4. Abstract!TimeOut(t)
      BY <2>2, <2>3, <3>1, <3>2, <3>3 DEF Abstract!TimeOut, Owner, Waiting, Woken, Waking
    <3> QED  BY <3>4 DEF Abstract!Next
  <2> QED  BY <2>4, <2>5
<1>6. CASE SleepReenter(t)
  <2>1. op[t] = "sleep" /\ pc[t] = "reenter" /\ cs = NoThread /\ cs' = t
        /\ pc' = [pc EXCEPT ![t] = "idle"] /\ signaled' = signaled /\ op' = op
    BY <1>6 DEF SleepReenter, CallInv, OwnCall
  <2>2. Owner = NoThread /\ Owner' = t
    BY <2>1 DEF Owner
  <2>3. t \in Woken \cup Sleepers(FALSE)
    BY <2>1 DEF Woken, Sleepers
  <2>4. Woken' = Woken \ {t} /\ Sleepers(FALSE)' = Sleepers(FALSE) \ {t}
    BY <2>1 DEF Woken, Sleepers, InWait
  <2>5. Waiting' = Waiting
    BY <2>1 DEF Waiting, InWait
  <2>6. Waking' = Waking
    BY <2>1 DEF Waking
  <2>7. Abstract!Return(t)
    BY <2>2, <2>3, <2>4, <2>5, <2>6 DEF Abstract!Return, Owner, Waiting, Woken, Waking
  <2> QED  BY <2>7 DEF Abstract!Next
<1> QED
  BY <1>1, <1>2, <1>3, <1>4, <1>5, <1>6 DEF Sleeping

\* A wake takes from the queue, which holds exactly the threads that wait.
LEMMA WakeStep ==
    ASSUME NEW t \in Threads, IInv, CallInv, WakeSome(t)
    PROVE  Abstract!Next
<1> USE XpAssumption DEF IInv, TypeOK, Conds, Ops, Places, Goto
<1>1. /\ pc[t] = "wakesome" /\ op[t] # "sleep" /\ mine[t] = slot /\ slot \in Conds
      /\ pc' = [pc EXCEPT ![t] = "idle"] /\ op' = op /\ cs' = cs
  BY DEF WakeSome, UsesSlot, CallInv, OwnCall
<1> DEFINE q == queue[slot]
           taken == IF op[t] = "wakeall" THEN ToSet(q)
                    ELSE IF q = <<>> THEN {} ELSE {Head(q)}
<1>2. signaled' = [u \in Threads |-> signaled[u] \/ u \in taken]
  BY <1>1 DEF WakeSome
<1>3. q \in Seq(Threads) /\ ToSet(q) = Waiting
  <2>1. q \in Seq(Threads)
    BY <1>1
  <2>2. ToSet(q) \subseteq Waiting
    BY <1>1, <2>1 DEF QueuedAreWaiting, Waiting, ToSet
  <2>3. Waiting \subseteq ToSet(q)
    BY DEF NoLostWaiter, Waiting
  <2> QED  BY <2>1, <2>2, <2>3
<1>4. PICK all \in BOOLEAN : all = (op[t] = "wakeall")
  OBVIOUS
<1>5. /\ taken \subseteq Waiting
      /\ all => taken = Waiting
      /\ ~all /\ Waiting # {} => \E u \in Waiting : taken = {u}
  <2>1. q # <<>> => Head(q) \in ToSet(q)
    BY <1>3 DEF ToSet
  <2>2. q = <<>> => ToSet(q) = {}
    BY DEF ToSet
  <2> HIDE DEF q
  <2> QED  BY <1>3, <1>4, <2>1, <2>2
<1> HIDE DEF taken, q
<1>6. Waiting' = Waiting \ taken
  BY <1>1, <1>2 DEF Waiting, InWait
<1>7. Woken' = Woken \cup taken /\ Sleepers(FALSE)' = Sleepers(FALSE)
  <2>1. taken \subseteq Waiting
    BY <1>5
  <2>2. Sleepers(FALSE)' = Sleepers(FALSE) /\ Sleepers(TRUE)' = Sleepers(TRUE)
    BY <1>1, <1>2, <2>1 DEF Waiting, Sleepers, InWait
  <2>3. {u \in Threads : InWait(u) /\ signaled[u]}'
            = {u \in Threads : InWait(u) /\ signaled[u]} \cup taken
    BY <1>1, <1>2, <2>1 DEF Waiting, InWait
  <2> DEFINE inside == {u \in Threads : InWait(u) /\ signaled[u]}
  <2>4. Woken = inside \cup Sleepers(TRUE) /\ Woken' = inside' \cup Sleepers(TRUE)'
    BY DEF Woken
  <2>5. inside' = inside \cup taken
    BY <2>3
  <2> HIDE DEF inside, IInv, TypeOK, Conds, Ops, Places, Goto
  <2> QED  BY <2>2, <2>4, <2>5
<1>8. Owner' = Owner
  BY <1>1 DEF Owner
<1>9. <<t, all>> \in Waking /\ Waking' = Waking \ {<<t, all>>}
  BY <1>1, <1>4 DEF Waking
<1> HIDE DEF IInv, TypeOK, Conds, Ops, Places, Goto
<1>10. Abstract!Wake(t, all)
  BY <1>5, <1>6, <1>7, <1>8, <1>9, Takes
<1> QED
  BY <1>10, IsNext

\* For any number of threads the code is the condition variable the C++ runtime
\* expects: a wait is queued in the step that gives up the lock, a wake takes a
\* waiter whenever there is one, and a wait returns with the lock.
THEOREM XpIsCondVar == Spec => ImplementsCondVar
<1>1. Init => Abstract!Init
  BY XpAssumption DEF Init, Abstract!Init, Sleepers, InWait
<1>2. IInv /\ CallInv /\ [Next]_vars => [Abstract!Next]_(Abstract!vars)
  <2> SUFFICES ASSUME IInv, CallInv, [Next]_vars
               PROVE  Abstract!Next \/ UNCHANGED Abstract!vars
    OBVIOUS
  <2>1. CASE UNCHANGED vars
    BY <2>1 DEF vars, Abstract!vars, Sleepers, InWait
  <2>2. ASSUME NEW t \in Threads,
               \/ EnterCs(t) \/ ExitCs(t) \/ (\E o \in Ops : Call(t, o))
               \/ Resolving(t) \/ Sleeping(t) \/ WakeSome(t)
        PROVE  Abstract!Next \/ UNCHANGED Abstract!vars
    BY <2>2, OutsideSteps, ResolvingSteps, SleepingSteps, WakeStep
  <2> QED
    BY <2>1, <2>2 DEF Next
<1> QED
  BY InitIInv, StepIInv, InitCallInv, StepCallInv, <1>1, <1>2, PTL
     DEF Spec, ImplementsCondVar, Abstract!Spec
=============================================================================
