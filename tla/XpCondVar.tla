------------------------------ MODULE XpCondVar ------------------------------
(***************************************************************************)
(* nz_xp_compat.cpp: the condition variable the 32-bit Windows build uses  *)
(* on XP.  A queue of waiters, each with an event of its own, made on      *)
(* first use; the queue has a lock (c->lock) of its own, below the         *)
(* caller's critical section (cs).  A section that runs under c->lock is   *)
(* one action: everything it touches is only touched under that lock.      *)
(*                                                                         *)
(* The callers are any threads that take and leave cs, sleep while they    *)
(* hold it, and wake with or without it.                                   *)
(***************************************************************************)
EXTENDS Integers, Sequences, SequencesExt

CONSTANTS Threads,    \* threads of the program
          NoThread    \* nobody: a free lock, a slot with no state behind it

ASSUME XpAssumption == NoThread \notin Threads

VARIABLES native,     \* kernel32 has the Vista entry points
          gMode,      \* g_mode: 0 not looked up, 1 native, 2 ours
          gNative,    \* g_native has been filled in
          slot,       \* *cv: the XpCond in use, named by the thread that made it
          queue,      \* head..tail of each XpCond
          cs,         \* the holder of the caller's critical section
          pc, op,     \* each thread's place in the call it is in, and the call
          mine,       \* the XpCond the call works on, NoThread when it has none
          event,      \* Waiter.ev is set
          signaled    \* Waiter.signaled

vars == <<native, gMode, gNative, slot, queue, cs, pc, op, mine, event, signaled>>

Conds == Threads

Ops == {"sleep", "wake", "wakeall"}

Places == {"idle", "resolve", "publish", "native", "condof", "cas", "enqueue",
           "leavecs", "blocked", "relock", "reenter", "wakesome"}

TypeOK ==
    /\ native \in BOOLEAN
    /\ gMode \in 0..2
    /\ gNative \in BOOLEAN
    /\ slot \in Conds \cup {NoThread}
    /\ queue \in [Conds -> Seq(Threads)]
    /\ cs \in Threads \cup {NoThread}
    /\ pc \in [Threads -> Places]
    /\ op \in [Threads -> Ops]
    /\ mine \in [Threads -> Conds \cup {NoThread}]
    /\ event \in [Threads -> BOOLEAN]
    /\ signaled \in [Threads -> BOOLEAN]

Init ==
    /\ native \in BOOLEAN
    /\ gMode = 0 /\ gNative = FALSE
    /\ slot = NoThread
    /\ queue = [c \in Conds |-> <<>>]
    /\ cs = NoThread
    /\ pc = [t \in Threads |-> "idle"]
    /\ op = [t \in Threads |-> "wake"]
    /\ mine = [t \in Threads |-> NoThread]
    /\ event = [t \in Threads |-> FALSE]
    /\ signaled = [t \in Threads |-> FALSE]

Goto(t, place) == pc' = [pc EXCEPT ![t] = place]

-----------------------------------------------------------------------------
(* The callers' own use of cs. *)

EnterCs(t) ==
    /\ pc[t] = "idle" /\ cs = NoThread
    /\ cs' = t
    /\ UNCHANGED <<native, gMode, gNative, slot, queue, pc, op, mine, event, signaled>>

ExitCs(t) ==
    /\ pc[t] = "idle" /\ cs = t
    /\ cs' = NoThread
    /\ UNCHANGED <<native, gMode, gNative, slot, queue, pc, op, mine, event, signaled>>

\* A call of one of the entry points; a wait is only called with cs held.
Call(t, o) ==
    /\ pc[t] = "idle"
    /\ o = "sleep" => cs = t
    /\ op' = [op EXCEPT ![t] = o]
    /\ Goto(t, "resolve")
    /\ UNCHANGED <<native, gMode, gNative, slot, queue, cs, mine, event, signaled>>

-----------------------------------------------------------------------------
(* Resolve: which implementation runs. *)

AfterResolve(t, mode) == Goto(t, IF mode = 1 THEN "native" ELSE "condof")

\* g_mode is already set.
ResolveKnown(t) ==
    /\ pc[t] = "resolve" /\ gMode # 0
    /\ AfterResolve(t, gMode)
    /\ UNCHANGED <<native, gMode, gNative, slot, queue, cs, op, mine, event, signaled>>

\* Look the entry points up and write the table, before the mode is published.
ResolveLookup(t) ==
    /\ pc[t] = "resolve" /\ gMode = 0
    /\ gNative' = (gNative \/ native)
    /\ Goto(t, "publish")
    /\ UNCHANGED <<native, gMode, slot, queue, cs, op, mine, event, signaled>>

\* Mutant: an interlocked add where the compare-exchange is.
ResolvePublishAdd(t) ==
    /\ pc[t] = "publish"
    /\ gMode' = gMode + (IF native THEN 1 ELSE 2)
    /\ AfterResolve(t, gMode')
    /\ UNCHANGED <<native, gNative, slot, queue, cs, op, mine, event, signaled>>

\* InterlockedCompareExchange: the first thread's value stays.
ResolvePublish(t) ==
    /\ pc[t] = "publish"
    /\ gMode' = IF gMode = 0 THEN (IF native THEN 1 ELSE 2) ELSE gMode
    /\ AfterResolve(t, gMode')
    /\ UNCHANGED <<native, gNative, slot, queue, cs, op, mine, event, signaled>>

\* The kernel's own condition variable does the call.
NativeCall(t) ==
    /\ pc[t] = "native"
    /\ Goto(t, "idle")
    /\ UNCHANGED <<native, gMode, gNative, slot, queue, cs, op, mine, event, signaled>>

-----------------------------------------------------------------------------
(* CondOf: the state behind the slot, made by the first thread to need it. *)

AfterCondOf(t) == Goto(t, IF op[t] = "sleep" THEN "enqueue" ELSE "wakesome")

CondOfFound(t) ==
    /\ pc[t] = "condof" /\ slot # NoThread
    /\ mine' = [mine EXCEPT ![t] = slot]
    /\ AfterCondOf(t)
    /\ UNCHANGED <<native, gMode, gNative, slot, queue, cs, op, event, signaled>>

CondOfAlloc(t) ==
    /\ pc[t] = "condof" /\ slot = NoThread
    /\ mine' = [mine EXCEPT ![t] = t]
    /\ queue' = [queue EXCEPT ![t] = <<>>]
    /\ Goto(t, "cas")
    /\ UNCHANGED <<native, gMode, gNative, slot, cs, op, event, signaled>>

\* HeapAlloc fails: a sleep returns FALSE with cs still held, a wake returns.
\* (The allocator's answer depends on nothing in the model, so it is taken at the
\* read of the slot.)
CondOfNoMemory(t) ==
    /\ pc[t] = "condof" /\ slot = NoThread
    /\ Goto(t, "idle")
    /\ UNCHANGED <<native, gMode, gNative, slot, queue, cs, op, mine, event, signaled>>

\* Mutant: the thread that loses the race goes on with the XpCond it made.
CondOfCasOwn(t) ==
    /\ pc[t] = "cas"
    /\ slot' = IF slot = NoThread THEN mine[t] ELSE slot
    /\ AfterCondOf(t)
    /\ UNCHANGED <<native, gMode, gNative, queue, cs, op, mine, event, signaled>>

\* The compare-exchange: the loser frees its own and uses the winner's.
CondOfCas(t) ==
    /\ pc[t] = "cas"
    /\ slot' = IF slot = NoThread THEN mine[t] ELSE slot
    /\ mine' = [mine EXCEPT ![t] = slot']
    /\ AfterCondOf(t)
    /\ UNCHANGED <<native, gMode, gNative, queue, cs, op, event, signaled>>

-----------------------------------------------------------------------------
(* XpSleepConditionVariableCS *)

\* CreateEventW and the append under c->lock, with cs still held.
SleepEnqueue(t) ==
    /\ pc[t] = "enqueue"
    /\ event' = [event EXCEPT ![t] = FALSE]
    /\ signaled' = [signaled EXCEPT ![t] = FALSE]
    /\ queue' = [queue EXCEPT ![mine[t]] = Append(@, t)]
    /\ Goto(t, "leavecs")
    /\ UNCHANGED <<native, gMode, gNative, slot, cs, op, mine>>

\* CreateEventW fails: FALSE at once, cs still held.
SleepNoEvent(t) ==
    /\ pc[t] = "enqueue"
    /\ Goto(t, "idle")
    /\ UNCHANGED <<native, gMode, gNative, slot, queue, cs, op, mine, event, signaled>>

SleepLeaveCs(t) ==
    /\ pc[t] = "leavecs"
    /\ cs' = NoThread
    /\ Goto(t, "blocked")
    /\ UNCHANGED <<native, gMode, gNative, slot, queue, op, mine, event, signaled>>

\* WaitForSingleObject returns: the event was set.
SleepEventSet(t) ==
    /\ pc[t] = "blocked" /\ event[t]
    /\ event' = [event EXCEPT ![t] = FALSE]
    /\ Goto(t, "relock")
    /\ UNCHANGED <<native, gMode, gNative, slot, queue, cs, op, mine, signaled>>

\* WaitForSingleObject returns: the time ran out.
SleepTimesOut(t) ==
    /\ pc[t] = "blocked"
    /\ Goto(t, "relock")
    /\ UNCHANGED <<native, gMode, gNative, slot, queue, cs, op, mine, event, signaled>>

\* The linked list without t: the walk finds t's node and links past it.
Unlink(q, t) ==
    IF t \notin ToSet(q) THEN q
    ELSE LET at == CHOOSE i \in DOMAIN q : q[i] = t
         IN [i \in 1 .. Len(q) - 1 |-> IF i < at THEN q[i] ELSE q[i + 1]]

\* Mutant: a wait that timed out returns and leaves its Waiter in the queue.
SleepRelockStays(t) ==
    /\ pc[t] = "relock"
    /\ Goto(t, "reenter")
    /\ UNCHANGED <<native, gMode, gNative, slot, queue, cs, op, mine, event, signaled>>

\* Under c->lock: woken if a waker got here first, else leave the queue.
SleepRelock(t) ==
    /\ pc[t] = "relock"
    /\ queue' = IF signaled[t] THEN queue
                ELSE [queue EXCEPT ![mine[t]] = Unlink(@, t)]
    /\ Goto(t, "reenter")
    /\ UNCHANGED <<native, gMode, gNative, slot, cs, op, mine, event, signaled>>

\* CloseHandle, EnterCriticalSection(cs) and the return.
SleepReenter(t) ==
    /\ pc[t] = "reenter" /\ cs = NoThread
    /\ cs' = t
    /\ Goto(t, "idle")
    /\ UNCHANGED <<native, gMode, gNative, slot, queue, op, mine, event, signaled>>

-----------------------------------------------------------------------------
(* WakeSome: the head of the queue, or every waiter, under c->lock. *)

\* Mutant: a wake of all stops after the first waiter.
WakeSomeOne(t) ==
    LET q == queue[mine[t]]
        taken == IF q = <<>> THEN {} ELSE {Head(q)}
    IN /\ pc[t] = "wakesome"
       /\ queue' = [queue EXCEPT ![mine[t]] = IF q = <<>> THEN q ELSE Tail(q)]
       /\ event' = [u \in Threads |-> event[u] \/ u \in taken]
       /\ signaled' = [u \in Threads |-> signaled[u] \/ u \in taken]
       /\ Goto(t, "idle")
       /\ UNCHANGED <<native, gMode, gNative, slot, cs, op, mine>>

WakeSome(t) ==
    LET q == queue[mine[t]]
        taken == IF op[t] = "wakeall" THEN ToSet(q)
                 ELSE IF q = <<>> THEN {} ELSE {Head(q)}
        rest == IF op[t] = "wakeall" \/ q = <<>> THEN <<>> ELSE Tail(q)
    IN /\ pc[t] = "wakesome"
       /\ queue' = [queue EXCEPT ![mine[t]] = rest]
       /\ event' = [u \in Threads |-> event[u] \/ u \in taken]
       /\ signaled' = [u \in Threads |-> signaled[u] \/ u \in taken]
       /\ Goto(t, "idle")
       /\ UNCHANGED <<native, gMode, gNative, slot, cs, op, mine>>

-----------------------------------------------------------------------------
Sleeping(t) ==
    \/ SleepEnqueue(t) \/ SleepNoEvent(t) \/ SleepLeaveCs(t) \/ SleepEventSet(t)
    \/ SleepTimesOut(t) \/ SleepRelock(t) \/ SleepReenter(t)

Resolving(t) ==
    \/ ResolveKnown(t) \/ ResolveLookup(t) \/ ResolvePublish(t) \/ NativeCall(t)
    \/ CondOfFound(t) \/ CondOfAlloc(t) \/ CondOfNoMemory(t) \/ CondOfCas(t)

Next ==
    \E t \in Threads :
        \/ EnterCs(t) \/ ExitCs(t)
        \/ \E o \in Ops : Call(t, o)
        \/ Resolving(t) \/ Sleeping(t) \/ WakeSome(t)

Spec == Init /\ [][Next]_vars

-----------------------------------------------------------------------------
(* Properties *)

InWait(t) == pc[t] \in {"leavecs", "blocked", "relock"}

\* A waker writes through the Waiter of every thread it pops; that record is on
\* the waiter's stack.  Every queued waiter is still inside its wait and not
\* signaled, is queued once, and waits on the XpCond the slot names.
QueuedAreWaiting ==
    \A c \in Conds :
        /\ IsInjective(queue[c])
        /\ queue[c] # <<>> => c = slot
        /\ \A t \in ToSet(queue[c]) : InWait(t) /\ ~signaled[t]

\* A thread blocked in its wait can still be woken: it is in the queue of the
\* XpCond that every waker will find, or a waker has taken it already.  With this
\* no wake is lost between the append and the wait, and none goes to a thread
\* that came later instead.
NoLostWaiter ==
    \A t \in Threads :
        InWait(t) => (signaled[t] \/ (slot # NoThread /\ t \in ToSet(queue[slot])))

\* An event that is set belongs to a waiter a waker has marked: a thread that
\* leaves its wait on the event always finds `signaled` and returns TRUE.
EventMeansSignaled == \A t \in Threads : InWait(t) /\ event[t] => signaled[t]

\* The condition variable the C++ runtime expects: the lock counts as released
\* from the moment the waiter is queued, and a wake takes effect under c->lock.
Sleepers(s) == {t \in Threads : pc[t] = "reenter" /\ signaled[t] = s}

Abstract == INSTANCE CondVar WITH
    owner <- IF cs # NoThread /\ pc[cs] = "leavecs" THEN NoThread ELSE cs,
    waiting <- {t \in Threads : InWait(t) /\ ~signaled[t]},
    woken <- {t \in Threads : InWait(t) /\ signaled[t]} \cup Sleepers(TRUE),
    timedOut <- Sleepers(FALSE),
    waking <- {<<t, op[t] = "wakeall">> :
                 t \in {u \in Threads : pc[u] # "idle" /\ op[u] # "sleep"}}

\* The XP code implements the condition variable: every step is a step of it or
\* changes nothing a caller can see; a wake with a waiter queued takes one.
ImplementsCondVar == Abstract!Spec
=============================================================================
