------------------------------- MODULE CondVar -------------------------------
(***************************************************************************)
(* What the C++ runtime expects of a condition variable and the lock it is *)
(* used with (std::condition_variable over SleepConditionVariableCS and    *)
(* the two Wake calls): releasing the lock and starting to wait is one     *)
(* step, a wake takes a thread that is waiting whenever there is one, and  *)
(* a thread returns from its wait holding the lock.                        *)
(***************************************************************************)
CONSTANTS Threads,    \* the program's threads
          NoThread    \* the owner of a lock nobody holds

VARIABLES owner,      \* the thread that holds the lock
          waiting,    \* threads inside a wait, not woken yet
          woken,      \* threads a wake has taken, not returned yet
          timedOut,   \* threads whose wait ran out, not returned yet
          waking      \* the wake calls in progress: <<thread, all>>

vars == <<owner, waiting, woken, timedOut, waking>>

Asleep == waiting \cup woken \cup timedOut

TypeOK ==
    /\ owner \in Threads \cup {NoThread}
    /\ waiting \subseteq Threads
    /\ woken \subseteq Threads
    /\ timedOut \subseteq Threads
    /\ waking \subseteq Threads \X BOOLEAN

Init ==
    /\ owner = NoThread
    /\ waiting = {} /\ woken = {} /\ timedOut = {} /\ waking = {}

Acquire(t) ==
    /\ owner = NoThread /\ t \notin Asleep
    /\ owner' = t
    /\ UNCHANGED <<waiting, woken, timedOut, waking>>

Release(t) ==
    /\ owner = t
    /\ owner' = NoThread
    /\ UNCHANGED <<waiting, woken, timedOut, waking>>

\* Give up the lock and start to wait, in one step.
Sleep(t) ==
    /\ owner = t
    /\ owner' = NoThread
    /\ waiting' = waiting \cup {t}
    /\ UNCHANGED <<woken, timedOut, waking>>

CallWake(t, all) ==
    /\ t \notin Asleep
    /\ waking' = waking \cup {<<t, all>>}
    /\ UNCHANGED <<owner, waiting, woken, timedOut>>

\* A wake call takes effect: all the waiters, or one of them if there is one.
Wake(t, all) ==
    /\ <<t, all>> \in waking
    /\ waking' = waking \ {<<t, all>>}
    /\ \E taken \in SUBSET waiting :
        /\ IF all THEN taken = waiting
           ELSE waiting # {} => \E u \in waiting : taken = {u}
        /\ waiting' = waiting \ taken /\ woken' = woken \cup taken
    /\ UNCHANGED <<owner, timedOut>>

TimeOut(t) ==
    /\ t \in waiting
    /\ waiting' = waiting \ {t} /\ timedOut' = timedOut \cup {t}
    /\ UNCHANGED <<owner, woken, waking>>

Return(t) ==
    /\ owner = NoThread /\ t \in woken \cup timedOut
    /\ owner' = t
    /\ woken' = woken \ {t} /\ timedOut' = timedOut \ {t}
    /\ UNCHANGED <<waiting, waking>>

Next ==
    \E t \in Threads :
        \/ Acquire(t) \/ Release(t) \/ Sleep(t) \/ TimeOut(t) \/ Return(t)
        \/ \E all \in BOOLEAN : CallWake(t, all) \/ Wake(t, all)

Spec == Init /\ [][Next]_vars
=============================================================================
