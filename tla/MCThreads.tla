----------------------------- MODULE MCThreads -----------------------------
(***************************************************************************)
(* The two thread pools of the program, one at a time: the worker streams  *)
(* of a container being compressed (WorkerPool), and the streams of one    *)
(* being decoded (ParallelFor).  part says which of them runs; the other   *)
(* one rests in an initial state.                                          *)
(*                                                                         *)
(* Compressing: three streams on three threads, with scripts that make     *)
(* every inheritance matter: text that the detector only takes once the    *)
(* tables are filled, a transform that runs without a look, streams that   *)
(* fail.  Decoding: four streams on the caller and two threads, every      *)
(* batch that mixes success, failures with and without a status, and       *)
(* failed allocations.                                                     *)
(***************************************************************************)
EXTENDS WorkerPool, ParallelFor

CONSTANTS t1, t2, t3, h1, h2

MCThree == {t1, t2, t3}

MCHelpers == {h1, h2}

B(looks, whenEmpty, whenFilled, how) ==
    [looks |-> looks, whenEmpty |-> whenEmpty, whenFilled |-> whenFilled, ends |-> how]

Text == B(TRUE, TRUE, TRUE, "no")

Late == B(TRUE, FALSE, TRUE, "no")      \* text only when the tables are filled

Early == B(TRUE, TRUE, FALSE, "no")     \* text only while they are empty

Blind == B(FALSE, TRUE, TRUE, "no")     \* the transform without a look

Plain == B(FALSE, FALSE, FALSE, "no")

FailsHere == B(FALSE, FALSE, FALSE, "fail")

Throws == B(FALSE, FALSE, FALSE, "throw")

\* What each job may find: the first fills the tables or not, the later ones depend
\* on it; the last one's body is not written after a failure.
MCScripts ==
    {[w \in 0..2 |-> CASE w = 1 -> first [] w = 2 -> later[1] [] w = 0 -> later[2]] :
        first \in {<<Text>>, <<Late, Plain>>, <<Blind, Throws>>, <<Late, FailsHere>>},
        later \in {<<<<Late, Text>>, <<Late>>>>, <<<<Late, Text>>, <<Early>>>>,
                   <<<<Early, FailsHere>>, <<Late>>>>}}

-----------------------------------------------------------------------------
Ends(how, code) == [ends |-> how, code |-> code]

\* A failing slot records a status of its own, so that the reports tell slots apart;
\* slot 1 may also fail without one.
MixedBatches ==
    {b \in [0..3 -> {Ends("ok", 0), Ends("fail", 0), Ends("badalloc", 0)}
                        \cup {Ends("fail", 10 + i) : i \in 0..3}] :
        \A i \in 0..3 :
            /\ b[i].code \in {0, 10 + i}
            /\ b[i] = Ends("fail", 0) => i = 1}

LengthBatches ==
    {b \in [0..3 -> {Ends("ok", 0), Ends("length", 0)}] : b[0] = Ends("ok", 0)}

MCBatches == MixedBatches \cup LengthBatches

VARIABLE part

bothVars == <<part, vars, loopVars>>

\* The pool compresses ...
PoolRuns ==
    /\ part = "pool" /\ Init
    /\ LoopInit /\ batch = [i \in 0..3 |-> Ends("ok", 0)] /\ pool = {}

PoolDoes(A) == part = "pool" /\ A /\ UNCHANGED <<part, loopVars>>

\* ... or the loop decodes.
LoopRuns ==
    /\ part = "loop" /\ LoopInit
    /\ Init /\ scripts = CHOOSE s \in ScriptChoices : TRUE

LoopDoes(A) == part = "loop" /\ A /\ UNCHANGED <<part, vars>>

ThreadsInit == PoolRuns \/ LoopRuns

ThreadsNext == PoolDoes(Next \/ Terminated) \/ LoopDoes(LoopNext \/ LoopTerminated)

\* Fairness of each thread, as in the two modules.  One part runs throughout a
\* behaviour, so that the fairness of a thread of each may be stated together.
LoopThread(t) == CASE t = t1 -> Caller [] t = t2 -> h1 [] t = t3 -> h2

ThreadsSpec ==
    /\ ThreadsInit /\ [][ThreadsNext]_bothVars
    /\ WF_bothVars(PoolDoes(Main) \/ LoopDoes(Start \/ Finish))
    /\ \A t \in Pool : WF_bothVars(PoolDoes(Thread(t)) \/ LoopDoes(Step(LoopThread(t))))

LengthSpec == LoopRuns /\ [][ThreadsNext]_bothVars

-----------------------------------------------------------------------------
\* Both pools come to an end, with every thread of WorkerPool joined.
BothEnd ==
    <>(\/ part = "pool" /\ PoolDone
       \/ part = "loop" /\ ~Running)
=============================================================================
