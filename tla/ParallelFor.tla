----------------------------- MODULE ParallelFor -----------------------------
(***************************************************************************)
(* ParallelForEach (sfx_archive.cpp): the streams of a parallel container  *)
(* decoded by the calling thread and a pool, with the decode status each   *)
(* thread keeps for itself (nz_decode_error.h) and the report handed to    *)
(* the caller: the lowest failing slot, and its status.                    *)
(*                                                                         *)
(* What decoding a stream does is its outcome: it succeeds, it fails with  *)
(* a status or without one (the decoder declined), or an allocation throws *)
(* std::bad_alloc or std::length_error.                                    *)
(*                                                                         *)
(* The names of the machine are its own, so that it can be extended next   *)
(* to the other pool.                                                      *)
(***************************************************************************)
EXTENDS Integers, FiniteSets, FiniteSetsExt

CONSTANTS N,          \* the number of streams
          Caller,     \* the calling thread
          Helpers,    \* the threads of the pool, at most N - 1
          Batches,    \* the batches a run may decode: outcomes by slot
          Share,      \* the BWT team size while the workers run
          Team        \* ... and before

Slots == 0 .. N - 1

Threads == {Caller} \cup Helpers

\* ends: how the item ends; code: the status its decoder records, 0 for none
Outcome == [ends : {"ok", "fail", "badalloc", "length"}, code : Nat]

ASSUME ParallelAssumption ==
    /\ N \in Nat \ {0}
    /\ Caller \notin Helpers
    /\ IsFiniteSet(Helpers) /\ Cardinality(Helpers) < N
    /\ Batches \subseteq [Slots -> Outcome]
    /\ Share \in Nat /\ Team \in Nat

VARIABLES batch,      \* the outcome of each slot
          pool,       \* the threads started next to the caller
          slot,       \* the next slot to hand out
          pc, item,   \* each thread: where it is, and the slot it decodes
          status,     \* derr::t_state of each thread: the code, 0 for none
          haveFail, failSlot, failCode,   \* the failure recorded so far
          ok, oom,    \* the batch's flags
          starts,     \* history: how often each slot was started
          bwt,        \* NzBwtGetThreadCount
          result      \* "running", then what the caller gets

loopVars == <<batch, pool, slot, pc, item, status, haveFail, failSlot, failCode, ok, oom,
          starts, bwt, result>>

LoopTypeOK ==
    /\ batch \in Batches
    /\ pool \in {Helpers, {}}
    /\ slot \in Nat
    /\ pc \in [Threads -> {"off", "take", "decode", "record", "caught", "exit", "spawn",
                           "join", "end"}]
    /\ item \in [Threads -> Slots]
    /\ status \in [Threads -> Nat]
    /\ haveFail \in BOOLEAN /\ failSlot \in Slots /\ failCode \in Nat
    /\ ok \in BOOLEAN /\ oom \in BOOLEAN
    /\ starts \in [Slots -> Nat]
    /\ bwt \in Nat
    /\ result \in {"running", "true", "false", "badalloc", "length", "terminated"}

\* -t1, or a batch of one stream: the calling thread does it alone.
Alone == pool = {}

LoopInit ==
    /\ batch \in Batches
    /\ pool \in {Helpers, {}}
    /\ slot = 0
    /\ pc = [t \in Threads |-> IF t = Caller THEN "spawn" ELSE "off"]
    /\ item = [t \in Threads |-> 0]
    /\ status = [t \in Threads |-> 0]
    /\ haveFail = FALSE /\ failSlot = 0 /\ failCode = 0
    /\ ok = TRUE /\ oom = FALSE
    /\ starts = [i \in Slots |-> 0]
    /\ bwt = Team
    /\ result = "running"

MoveTo(t, place) == pc' = [pc EXCEPT ![t] = place]

Running == result = "running"

-----------------------------------------------------------------------------
\* The pool is started, with the BWT teams cut to their share; the calling
\* thread then works like the others.  One thread alone changes no team.
Start ==
    /\ pc[Caller] = "spawn"
    /\ pc' = [t \in Threads |-> IF t \in pool \cup {Caller} THEN "take" ELSE "off"]
    /\ bwt' = IF Alone THEN bwt ELSE Share
    /\ UNCHANGED <<batch, pool, slot, item, status, haveFail, failSlot, failCode, ok, oom, starts,
                   result>>

\* next.fetch_add, and SlotStarted; past the last slot the thread is through.
TakeSlot(t) ==
    /\ Running /\ pc[t] = "take"
    /\ slot' = slot + 1
    /\ IF slot < N
       THEN /\ item' = [item EXCEPT ![t] = slot]
            /\ starts' = [starts EXCEPT ![slot] = @ + 1]
            /\ MoveTo(t, "decode")
       ELSE /\ MoveTo(t, IF t = Caller THEN "join" ELSE "exit")
            /\ UNCHANGED <<item, starts>>
    /\ UNCHANGED <<batch, pool, status, haveFail, failSlot, failCode, ok, oom, bwt, result>>

\* derr::Set keeps the first status of the thread.
NoteStatus(t) ==
    status' = [status EXCEPT ![t] = IF @ = 0 THEN batch[item[t]].code ELSE @]

DecodeOk(t) ==
    /\ Running /\ pc[t] = "decode" /\ batch[item[t]].ends = "ok"
    /\ MoveTo(t, "take")
    /\ UNCHANGED <<batch, pool, slot, item, status, haveFail, failSlot, failCode, ok, oom, starts,
                   bwt, result>>

DecodeFails(t) ==
    /\ Running /\ pc[t] = "decode" /\ batch[item[t]].ends = "fail"
    /\ NoteStatus(t)
    /\ ok' = FALSE
    /\ MoveTo(t, "record")
    /\ UNCHANGED <<batch, pool, slot, item, haveFail, failSlot, failCode, oom, starts, bwt, result>>

\* Mutant: the first failure to arrive is the one kept.
RecordFirst(t) ==
    /\ Running /\ pc[t] = "record"
    /\ haveFail' = TRUE
    /\ failSlot' = IF haveFail THEN failSlot ELSE item[t]
    /\ failCode' = IF haveFail THEN failCode ELSE status[t]
    /\ status' = [status EXCEPT ![t] = 0]
    /\ MoveTo(t, "take")
    /\ UNCHANGED <<batch, pool, slot, item, ok, oom, starts, bwt, result>>

\* record_failure, under fail_mu: the lowest slot stays; the status is cleared.
RecordFailure(t) ==
    /\ Running /\ pc[t] = "record"
    /\ haveFail' = TRUE
    /\ IF ~haveFail \/ item[t] < failSlot
       THEN failSlot' = item[t] /\ failCode' = status[t]
       ELSE UNCHANGED <<failSlot, failCode>>
    /\ status' = [status EXCEPT ![t] = 0]
    /\ MoveTo(t, "take")
    /\ UNCHANGED <<batch, pool, slot, item, ok, oom, starts, bwt, result>>

\* std::bad_alloc is caught in a worker and noted; alone, the caller lets it go.
DecodeBadAlloc(t) ==
    /\ Running /\ pc[t] = "decode" /\ batch[item[t]].ends = "badalloc"
    /\ NoteStatus(t)
    /\ IF Alone
       THEN result' = "badalloc" /\ MoveTo(t, "end") /\ UNCHANGED <<ok, oom>>
       ELSE oom' = TRUE /\ ok' = FALSE /\ MoveTo(t, "take") /\ UNCHANGED result
    /\ UNCHANGED <<batch, pool, slot, item, haveFail, failSlot, failCode, starts, bwt>>

\* std::length_error is caught by no worker: it ends the process from a thread of
\* the pool, and from the calling thread while the pool is still joinable.
DecodeLengthError(t) ==
    /\ Running /\ pc[t] = "decode" /\ batch[item[t]].ends = "length"
    /\ result' = IF Alone THEN "length" ELSE "terminated"
    /\ MoveTo(t, "end")
    /\ UNCHANGED <<batch, pool, slot, item, status, haveFail, failSlot, failCode, ok, oom, starts, bwt>>

\* The pool is joined and the teams are put back; bad_alloc is thrown again here,
\* or publish_failure hands the lowest slot's status to the calling thread.
Finish ==
    /\ Running /\ pc[Caller] = "join" /\ \A t \in pool : pc[t] = "exit"
    /\ result' = IF oom THEN "badalloc" ELSE IF ok THEN "true" ELSE "false"
    /\ status' = IF oom \/ ~haveFail THEN status
                 ELSE [status EXCEPT ![Caller] = IF failCode = 0 THEN 100 ELSE failCode]
    /\ bwt' = Team
    /\ MoveTo(Caller, "end")
    /\ UNCHANGED <<batch, pool, slot, item, haveFail, failSlot, failCode, ok, oom, starts>>

-----------------------------------------------------------------------------
Step(t) ==
    \/ TakeSlot(t) \/ DecodeOk(t) \/ DecodeFails(t) \/ RecordFailure(t)
    \/ DecodeBadAlloc(t) \/ DecodeLengthError(t)

LoopNext == Start \/ Finish \/ \E t \in Threads : Step(t)

LoopTerminated == ~Running /\ UNCHANGED loopVars

LoopSpec == LoopInit /\ [][LoopNext \/ LoopTerminated]_loopVars

LoopFairSpec == LoopSpec /\ WF_loopVars(Start \/ Finish) /\ \A t \in Threads : WF_loopVars(Step(t))

-----------------------------------------------------------------------------
(* Properties *)

Failing == {i \in Slots : batch[i].ends = "fail"}

\* Whatever order the streams finish in, a failed batch reports the lowest slot
\* that failed, with the status that slot's own decoder recorded.
LowestSlotReported ==
    result = "false" =>
        /\ failSlot = Min(Failing)
        /\ status[Caller] = IF batch[failSlot].code = 0 THEN 100 ELSE batch[failSlot].code

\* A failed allocation is not lost: the caller gets std::bad_alloc whenever some
\* stream threw it, and only then.
OutOfMemoryRethrown ==
    result \in {"true", "false", "badalloc"} =>
        (result = "badalloc" <=> \E i \in Slots : batch[i].ends = "badalloc" /\ starts[i] > 0)

\* Success is reported when every stream was decoded, whichever thread took it.
SuccessMeansAll == result = "true" => \A i \in Slots : starts[i] = 1 /\ batch[i].ends = "ok"

\* What goes wrong in a stream is reported to the caller as the one-thread run reports
\* it.
FailuresReported == LowestSlotReported /\ OutOfMemoryRethrown /\ SuccessMeansAll

\* The batch comes to an end.
BatchEnds == <>(~Running)

\* The comment in main(): a container asked for more than max_size() is reported
\* as "Out of memory!" and no longer ends in a C++ terminate message.
LengthErrorReported == result # "terminated"
=============================================================================
