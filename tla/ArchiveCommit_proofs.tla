------------------------ MODULE ArchiveCommit_proofs ------------------------
(***************************************************************************)
(* For any number of runs: `a` never loses the archive it replaces, never  *)
(* replaces one without consent, leaves no trace when it says so, and      *)
(* keeps without a note only what its check answers for.                   *)
(*                                                                         *)
(* IInv follows one run.  Up to the rename the old archive is untouched,   *)
(* or there was none; from close() on the file at write_path is this run's *)
(* and whole, with the faults that were written unless the disk changed    *)
(* it; past the verdict it is accepted: checked, or excused.               *)
(***************************************************************************)
EXTENDS ArchiveCommit, TLAPS

\* The file is this run's and whole; its faults are those of what was written, but for
\* what the disk did.
Made(f) ==
    /\ f.run = run /\ f.state = "whole"
    /\ "disk" \notin f.faults => f.faults = faults

Same == out = before.out /\ part = before.part

Checking == {"live", "structure", "after", "judge"}

\* replace_existing is only set by the test for the file.
Unasked == pc \in {"scan", "exists"} => ~replace

\* The run has not looked at the file system yet, or not changed it.
Fresh == pc \in {"scan", "exists", "ask", "open"} => Same

\* What replace_existing says, and what is still as it was.
OldKept ==
    pc \in {"ask", "open", "stub", "compress", "close", "rename"} \cup Checking =>
        /\ ~replace => (Simulate \/ before.out = Absent) /\ part = before.part
        /\ replace => before.out # Absent
        /\ replace \/ Simulate => out = before.out

Consented ==
    replace /\ pc \notin {"idle", "scan", "exists", "ask"} => opt.yes \/ consent

\* What is written, and what the checks so far have told about it.
Known ==
    /\ pc = "close" => ~Simulate
    /\ pc \in Checking => ~Simulate /\ opt.check # "off" /\ Made(Written)
    /\ pc = "structure" => "stream" \notin faults
    /\ pc = "after" => after
    /\ pc = "judge" => check = "failed" \/ Accepted(Written)
    /\ pc = "rename" => ~Simulate /\ Accepted(Written)
    /\ pc \in {"fallback", "retry"} => ~Simulate /\ Accepted(part)
    /\ pc = "footer" => IF Simulate THEN Same ELSE Accepted(out)

\* What a run leaves to the next one.
AtRest == pc = "idle" => NeverLost /\ LeavesNoTrace /\ KeptIsChecked

IInv ==
    /\ TypeOK
    /\ Unasked /\ Fresh /\ OldKept /\ Consented /\ Known /\ AtRest

\* The two files there are before the first run.
LEMMA FileFacts == Absent \in File /\ Older \in File
  BY DEF Absent, Older, File, Faults

\* The types hold at the start.
LEMMA TypeInit == Init => TypeOK
  <1> SUFFICES ASSUME Init PROVE TypeOK
    OBVIOUS
  <1>1. out \in File /\ part \in File BY FileFacts DEF Init
  <1>2. before \in [out : File, part : File] BY <1>1 DEF Init
  <1>3. run \in 0..MaxRuns BY MaxRunsAssumption DEF Init
  <1> QED BY <1>1, <1>2, <1>3 DEF Init, TypeOK, Results, Simulate

\* Every step keeps the types, and leaves no run with a result still under way.
LEMMA TypeNext == TypeOK /\ [Next]_vars => TypeOK'
  <1> SUFFICES ASSUME TypeOK, [Next]_vars PROVE TypeOK'
    OBVIOUS
  <1>0. run \in Nat BY MaxRunsAssumption DEF TypeOK
  <1>a. Start => run' \in 0..MaxRuns BY MaxRunsAssumption DEF TypeOK, Start
  <1> USE FileFacts DEF TypeOK, Results, Simulate, End
  <1>1. CASE Start
    <2>1. run' \in 0..MaxRuns BY <1>1, <1>a
    <2>2. out' \in File /\ part' \in File /\ before' \in [out : File, part : File]
      BY <1>1 DEF Start
    <2> QED BY <1>1, <2>1, <2>2 DEF Start
  <1>2. CASE Scan BY <1>2 DEF Scan
  <1>3. CASE CheckExists BY <1>3 DEF CheckExists
  <1>4. CASE Ask BY <1>4 DEF Ask
  <1>5. CASE Open
    <2>1. Begun \in File BY <1>0 DEF Begun, File, Faults
    <2>2. out' \in File /\ part' \in File BY <1>5, <2>1 DEF Open, SetWritten
    <2> QED BY <1>5, <2>2 DEF Open
  <1>6. CASE Stub
    <2>1. out' \in File /\ part' \in File BY <1>6 DEF Stub, Discard, SetWritten
    <2> QED BY <1>6, <2>1 DEF Stub
  <1>7. CASE Compress BY <1>7 DEF Compress, Faults
  <1>8. CASE CompressFails
    <2>1. out' \in File /\ part' \in File BY <1>8 DEF CompressFails, Discard, SetWritten
    <2> QED BY <1>8, <2>1 DEF CompressFails
  <1>9. CASE CompressThrows BY <1>9 DEF CompressThrows
  <1>10. CASE Close
    <2>1. \A f \in SUBSET Faults : [run |-> run, state |-> "whole", faults |-> f] \in File
      BY <1>0 DEF File
    <2>2. {faults} \cup {g \in SUBSET Faults : "disk" \in g} \subseteq SUBSET Faults
      OBVIOUS
    <2>3. out' \in File /\ part' \in File
      BY <1>10, <2>1, <2>2 DEF Close, Discard, SetWritten
    <2>4. pc' \in {"idle", "rename", "live", "after"} /\ after' \in BOOLEAN
      BY <1>10 DEF Close, Options
    <2> QED BY <1>10, <2>3, <2>4 DEF Close
  <1>11. CASE LiveVerdict BY <1>11 DEF LiveVerdict
  <1>12. CASE Structure BY <1>12 DEF Structure
  <1>13. CASE After BY <1>13 DEF After
  <1>14. CASE CheckThrows BY <1>14 DEF CheckThrows
  <1>15. CASE Judge
    <2>1. out' \in File /\ part' \in File BY <1>15 DEF Judge, Discard, SetWritten
    <2> QED BY <1>15, <2>1 DEF Judge
  <1>16. CASE Rename BY <1>16 DEF Rename
  <1>17. CASE Fallback BY <1>17 DEF Fallback
  <1>18. CASE Retry BY <1>18 DEF Retry
  <1>19. CASE Footer BY <1>19 DEF Footer
  <1>20. CASE Kill BY <1>20 DEF Kill
  <1>21. CASE UNCHANGED vars BY <1>21 DEF vars
  <1> QED BY <1>1, <1>2, <1>3, <1>4, <1>5, <1>6, <1>7, <1>8, <1>9, <1>10, <1>11, <1>12, <1>13,
             <1>14, <1>15, <1>16, <1>17, <1>18, <1>19, <1>20, <1>21 DEF Next

\* The promises hold while the run is under way, whatever it is doing.
LEMMA AtAnyTime == IInv => NeverLost /\ LeavesNoTrace /\ KeptIsChecked
  <1> SUFFICES ASSUME IInv PROVE NeverLost /\ LeavesNoTrace /\ KeptIsChecked
    OBVIOUS
  <1>1. CASE pc = "idle" BY <1>1 DEF IInv, AtRest
  <1>2. CASE pc # "idle"
    <2>1. result = "none" BY <1>2 DEF IInv, TypeOK
    <2>2. KeptIsChecked BY <2>1 DEF KeptIsChecked
    <2>3. CASE pc \in {"scan", "exists", "ask", "open"}
      BY <2>1, <2>2, <2>3 DEF IInv, Fresh, Same, NeverLost, LeavesNoTrace
    <2>4. CASE pc \in {"stub", "compress", "close"} \cup Checking
      <3>1. (replace \/ Simulate => out = before.out)
            /\ (~replace => (Simulate \/ before.out = Absent) /\ part = before.part)
        BY <2>4 DEF IInv, OldKept
      <3>2. replace => ~Simulate BY DEF IInv, TypeOK
      <3> QED BY <2>1, <2>2, <3>1, <3>2 DEF NeverLost, LeavesNoTrace
    <2>5. CASE pc = "rename"
      <3>1. Accepted(Written) /\ ~Simulate BY <2>5 DEF IInv, Known
      <3> QED BY <2>1, <2>2, <3>1 DEF Written, NeverLost, LeavesNoTrace
    <2>6. CASE pc \in {"fallback", "retry"}
      <3>1. Accepted(part) /\ ~Simulate BY <2>6 DEF IInv, Known
      <3> QED BY <2>1, <2>2, <3>1 DEF NeverLost, LeavesNoTrace
    <2>7. CASE pc = "footer"
      <3>1. IF Simulate THEN Same ELSE Accepted(out) BY <2>7 DEF IInv, Known
      <3> QED BY <2>1, <2>2, <3>1 DEF Same, NeverLost, LeavesNoTrace
    <2> QED BY <1>2, <2>3, <2>4, <2>5, <2>6, <2>7 DEF IInv, TypeOK, Checking
  <1> QED BY <1>1, <1>2

\* A run that stops where it is, without a word on the directory.
LEMMA StopsThere ==
    ASSUME IInv, End("out of memory") \/ End("aborted") \/ End("killed") \/ End("cannot write"),
           UNCHANGED <<out, part, run, opt, check, after, before>>
    PROVE  NeverLost' /\ LeavesNoTrace' /\ KeptIsChecked'
  <1>1. NeverLost /\ LeavesNoTrace /\ KeptIsChecked BY AtAnyTime
  <1>2. NeverLost' BY <1>1 DEF NeverLost, Accepted, Checked
  <1>3. LeavesNoTrace' BY <1>1 DEF LeavesNoTrace, Simulate, End
  <1>4. KeptIsChecked' BY DEF KeptIsChecked, End
  <1> QED BY <1>2, <1>3, <1>4

\* Before the first run there is nothing to lose.
LEMMA InitInv == Init => IInv
  <1> SUFFICES ASSUME Init PROVE IInv
    OBVIOUS
  <1>1. TypeOK BY TypeInit
  <1>2. NeverLost /\ LeavesNoTrace /\ KeptIsChecked
    BY DEF Init, NeverLost, LeavesNoTrace, KeptIsChecked
  <1> QED
      BY <1>1, <1>2 DEF Init, IInv, Unasked, Fresh, OldKept, Consented, Known, AtRest, Checking

\* Each action keeps the invariant.
LEMMA NextInv == IInv /\ [Next]_vars => IInv'
  <1> SUFFICES ASSUME IInv, [Next]_vars PROVE IInv'
    OBVIOUS
  <1>a. TypeOK' BY TypeNext DEF IInv
  <1>b. /\ replace => ~Simulate
        /\ pc \in {"ask", "fallback", "retry"} => replace
        /\ opt.check \in {"live", "after", "off"}
        /\ faults \subseteq Faults
    BY DEF IInv, TypeOK, Options
  <1> USE <1>a, <1>b DEF IInv, Checking, Simulate, End
  <1>1. CASE Start
    BY <1>1 DEF Start, Unasked, Fresh, OldKept, Same, Consented, Known, Written, Made,
        Accepted, Checked, AtRest
  <1>2. CASE Scan
    <2>1. AtRest'
      BY <1>2 DEF Scan, Unasked, Fresh, OldKept, Same, Known, Made, AtRest, NeverLost,
          LeavesNoTrace, KeptIsChecked, Accepted, Checked
    <2> QED
        BY <1>2, <2>1 DEF Scan, Unasked, Fresh, OldKept, Same, Consented, Known, Written, Made,
            Accepted, Checked
  <1>3. CASE CheckExists
    BY <1>3 DEF CheckExists, Unasked, Fresh, OldKept, Same, Consented, Known, Written, Made,
        Accepted, Checked, AtRest
  <1>4. CASE Ask
    <2>1. AtRest'
      BY <1>4 DEF Ask, Unasked, Fresh, OldKept, Same, Known, Made, AtRest, NeverLost,
          LeavesNoTrace, KeptIsChecked, Accepted, Checked
    <2> QED
        BY <1>4, <2>1 DEF Ask, Unasked, Fresh, OldKept, Same, Consented, Known, Written, Made,
            Accepted, Checked
  <1>5. CASE Open
    <2> USE <1>5 DEF Open, Discard, SetWritten
    <2>1. Fresh' /\ OldKept' /\ Unasked' BY DEF Unasked, OldKept, Fresh, Same
    <2>2. Consented' /\ Known' BY DEF Consented, Known, Written, Made, Accepted, Checked
    <2>3. AtRest'
      BY DEF AtRest, OldKept, Fresh, Same, NeverLost, LeavesNoTrace, KeptIsChecked, Accepted,
          Checked
    <2> QED BY <2>1, <2>2, <2>3
  <1>6. CASE Stub
    <2> USE <1>6 DEF Stub, Discard, SetWritten
    <2>1. Fresh' /\ OldKept' /\ Unasked' BY DEF Unasked, OldKept, Fresh, Same
    <2>2. Consented' /\ Known' BY DEF Consented, Known, Written, Made, Accepted, Checked
    <2>3. AtRest'
      BY DEF AtRest, OldKept, Fresh, Same, NeverLost, LeavesNoTrace, KeptIsChecked, Accepted,
          Checked
    <2> QED BY <2>1, <2>2, <2>3
  <1>7. CASE Compress
    <2> USE <1>7 DEF Compress
    <2>1. Known' BY DEF Known, Written, Made, Accepted, Checked, OldKept, Same
    <2> QED BY <2>1 DEF Unasked, Fresh, OldKept, Same, Consented, AtRest
  <1>8. CASE CompressFails
    <2> USE <1>8 DEF CompressFails, Discard, SetWritten
    <2>1. Fresh' /\ OldKept' /\ Unasked' BY DEF Unasked, OldKept, Fresh, Same
    <2>2. Consented' /\ Known' BY DEF Consented, Known, Written, Made, Accepted, Checked
    <2>3. AtRest'
      BY DEF AtRest, OldKept, Fresh, Same, NeverLost, LeavesNoTrace, KeptIsChecked, Accepted,
          Checked
    <2> QED BY <2>1, <2>2, <2>3
  <1>9. CASE CompressThrows
    <2>1. AtRest' BY <1>9, StopsThere DEF CompressThrows, AtRest
    <2> QED
        BY <1>9, <2>1 DEF CompressThrows, Unasked, Fresh, OldKept, Same, Consented, Known,
            Written, Made, Accepted, Checked
  <1>10. CASE Close
    <2> USE <1>10 DEF Close, Discard, SetWritten
    <2>1. ~Simulate BY DEF Known
    <2>2. CASE End("write failure")
      <3>1. Fresh' /\ OldKept' /\ Consented' /\ Known' /\ Unasked'
        BY <2>2 DEF Unasked, Fresh, OldKept, Consented, Known
      <3>2. AtRest' BY <2>2 DEF AtRest, OldKept, NeverLost, LeavesNoTrace, KeptIsChecked
      <3> QED BY <3>1, <3>2
    <2>3. CASE pc' = IF opt.check = "off" THEN "rename" ELSE opt.check
      <3>1. PICK f \in {faults} \cup {g \in SUBSET Faults : "disk" \in g} :
               SetWritten([run |-> run, state |-> "whole", faults |-> f])
        BY <2>3
      <3>2. Written' = [run |-> run, state |-> "whole", faults |-> f]
        BY <2>3, <3>1 DEF Written
      <3>3. Made(Written)' BY <2>3, <3>1, <3>2 DEF Made
      <3>4. pc' \in {"rename", "live", "after"} /\ (pc' = "rename" <=> opt.check = "off")
        BY <2>3
      <3>5. OldKept' BY <2>1, <2>3, <3>4 DEF OldKept
      <3>6. Known' BY <2>1, <2>3, <3>2, <3>3, <3>4 DEF Known, Accepted
      <3> QED BY <3>4, <3>5, <3>6 DEF Unasked, Fresh, Consented, AtRest
    <2> QED BY <2>2, <2>3
  <1>11. CASE LiveVerdict
    BY <1>11 DEF LiveVerdict, Unasked, Fresh, OldKept, Same, Consented, Known, Written, Made,
        Accepted, Checked, AtRest
  <1>12. CASE Structure
    <2> USE <1>12 DEF Structure
    <2>0. "stream" \notin faults BY DEF Known
    <2>1. Known' BY <2>0 DEF Faults, Known, Written, Made, Accepted, Checked
    <2> QED BY <2>1 DEF Unasked, Fresh, OldKept, Same, Consented, AtRest
  <1>13. CASE After
    BY <1>13 DEF After, Unasked, Fresh, OldKept, Same, Consented, Known, Written, Made,
        Accepted, Checked, AtRest
  <1>14. CASE CheckThrows
    <2>1. AtRest' BY <1>14, StopsThere DEF CheckThrows, AtRest
    <2> QED
        BY <1>14, <2>1 DEF CheckThrows, Unasked, Fresh, OldKept, Same, Consented, Known,
            Written, Made, Accepted, Checked
  <1>15. CASE Judge
    <2> USE <1>15 DEF Judge, Discard, SetWritten
    <2>1. Fresh' /\ OldKept' /\ Unasked' BY DEF Unasked, OldKept, Fresh, Same
    <2>2. Consented' /\ Known' BY DEF Consented, Known, Written, Made, Accepted, Checked
    <2>3. AtRest'
      BY DEF AtRest, OldKept, Fresh, Same, NeverLost, LeavesNoTrace, KeptIsChecked, Accepted,
          Checked
    <2> QED BY <2>1, <2>2, <2>3
  <1>16. CASE Rename
    BY <1>16 DEF Rename, Unasked, Fresh, OldKept, Same, Consented, Known, Written, Made,
        Accepted, Checked, AtRest
  <1>17. CASE Fallback
    BY <1>17 DEF Fallback, Unasked, Fresh, OldKept, Same, Consented, Known, Written, Made,
        Accepted, Checked, AtRest
  <1>18. CASE Retry
    <2> USE <1>18 DEF Retry, Discard, SetWritten
    <2>1. Fresh' /\ OldKept' /\ Unasked' BY DEF Unasked, OldKept, Fresh, Same
    <2>2. Consented' /\ Known' BY DEF Consented, Known, Written, Made, Accepted, Checked
    <2>3. AtRest' BY StopsThere DEF AtRest
    <2> QED BY <2>1, <2>2, <2>3
  <1>19. CASE Footer
    <2>1. AtRest'
      BY <1>19 DEF Footer, Unasked, Fresh, OldKept, Same, Known, Made, AtRest,
          NeverLost, LeavesNoTrace, KeptIsChecked, Accepted, Checked
    <2> QED
        BY <1>19, <2>1 DEF Footer, Unasked, Fresh, OldKept, Same, Consented, Known, Written,
            Made, Accepted, Checked
  <1>20. CASE Kill
    <2>1. AtRest' BY <1>20, StopsThere DEF Kill, AtRest
    <2> QED
        BY <1>20, <2>1 DEF Kill, Unasked, Fresh, OldKept, Same, Consented, Known, Written, Made,
            Accepted, Checked
  <1>21. CASE UNCHANGED vars
    <2>1. AtRest'
      BY <1>21 DEF vars, AtRest, NeverLost, LeavesNoTrace, KeptIsChecked, Accepted, Checked
    <2> QED
        BY <1>21, <2>1 DEF vars, Unasked, Fresh, Same, OldKept, Consented, Known, Written, Made,
            Accepted, Checked
  <1> QED
      BY <1>1, <1>2, <1>3, <1>4, <1>5, <1>6, <1>7, <1>8, <1>9, <1>10, <1>11, <1>12, <1>13,
          <1>14, <1>15, <1>16, <1>17, <1>18, <1>19, <1>20, <1>21 DEF Next

\* A step that touches the archive's own name has the user's consent, or had nothing
\* to replace.
LEMMA ConsentNext ==
    IInv /\ [Next]_vars => (before.out # Absent /\ out' # out => opt.yes \/ consent)
  <1> SUFFICES ASSUME IInv, Next, before.out # Absent, out' # out PROVE opt.yes \/ consent
    BY DEF vars
  <1>1. CASE Open \/ Stub \/ CompressFails \/ Close \/ Judge
    <2>1. ~replace /\ ~Simulate
      BY <1>1 DEF Open, Stub, CompressFails, Close, Judge, Discard, SetWritten, IInv, Known,
                  Checking
    <2>2. pc \in {"open", "stub", "compress", "close"} \cup Checking
      BY <1>1 DEF Open, Stub, CompressFails, Close, Judge, Checking
    <2> QED BY <2>1, <2>2 DEF IInv, OldKept
  <1>2. CASE Rename \/ Fallback \/ Retry
    <2>1. replace /\ pc \in {"rename", "fallback", "retry"}
      BY <1>2 DEF Rename, Fallback, Retry, IInv, TypeOK
    <2> QED BY <2>1 DEF IInv, Consented
  <1> QED
    BY <1>1, <1>2 DEF Next, Start, Scan, CheckExists, Ask, Compress, CompressThrows,
                      LiveVerdict, Structure, After, CheckThrows, Footer, Kill

\* The invariant of every run, however many follow each other in the directory.
THEOREM Invariance == Spec => []IInv
  BY InitInv, NextInv, PTL DEF Spec

\* The types of ArchiveCommit hold, and no run that has a result is still under way.
THEOREM TypeCorrect == Spec => []TypeOK
  <1>1. IInv => TypeOK BY DEF IInv
  <1> QED BY <1>1, Invariance, PTL

\* `a` over an existing archive never loses it: whatever fails and wherever the process
\* is killed, the archive that was there or its complete replacement exists.
THEOREM ArchiveNeverLost == Spec => []NeverLost
  BY AtAnyTime, Invariance, PTL

\* What a run keeps without a note is its whole archive, whose streams decode to what was
\* read and whose entries are listed right, unless the check was switched off; and what
\* was checked along the way is on disk as it was written.  Where a reader puts the
\* pieces, and what no reader looks at, is not covered.
THEOREM KeptChecked == Spec => []KeptIsChecked
  BY AtAnyTime, Invariance, PTL

\* A run that reports that no archive was created, and a simulation, leave the directory
\* as they found it.
THEOREM NoTrace == Spec => []LeavesNoTrace
  BY AtAnyTime, Invariance, PTL

\* An existing archive is only replaced after a yes, an always or -y.
THEOREM OnlyWithConsent == Spec => ReplacedWithConsent
  BY ConsentNext, Invariance, PTL DEF Spec, ReplacedWithConsent
=============================================================================
