---------------------------- MODULE ArchiveCommit ----------------------------
(***************************************************************************)
(* The life of the archive file under `a`, `s` and `w32c`                  *)
(* (RunAddStoreContainer, sfx_archive.cpp): the question over an existing  *)
(* archive, the file next to it that is written, what is thrown away when  *)
(* the compression fails, the self-check's verdict and the rename.         *)
(*                                                                         *)
(* Runs follow each other in one directory, and one may be killed at any   *)
(* point.  A file is the run that wrote it, whether it is whole and what   *)
(* is wrong with it; the compression is its outcome.                       *)
(***************************************************************************)
EXTENDS Integers

CONSTANT MaxRuns      \* how many runs follow each other

ASSUME MaxRunsAssumption == MaxRuns \in Nat \ {0}

\* stream: a stream that decodes to other bytes than were read, or not at all; list:
\* an archive that does not open, or lists other names, sizes or checksums; place: a
\* reader that puts sound pieces elsewhere (an offset cut to four bytes, a file named
\* twice); disk: a file that is not what was written, byte for byte, which may still
\* read back.
Faults == {"stream", "list", "place", "disk"}

File == [run : Nat, state : {"absent", "partial", "whole"}, faults : SUBSET Faults]

Absent == [run |-> 0, state |-> "absent", faults |-> {}]

Older == [run |-> 0, state |-> "whole", faults |-> {}]

\* check: how the self-check is made -- during the compression, after it, or not.
Options == [command : {"a", "s", "w32c"}, yes : BOOLEAN, check : {"live", "after", "off"}]

Results == {"none", "ok", "note", "nothing", "refused", "cannot open", "no stub",
            "declined", "write failure", "self-check", "cannot write", "out of memory",
            "aborted", "killed"}

VARIABLES out, part,      \* the files at out_path and at out_path + ".nzre-part"
          run, opt,       \* the run, and its options
          pc,
          replace,        \* replace_existing
          consent,        \* the user was asked and said yes or always
          faults,         \* what is wrong in what this run wrote, as it went to the file
          check, after,   \* check.verdict, and: check after the fact
          result,
          before          \* history: the two files when the run began

vars == <<out, part, run, opt, pc, replace, consent, faults, check, after, result, before>>

Simulate == opt.command = "s"

TypeOK ==
    /\ out \in File /\ part \in File
    /\ run \in 0..MaxRuns /\ opt \in Options
    /\ pc \in {"idle", "scan", "exists", "ask", "open", "stub", "compress", "close",
               "live", "structure", "after", "judge", "rename", "fallback", "retry", "footer"}
    /\ replace \in BOOLEAN /\ consent \in BOOLEAN /\ after \in BOOLEAN
    /\ faults \subseteq Faults
    /\ check \in {"ok", "failed", "skipped"}
    /\ result \in Results
    /\ before \in [out : File, part : File]
    /\ result = "none" \/ pc = "idle"
    /\ pc \in {"ask", "fallback", "retry"} => replace
    /\ replace => ~Simulate

Init ==
    /\ out \in {Absent, Older} /\ part = Absent
    /\ run = 0 /\ opt \in Options
    /\ pc = "idle"
    /\ replace = FALSE /\ consent = FALSE /\ after = FALSE
    /\ faults = {} /\ check = "ok"
    /\ result = "none"
    /\ before = [out |-> out, part |-> part]

\* write_path
SetWritten(f) ==
    IF replace THEN part' = f /\ UNCHANGED out ELSE out' = f /\ UNCHANGED part

\* Mutant: the file is left behind.
DiscardNothing == UNCHANGED <<out, part>>

\* The file at write_path.
Written == IF replace THEN part ELSE out

\* discard_output
Discard == IF Simulate THEN UNCHANGED <<out, part>> ELSE SetWritten(Absent)

End(r) == pc' = "idle" /\ result' = r

-----------------------------------------------------------------------------
Start ==
    /\ pc = "idle" /\ run < MaxRuns
    /\ run' = run + 1
    /\ opt' \in Options
    /\ pc' = "scan"
    /\ replace' = FALSE /\ consent' = FALSE /\ after' = FALSE
    /\ faults' = {} /\ check' = "ok" /\ result' = "none"
    /\ before' = [out |-> out, part |-> part]
    /\ UNCHANGED <<out, part>>

\* RunAdd: no input files, or some.
Scan ==
    /\ pc = "scan"
    /\ \/ End("nothing")
       \/ pc' = "exists" /\ UNCHANGED result
    /\ UNCHANGED <<out, part, run, opt, replace, consent, faults, check, after, before>>

CheckExists ==
    /\ pc = "exists"
    /\ replace' = (~Simulate /\ out # Absent)
    /\ pc' = IF replace' /\ ~opt.yes THEN "ask" ELSE "open"
    /\ UNCHANGED <<out, part, run, opt, consent, faults, check, after, result, before>>

\* Mutant: the end of the input counts as a yes.
AskTakesEof ==
    /\ pc = "ask"
    /\ pc' = "open" /\ consent' \in BOOLEAN
    /\ UNCHANGED <<out, part, run, opt, replace, faults, check, after, result, before>>

\* Yes or always; no, or the end of the input.  Any other answer asks again.
Ask ==
    /\ pc = "ask"
    /\ \/ consent' = TRUE /\ pc' = "open" /\ UNCHANGED result
       \/ End("refused") /\ UNCHANGED consent
    /\ UNCHANGED <<out, part, run, opt, replace, faults, check, after, before>>

Begun == [run |-> run, state |-> "partial", faults |-> {}]

\* Opening write_path truncates it, whatever was there.
Open ==
    /\ pc = "open"
    /\ \/ /\ ~Simulate
          /\ End("cannot open") /\ UNCHANGED <<out, part>>
       \/ /\ IF Simulate THEN UNCHANGED <<out, part>> ELSE SetWritten(Begun)
          /\ pc' = "stub" /\ UNCHANGED result
    /\ UNCHANGED <<run, opt, replace, consent, faults, check, after, before>>

\* `w32c` copies the self-extractor's stub first, if it is there.
Stub ==
    /\ pc = "stub"
    /\ \/ opt.command = "w32c" /\ Discard /\ End("no stub")
       \/ pc' = "compress" /\ UNCHANGED <<out, part, result>>
    /\ UNCHANGED <<run, opt, replace, consent, faults, check, after, before>>

\* The streams are written, soundly or not.
Compress ==
    /\ pc = "compress"
    /\ faults' \in SUBSET (Faults \ {"disk"})
    /\ pc' = IF Simulate THEN "footer" ELSE "close"
    /\ UNCHANGED <<out, part, run, opt, replace, consent, check, after, result, before>>

\* decline(), and the test of the output stream after the last write.
CompressFails ==
    /\ pc = "compress"
    /\ Discard
    /\ \/ End("declined")
       \/ ~Simulate /\ End("write failure")
    /\ UNCHANGED <<run, opt, replace, consent, faults, check, after, before>>

\* An exception leaves the function, and with it the file as far as it got: main()
\* reports std::bad_alloc and std::length_error, a thread that cannot be started
\* (std::system_error) ends the process.
CompressThrows ==
    /\ pc = "compress"
    /\ End("out of memory") \/ End("aborted")
    /\ UNCHANGED <<out, part, run, opt, replace, consent, faults, check, after, before>>

\* close(): the file is whole, with the bytes that were written or with others, that
\* read back as they may; or it fails and the file goes.
Close ==
    /\ pc = "close"
    /\ \/ /\ Discard /\ End("write failure")
          /\ UNCHANGED after
       \/ /\ \E f \in {faults} \cup {g \in SUBSET Faults : "disk" \in g} :
                SetWritten([run |-> run, state |-> "whole", faults |-> f])
          /\ after' = (opt.check = "after")
          /\ pc' = IF opt.check = "off" THEN "rename" ELSE opt.check
          /\ UNCHANGED result
    /\ UNCHANGED <<run, opt, replace, consent, faults, check, before>>

-----------------------------------------------------------------------------
(* The self-check.  What the live checks conclude is LiveCheck's business; *)
(* that the CRC-64s of two runs of bytes agree means here that they are    *)
(* the same.  An exception that is not about memory counts as a reader     *)
(* that failed, so every check may refuse a sound archive.                 *)

\* The streams were followed while they were written: all decode to what was read
\* (then the container is looked at), or one does not or the last record is cut, or
\* memory ran out and some were not followed to the end.
LiveVerdict ==
    /\ pc = "live"
    /\ \/ /\ "stream" \notin faults
          /\ check' = "ok" /\ after' = FALSE /\ pc' = "structure"
       \/ check' = "failed" /\ after' \in BOOLEAN /\ pc' = "judge"
       \/ check' = "ok" /\ after' = TRUE /\ pc' = "after"
    /\ UNCHANGED <<out, part, run, opt, replace, consent, faults, result, before>>

\* Mutant: the container is opened, and the file not compared with what was written.
StructureOpens ==
    /\ pc = "structure"
    /\ check' = IF "list" \in Written.faults THEN "failed" ELSE "ok"
    /\ pc' = "judge"
    /\ UNCHANGED <<out, part, run, opt, replace, consent, faults, after, result, before>>

\* SelfCheckStructure: the file is what was written, and the reader lists the
\* entries that were read.  Where it would put their pieces is not asked.  Out of
\* memory it is skipped, once the file was compared.
Structure ==
    /\ pc = "structure"
    /\ check' \in IF "disk" \in Written.faults THEN {"failed"}
                  ELSE IF "list" \in Written.faults THEN {"failed", "skipped"}
                  ELSE {"ok", "failed", "skipped"}
    /\ pc' = "judge"
    /\ UNCHANGED <<out, part, run, opt, replace, consent, faults, after, result, before>>

\* SelfCheckWrittenArchive: the archive is decoded as `t` would, and names, sizes and
\* contents are compared with what was read -- the file with what was written is not,
\* and a misplaced piece may show or not.
After ==
    /\ pc = "after"
    /\ check' \in IF Written.faults \cap {"stream", "list"} # {} THEN {"failed", "skipped"}
                  ELSE {"ok", "failed", "skipped"}
    /\ pc' = "judge"
    /\ UNCHANGED <<out, part, run, opt, replace, consent, faults, after, result, before>>

\* Memory may also run out where nobody catches it: the comparison's buffer, and
\* the lists of what was expected.
CheckThrows ==
    /\ pc \in {"live", "structure", "after"}
    /\ End("out of memory")
    /\ UNCHANGED <<out, part, run, opt, replace, consent, faults, check, after, before>>

Judge ==
    /\ pc = "judge"
    /\ IF check = "failed"
       THEN Discard /\ End("self-check")
       ELSE pc' = "rename" /\ UNCHANGED <<out, part, result>>
    /\ UNCHANGED <<run, opt, replace, consent, faults, check, after, before>>

-----------------------------------------------------------------------------
(* The archive takes its name *)

\* Mutant: the rename is tried although the archive already has its name.
RenameAlways ==
    /\ pc = "rename"
    /\ \/ replace /\ out' = part /\ part' = Absent /\ pc' = "footer"
       \/ pc' = "fallback" /\ UNCHANGED <<out, part>>
    /\ UNCHANGED <<run, opt, replace, consent, faults, check, after, result, before>>

Rename ==
    /\ pc = "rename"
    /\ \/ replace /\ out' = part /\ part' = Absent /\ pc' = "footer"
       \/ replace /\ pc' = "fallback" /\ UNCHANGED <<out, part>>
       \/ ~replace /\ pc' = "footer" /\ UNCHANGED <<out, part>>
    /\ UNCHANGED <<run, opt, replace, consent, faults, check, after, result, before>>

\* A rename that will not replace a file: the old one goes first, if it can.
Fallback ==
    /\ pc = "fallback"
    /\ out' \in {out, Absent}
    /\ pc' = "retry"
    /\ UNCHANGED <<part, run, opt, replace, consent, faults, check, after, result, before>>

\* Mutant: the file that could not be renamed is cleaned up.
RetryCleansUp ==
    /\ pc = "retry"
    /\ \/ out' = part /\ part' = Absent /\ pc' = "footer" /\ UNCHANGED result
       \/ End("cannot write") /\ part' = Absent /\ UNCHANGED out
    /\ UNCHANGED <<run, opt, replace, consent, faults, check, after, before>>

Retry ==
    /\ pc = "retry"
    /\ \/ out' = part /\ part' = Absent /\ pc' = "footer" /\ UNCHANGED result
       \/ End("cannot write") /\ UNCHANGED <<out, part>>
    /\ UNCHANGED <<run, opt, replace, consent, faults, check, after, before>>

Footer ==
    /\ pc = "footer"
    /\ End(IF check = "skipped" THEN "note" ELSE "ok")
    /\ UNCHANGED <<out, part, run, opt, replace, consent, faults, check, after, before>>

\* The process is killed; what is on the disk stays.
Kill ==
    /\ pc # "idle"
    /\ End("killed")
    /\ UNCHANGED <<out, part, run, opt, replace, consent, faults, check, after, before>>

Next ==
    \/ Start \/ Scan \/ CheckExists \/ Ask \/ Open \/ Stub
    \/ Compress \/ CompressFails \/ CompressThrows \/ Close
    \/ LiveVerdict \/ Structure \/ After \/ CheckThrows \/ Judge
    \/ Rename \/ Fallback \/ Retry \/ Footer \/ Kill

Spec == Init /\ [][Next]_vars

-----------------------------------------------------------------------------
(* Properties *)

\* What the self-check answers for, one way or the other: every stream decodes to
\* what was read and the list is right, and a file checked while it was written is on
\* disk as it was written.
Checked(f) ==
    /\ f.faults \cap {"stream", "list"} = {}
    /\ "disk" \in f.faults => after

\* A file this run wrote to the end and its check did not find fault with: checked,
\* unless the check was off or memory ran out for it.
Accepted(f) ==
    /\ f.run = run /\ f.state = "whole"
    /\ Checked(f) \/ opt.check = "off" \/ check = "skipped"

\* `a` over an existing archive never loses it, killed or failing at any point: it
\* is still there, or its complete and checked replacement is, under its name or,
\* when the last rename fails, next to it.
NeverLost ==
    before.out # Absent =>
        out = before.out \/ Accepted(out) \/ Accepted(part)

\* An existing archive is only ever replaced with the user's consent.
ReplacedWithConsent ==
    [][before.out # Absent /\ out' # out => opt.yes \/ consent]_vars

\* What is kept without a note is this run's whole archive, and has been checked, by
\* one way or the other: all its streams decode to what was read and its entries are
\* listed right; and where the check was made along the way, the file is what was
\* written, byte for byte.  That a reader puts every piece back in its place is more
\* than the check finds out (OkReadsBack of SelfCheck), and an archive checked
\* after the fact may differ from what was written where no reader looks.
KeptIsChecked ==
    result = "ok" /\ ~Simulate /\ opt.check # "off" =>
        /\ out.run = run /\ out.state = "whole"
        /\ Checked(out)

\* A run that says it made no archive leaves the directory as it was, but for a
\* left-over of an earlier one; so does a simulation.
LeavesNoTrace ==
    result \in {"nothing", "refused", "cannot open", "no stub", "declined",
                "write failure", "self-check"} \/ Simulate =>
        out = before.out /\ part \in {before.part, Absent}

\* The comment on decline(): a prologue left on disk reads as a damaged archive, so
\* the partial file is removed.  (A run that is killed cannot do that.)
NoPartialArchive ==
    pc = "idle" /\ result # "killed" => out.state # "partial" \/ out = before.out
=============================================================================
