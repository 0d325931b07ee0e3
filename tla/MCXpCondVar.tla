----------------------------- MODULE MCXpCondVar -----------------------------
(* Three threads: one to wait, one to time out, one to wake. *)
EXTENDS XpCondVar

CONSTANTS t1, t2, t3

MCThreads == {t1, t2, t3}
=============================================================================
