-------------------------------- MODULE Sums --------------------------------
(***************************************************************************)
(* Running sums, where the program adds up lengths to know where each      *)
(* part of a whole starts.                                                 *)
(***************************************************************************)
EXTENDS Integers

\* What stands before the i-th: sizes[1] + ... + sizes[i - 1].
SumBefore(sizes, i) ==
    LET at[n \in 1 .. i] == IF n = 1 THEN 0 ELSE at[n - 1] + sizes[n - 1]
    IN at[i]
=============================================================================
