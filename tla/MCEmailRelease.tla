--------------------------- MODULE MCEmailRelease ---------------------------
(***************************************************************************)
(* Instances of EmailRelease for TLC.  The durations keep the order of the *)
(* code's, 5 < 6 < 7 < 8 < 15 < 25 < 30 seconds, at the smallest scale at  *)
(* which each margin can be met and missed.                                *)
(***************************************************************************)
EXTENDS EmailRelease, TLC

CONSTANTS a1, a2, a3, r1

Regular(a, from)        == [mode |-> "regular", act |-> a, rcpt |-> r1, starts |-> from, ends |-> 0]
Controlled(a, from, to) == [mode |-> "controlled", act |-> a, rcpt |-> r1, starts |-> from, ends |-> to]
Off(a)                  == [mode |-> "disabled", act |-> a, rcpt |-> r1, starts |-> 1, ends |-> 0]

OneEpoch     == {Regular(a1, 1)}
Switching    == {Regular(a1, 1), Off(a1), Regular(a2, 2), Controlled(a3, 3, 5)}

Symmetric == Permutations(Workers) \cup Permutations(Messages) \cup Permutations(Bodies)
=============================================================================
