--------------------------- MODULE MCAlertIntake ---------------------------
(***************************************************************************)
(* Instances of AlertIntake for TLC.                                       *)
(***************************************************************************)
EXTENDS AlertIntake, TLC

CONSTANTS i1, i2

Shared   == 1 :> i1 @@ 2 :> i1               \* two findings about one account
Separate == 1 :> i1 @@ 2 :> i2               \* about two accounts
Symmetric == Permutations(Workers)
=============================================================================
