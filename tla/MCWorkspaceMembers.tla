------------------------- MODULE MCWorkspaceMembers -------------------------
(***************************************************************************)
(* Instances of WorkspaceMembers for TLC.  Requests are alike, and so are  *)
(* the people other than the founder.                                      *)
(***************************************************************************)
EXTENDS WorkspaceMembers, TLC

Symmetric == Permutations(Requests) \cup Permutations(People \ {Founder})

=============================================================================
