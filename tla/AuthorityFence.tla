--------------------------- MODULE AuthorityFence ---------------------------
(***************************************************************************)
(* What every request that talks to Microsoft between two transactions is  *)
(* promised.  It takes a context, which from then on is good or not.  Any  *)
(* change of the rows may end good contexts; no change makes a context     *)
(* good again; and a request changes something on the strength of its      *)
(* context only while that is good, and only once.                         *)
(***************************************************************************)
CONSTANT Clients

VARIABLES
  taken,   \* requests that have taken their context
  good,    \* those whose context still describes the rows
  used     \* those that have acted on it

Init == taken = {} /\ good = {} /\ used = {}

\* Taking a context may itself be a change that ends those of others.
Take(c) ==
  /\ c \notin taken
  /\ taken' = taken \cup {c}
  /\ good' \in SUBSET (good \cup {c})
  /\ UNCHANGED used

Act(c) ==
  /\ c \in good
  /\ c \notin used
  /\ used' = used \cup {c}
  /\ good' \in SUBSET (good \ {c})
  /\ UNCHANGED taken

Change ==
  /\ good' \in SUBSET good
  /\ UNCHANGED <<taken, used>>

Next == Change \/ \E c \in Clients : Take(c) \/ Act(c)

Spec == Init /\ [][Next]_<<taken, good, used>>
=============================================================================
