----------------------------- MODULE EmailLedger -----------------------------
(***************************************************************************)
(* What the delivery path promises about one message, whatever processes,  *)
(* leases and crashes lie underneath: a request leaves only under a        *)
(* reservation of its own, reservations are bounded, requests for the same *)
(* message never overlap, and nothing is reserved once the message is over.*)
(***************************************************************************)
EXTENDS Integers

CONSTANTS Messages, MaxAttempts

VARIABLES
  reserved,   \* per message: reservations made
  handed,     \* <<message, reservation>> handed to the network so far
  flight,     \* <<message, reservation>> of the calls in progress
  over        \* messages that reached an end

vars == <<reserved, handed, flight, over>>

Init ==
  /\ reserved = [m \in Messages |-> 0]
  /\ handed = {} /\ flight = {} /\ over = {}

InFlight(m) == \E f \in flight : f[1] = m

\* One more reservation for a message that is neither over nor on its way.
Reserve(m) ==
  /\ m \notin over /\ ~InFlight(m)
  /\ reserved[m] < MaxAttempts
  /\ reserved' = [reserved EXCEPT ![m] = @ + 1]
  /\ UNCHANGED <<handed, flight, over>>

\* The latest reservation, not used before, becomes a request.  A message that
\* was stopped after its last check may still leave: the promise is not atomic.
HandOff(m) ==
  LET f == <<m, reserved[m]>>
  IN /\ ~InFlight(m) /\ f \notin handed /\ reserved[m] > 0
     /\ handed' = handed \cup {f} /\ flight' = {f} \cup flight
     /\ UNCHANGED <<reserved, over>>

\* A call returns, times out, or dies with its process.
Return(f) ==
  /\ f \in flight
  /\ flight' = flight \ {f}
  /\ UNCHANGED <<reserved, handed, over>>

\* Messages come to an end.
Conclude(S) ==
  /\ S # {} /\ over' = over \cup S
  /\ UNCHANGED <<reserved, handed, flight>>

Next ==
  \/ \E m \in Messages : Reserve(m) \/ HandOff(m)
  \/ \E f \in flight : Return(f)
  \/ \E S \in SUBSET Messages : Conclude(S)

Spec == Init /\ [][Next]_vars
=============================================================================
