---------------------------- MODULE PimSchedules ----------------------------
(***************************************************************************)
(* Collections of the role schedules of a managed tenant (privileged       *)
(* identity management), for one of the two planes, which share nothing    *)
(* but locks: backend/src/tenants/pim-schedule-store.ts and the            *)
(* orchestration that drives it.  Nothing dispatches it yet.               *)
(*                                                                         *)
(* At most one attempt is in flight.  One that expired is abandoned by the *)
(* next collection; one whose connector, connection or scope was replaced  *)
(* keeps others out until then.                                            *)
(***************************************************************************)
EXTENDS TenantContext

CONSTANT PimRuns   \* collections of the plane

VARIABLES
  pimScope,   \* the current row of pim_schedule_scopes; 0 before the first
  attempt,    \* the rows of pim_schedule_attempts, one for each run
  pimRun      \* what each run captured and where it stands

pimVars == <<pimScope, attempt, pimRun>>

NoPimAttempt == [outcome |-> None, live |-> FALSE, current |-> FALSE]
NoPimRun == [at |-> "new", configuration |-> None, connection |-> 0, scope |-> 0]

PimInit ==
  /\ pimScope = 0
  /\ attempt = [q \in PimRuns |-> NoPimAttempt]
  /\ pimRun = [q \in PimRuns |-> NoPimRun]

InFlight == {q \in PimRuns : attempt[q].outcome = "IN_FLIGHT"}

PimEnds(q, at) == pimRun' = [pimRun EXCEPT ![q] = [NoPimRun EXCEPT !.at = at]]

-----------------------------------------------------------------------------
(* capturePimAttempt: the authority, then everything under its lock.       *)

CapturePimAuthority(q) ==
  /\ pimRun[q].at = "new"
  /\ Immutable
  /\ pimRun' = [pimRun EXCEPT ![q] = [at |-> "captured", configuration |-> authority.revision,
                                      connection |-> 0, scope |-> 0]]
  /\ UNCHANGED <<tenantVars, pimScope, attempt>>

\* parents
PimParents == Usable /\ connection.incarnation # 0

\* Expired attempts are abandoned, whether or not this one can begin.
Retired ==
  [q \in PimRuns |-> IF q \in InFlight /\ ~attempt[q].live
                     THEN [attempt[q] EXCEPT !.outcome = "ABANDONED"] ELSE attempt[q]]

BeginPimAttempt(q) ==
  /\ pimRun[q].at = "captured"
  /\ authority.revision = pimRun[q].configuration
  /\ PimParents
  /\ pimScope' = IF pimScope = 0 THEN 1 ELSE pimScope
  /\ IF \E other \in InFlight : attempt[other].live
     THEN /\ attempt' = Retired
          /\ PimEnds(q, "refused")
     ELSE /\ attempt' = [Retired EXCEPT ![q] =
               [outcome |-> "IN_FLIGHT", live |-> TRUE, current |-> FALSE]]
          /\ pimRun' = [pimRun EXCEPT ![q] =
               [at |-> "acquiring", configuration |-> @.configuration,
                connection |-> connection.incarnation, scope |-> pimScope']]
  /\ UNCHANGED tenantVars

\* The authority or its parents changed, the scope has another version, the run dies.
PimRefused(q) ==
  /\ pimRun[q].at \in {"captured", "acquiring"}
  /\ PimEnds(q, "refused")
  /\ UNCHANGED <<tenantVars, pimScope, attempt>>

\* The lifetime of an attempt ends.
LapsePimAttempt(q) ==
  /\ q \in InFlight /\ attempt[q].live
  /\ attempt' = [attempt EXCEPT ![q].live = FALSE]
  /\ UNCHANGED <<tenantVars, pimScope, pimRun>>

-----------------------------------------------------------------------------
(* The end of a collection.                                                *)

\* guarded, parents and matchesScope
SamePimContext(q) ==
  /\ authority.revision = pimRun[q].configuration
  /\ PimParents
  /\ connection.incarnation = pimRun[q].connection
  /\ pimScope = pimRun[q].scope

\* Defect: whose the attempt in flight is, and whether it expired, is not asked.
PublishPimObservations_AnyAttempt(q) ==
  /\ pimRun[q].at = "acquiring"
  /\ SamePimContext(q)
  /\ attempt' = [other \in PimRuns |->
       IF other = q THEN [outcome |-> "COMMITTED", live |-> FALSE, current |-> TRUE]
       ELSE [attempt[other] EXCEPT !.current = FALSE]]
  /\ PimEnds(q, "published")
  /\ UNCHANGED <<tenantVars, pimScope>>

\* A second submission is answered from the committed row and changes nothing.
PublishPimObservations(q) ==
  /\ pimRun[q].at = "acquiring"
  /\ SamePimContext(q)
  /\ InFlight = {q} /\ attempt[q].live
  /\ attempt' = [other \in PimRuns |->
       IF other = q THEN [outcome |-> "COMMITTED", live |-> FALSE, current |-> TRUE]
       ELSE [attempt[other] EXCEPT !.current = FALSE]]
  /\ PimEnds(q, "published")
  /\ UNCHANGED <<tenantVars, pimScope>>

\* Also after the attempt expired, as long as no other run abandoned it.
RecordPimTerminalFailure(q) ==
  /\ pimRun[q].at = "acquiring"
  /\ SamePimContext(q)
  /\ InFlight = {q}
  /\ attempt' = [attempt EXCEPT ![q].outcome = "FAILED", ![q].live = FALSE]
  /\ PimEnds(q, "failed")
  /\ UNCHANGED <<tenantVars, pimScope>>

\* The next version of the scope, for whoever holds the context of a run.
RotatePimScope(q) ==
  /\ pimRun[q].at = "acquiring"
  /\ SamePimContext(q)
  /\ pimScope' = pimScope + 1
  /\ UNCHANGED <<tenantVars, attempt, pimRun>>

\* The rows that are deleted together with the tenant.
ForgetPimSchedules ==
  /\ pimScope' = 0
  /\ attempt' = [q \in PimRuns |-> NoPimAttempt]
  /\ UNCHANGED pimRun

PimStep ==
  \E q \in PimRuns :
    \/ CapturePimAuthority(q) \/ BeginPimAttempt(q) \/ PimRefused(q) \/ LapsePimAttempt(q)
    \/ PublishPimObservations(q) \/ RecordPimTerminalFailure(q) \/ RotatePimScope(q)
=============================================================================
