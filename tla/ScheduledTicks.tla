--------------------------- MODULE ScheduledTicks ---------------------------
(***************************************************************************)
(* The ticks of the scheduler: the risk cycle, then the collection of the  *)
(* tenants that are due, in processes that may overlap, stall or stop at   *)
(* any step.                                                               *)
(***************************************************************************)
EXTENDS RiskCycle

CONSTANT MaxFaults   \* bound of what goes wrong around the code

ASSUME FaultsAssumption == MaxFaults \in Nat

VARIABLE faults   \* what went wrong so far (bookkeeping)

vars == <<syncVars, riskVars, faults>>

Init == SyncInit /\ RiskInit /\ faults = 0

-----------------------------------------------------------------------------

\* The worker is in no turn of the cycle; its tick and its visit wait for the end of one.
NoTurn(w) == Turn(w, "off")

StartTick(w) ==
  /\ At(w, "idle")
  /\ Move(w, "window")
  /\ turn' = [turn EXCEPT ![w] = [stage |-> "claim", tenant |-> 0, n |-> 0, scoped |-> FALSE,
                                  same |-> FALSE]]
  /\ UNCHANGED <<cursor, users, known, order, lapsed, riskCursor, lease, head, overtaken, faults>>

\* Sign-ins were collected: the visit takes a turn for its tenant.
AfterSignIns(w) ==
  /\ w \in Readers
  /\ At(w, "modules")
  /\ Move(w, "signins")
  /\ turn' = [turn EXCEPT ![w] = [stage |-> "claim", tenant |-> Tenant(w), n |-> 0, scoped |-> TRUE,
                                  same |-> FALSE]]
  /\ UNCHANGED <<cursor, users, known, order, lapsed, riskCursor, lease, head, overtaken, faults>>

\* Steps that leave the rows of the tenants alone.
Plan(w) ==
  /\ \/ (NoTurn(w) /\ ReadWindow(w))
     \/ CommitWindow(w)
     \/ LoseWindow(w)
     \/ Skip(w)
     \/ LoseConnection(w)
     \/ (NoTurn(w) /\ EndVisit(w))
  /\ UNCHANGED riskVars

Collect(w) ==
  \/ Visit(w) /\ RowWritten(Tenant(w))
  \/ SyncUsers(w) /\ RowWritten(Tenant(w))
  \/ FailUsers(w) /\ RowWritten(Tenant(w))

\* A cycle has time for one tenant at least, unless it is held up.
Assess(w) ==
  /\ \/ claimCycle(w)
     \/ FindBusy(w)
     \/ nextScope(w)
     \/ (turn[w].n > 0 \/ ~Owns(w)) /\ StopCycle(w)
     \/ recordAttempt(w)
     \/ RecordFails(w)
     \/ LoadSources(w)
     \/ CommitAssessment(w)
     \/ EvaluationFails(w)
     \/ EndTurn(w)
  /\ UNCHANGED syncVars

Work(w) ==
  /\ AfterSignIns(w) \/ Plan(w) \/ Collect(w) \/ Assess(w)
  /\ UNCHANGED faults

Manual(w) ==
  /\ \E t \in Tenants : ManualSync(w, t) /\ RowWritten(t)
  /\ UNCHANGED faults

\* A row grows old, or nobody is left to renew its lease.
Age(t) ==
  /\ BecomeDue(t) \/ (Lapse(t) /\ ~Visited(t))
  /\ UNCHANGED <<riskVars, faults>>

LeaseAges ==
  /\ lease.holder = Nobody
  /\ RiskLeaseEnds
  /\ UNCHANGED <<syncVars, faults>>

\* A process stops, a visit or a turn outlives its lease, a request runs out of
\* time, or a tenant or its connection is not what the window said.
Crash(w) == CrashVisit(w) /\ CrashTurn(w)

Stall == RiskLeaseEnds \/ \E w \in Workers : Defer(w) \/ StopCycle(w) \/ (Turn(w, "ending") /\ CrashTurn(w))

Overrun ==
  \/ \E t \in Tenants : Lapse(t)
  \/ \E w \in Workers : Refuse(w) \/ (NoTurn(w) /\ CloseAdmission(w))

Fault ==
  /\ faults < MaxFaults
  /\ faults' = faults + 1
  /\ \/ \E w \in Workers : Crash(w)
     \/ Stall /\ UNCHANGED syncVars
     \/ Overrun /\ UNCHANGED riskVars

Next ==
  \/ \E w \in Workers : StartTick(w) \/ Work(w) \/ Manual(w)
  \/ \E t \in Tenants : Age(t)
  \/ LeaseAges
  \/ Fault

Spec == Init /\ [][Next]_vars

\* A scheduler calls again and again, a process goes on unless it stops, and time passes.
Fairness ==
  /\ WF_vars(\E w \in Workers : StartTick(w))
  /\ \A w \in Workers : WF_vars(Work(w))
  /\ \A t \in Tenants : WF_vars(Age(t))
  /\ WF_vars(LeaseAges)

FairSpec == Spec /\ Fairness

-----------------------------------------------------------------------------

\* While no visit outlives its lease, two visits never collect the users of
\* one tenant at once (claimTenantUsersLease).
LeaseExcludes ==
  \A v, w \in Workers : \A t \in Tenants :
    v # w /\ InUsers(v, t) /\ InUsers(w, t) => t \in lapsed

\* An assessment completes only while nobody collects the users of its tenant,
\* unless a visit outlived its lease (assertGlobalRiskCommitScope).
AssessedOnSettledDirectory ==
  [][\A t \in Tenants :
       ~head[t].completed /\ head'[t].completed => ~Visited(t) \/ t \in lapsed]_vars

\* A worker whose cycle was claimed by another moves no cursor, replaces no
\* attempt and releases nothing (RiskGlobalWorkStore).
OvertakenTurnsAreFenced ==
  [][\A w \in overtaken : turn'[w] # turn[w] =>
       /\ UNCHANGED <<riskCursor, lease>>
       /\ \A t \in Tenants : head'[t].attempt = w => head[t].attempt = w]_vars

\* A request finds the cycle held by another process.
Missed == \E w \in Workers : ~turn[w].scoped /\ FindBusy(w)

\* The cycle attempts every tenant again and again, whatever fails in the work of
\* any of them, unless requests find it held again and again (runGlobalRiskCycle).
EveryTenantAttempted ==
  <>[][~Missed]_vars => \A t \in Tenants :
    []<>(\E w \in Workers : Turn(w, "attempted") /\ turn[w].tenant = t)

\* If a tick can serve its whole window, every tenant is visited again and again,
\* those that a crash left RUNNING too (syncDueTenants).
EveryTenantVisited == Window <= Limit => \A t \in Tenants : []<>Visited(t)

\* As the comment on dueAt says, a tenant that was attempted yields to the others
\* that are due: none of them waits for ever (selectScheduledTenantWork).
AttemptedTenantsYield == \A t \in Tenants : []<>Visited(t)
=============================================================================
