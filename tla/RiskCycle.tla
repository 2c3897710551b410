------------------------------ MODULE RiskCycle ------------------------------
(***************************************************************************)
(* The assessment of identity risk over all tenants: the scheduler's cycle *)
(* under one lease, its cursor, the head that names the latest attempt of  *)
(* a tenant, and the commit of an assessment.  A visit that has collected  *)
(* sign-ins takes a turn of its own for its tenant, under the same lease.  *)
(***************************************************************************)
EXTENDS ScheduledSync

CONSTANTS
  CycleLimit,   \* candidates of one scheduled turn
  Readers,      \* workers whose visits find sign-ins
  Nobody        \* not a worker

ASSUME NobodyAssumption == Nobody \notin Workers
ASSUME CycleAssumption == CycleLimit \in Nat \ {0}

VARIABLES
  riskCursor,   \* the tenant the last scheduled turn took, 0 at the start of a round
  lease,        \* who claimed the cycle, and whether its two minutes run
  head,         \* the latest attempt of a tenant, and whether it completed
  turn,         \* what a worker does in the cycle
  overtaken     \* workers after whom another claimed the cycle (history)

riskVars == <<riskCursor, lease, head, turn, overtaken>>

TurnStage == {"off", "claim", "cycle", "scope", "attempted", "loaded", "ending"}

Off == [stage |-> "off", tenant |-> 0, n |-> 0, scoped |-> FALSE, same |-> FALSE]

NoLease == [holder |-> Nobody, live |-> FALSE]

\* An attempt that no worker works on any more is nobody's.
RiskTypeOK ==
  /\ riskCursor \in Tenants \cup {0}
  /\ lease \in [holder : Workers \cup {Nobody}, live : BOOLEAN]
  /\ head \in [Tenants -> [attempt : Workers \cup {Nobody}, completed : BOOLEAN]]
  /\ turn \in [Workers -> [stage : TurnStage, tenant : Tenants \cup {0}, n : Nat,
                           scoped : BOOLEAN, same : BOOLEAN]]
  /\ overtaken \subseteq Workers

RiskInit ==
  /\ riskCursor = 0
  /\ lease = NoLease
  /\ head = [t \in Tenants |-> [attempt |-> Nobody, completed |-> FALSE]]
  /\ turn = [w \in Workers |-> Off]
  /\ overtaken = {}

-----------------------------------------------------------------------------

Turn(w, stage) == turn[w].stage = stage
Owns(w) == lease.holder = w /\ lease.live
Candidates == {t \in Tenants : t > riskCursor}

GoTo(w, stage) == turn' = [turn EXCEPT ![w].stage = stage]

\* The worker is done with its tenant; its attempt is nobody's from here on.
Leave(w) ==
  head' = [t \in Tenants |-> [attempt |-> IF head[t].attempt = w THEN Nobody ELSE head[t].attempt,
                              completed |-> head[t].completed]]

Finish(w) == turn' = [turn EXCEPT ![w] = [stage |-> "ending", tenant |-> 0, n |-> 0,
                                                 scoped |-> FALSE, same |-> FALSE]]

\* A scheduled turn goes on to the next tenant up to its limit, a turn of one tenant ends.
Back(w) ==
  IF turn[w].scoped \/ turn[w].n >= CycleLimit THEN Finish(w)
  ELSE turn' = [turn EXCEPT ![w] = [stage |-> "cycle", tenant |-> 0, n |-> turn[w].n,
                                    scoped |-> FALSE, same |-> FALSE]]

\* A turn of one tenant already has it.
claimCycle(w) ==
  /\ Turn(w, "claim")
  /\ ~lease.live
  /\ lease' = [holder |-> w, live |-> TRUE]
  /\ overtaken' = overtaken \cup {v \in Workers \ {w} : ~Turn(v, "off") /\ ~Turn(v, "claim")}
  /\ GoTo(w, IF turn[w].scoped THEN "scope" ELSE "cycle")
  /\ UNCHANGED <<riskCursor, head>>

\* Another process holds the cycle.
FindBusy(w) ==
  /\ Turn(w, "claim")
  /\ lease.live
  /\ turn' = [turn EXCEPT ![w] = Off]
  /\ UNCHANGED <<riskCursor, lease, head, overtaken>>

\* Maintenance has a backlog, the request has no time left or its statement failed.
Defer(w) ==
  /\ Turn(w, "claim")
  /\ turn' = [turn EXCEPT ![w] = Off]
  /\ UNCHANGED <<riskCursor, lease, head, overtaken>>

\* Defect: a cycle beyond its last tenant does not start over.
nextScope_NoWrap(w) ==
  /\ Turn(w, "cycle")
  /\ Owns(w)
  /\ IF Candidates = {}
       THEN Finish(w) /\ UNCHANGED riskCursor
       ELSE /\ riskCursor' = Min(Candidates)
            /\ turn' = [turn EXCEPT ![w] = [stage |-> "scope", tenant |-> Min(Candidates),
                                            n |-> turn[w].n + 1, scoped |-> FALSE, same |-> FALSE]]
  /\ UNCHANGED <<lease, head, overtaken>>

\* The cursor moves before the work; after the last tenant it starts over.
nextScope(w) ==
  /\ Turn(w, "cycle")
  /\ Owns(w)
  /\ IF Candidates = {}
       THEN riskCursor' = 0 /\ Finish(w)
       ELSE /\ riskCursor' = Min(Candidates)
            /\ turn' = [turn EXCEPT ![w] = [stage |-> "scope", tenant |-> Min(Candidates),
                                            n |-> turn[w].n + 1, scoped |-> FALSE, same |-> FALSE]]
  /\ UNCHANGED <<lease, head, overtaken>>

\* The lease was lost or the time of the cycle is over.
StopCycle(w) ==
  /\ Turn(w, "cycle")
  /\ Finish(w)
  /\ UNCHANGED <<riskCursor, lease, head, overtaken>>

recordAttempt(w) ==
  /\ Turn(w, "scope")
  /\ Owns(w)
  /\ head' = [head EXCEPT ![turn[w].tenant] = [attempt |-> w, completed |-> FALSE]]
  /\ GoTo(w, "attempted")
  /\ UNCHANGED <<riskCursor, lease, overtaken>>

RecordFails(w) ==
  /\ Turn(w, "scope")
  /\ ~Owns(w)
  /\ Back(w)
  /\ UNCHANGED <<riskCursor, lease, head, overtaken>>

\* Authentication evidence needs a directory that was collected completely.
LoadSources(w) ==
  /\ Turn(w, "attempted")
  /\ users[turn[w].tenant] \in {"fresh", "stale"}
  /\ turn' = [turn EXCEPT ![w] = [stage |-> "loaded", tenant |-> turn[w].tenant, n |-> turn[w].n,
                                  scoped |-> turn[w].scoped, same |-> TRUE]]
  /\ UNCHANGED <<riskCursor, lease, head, overtaken>>

\* Defect: the USERS row is not compared again at the commit.
CommitAssessment_HeadOnly(w) ==
  /\ Turn(w, "loaded")
  /\ head[turn[w].tenant].attempt = w
  /\ head' = [head EXCEPT ![turn[w].tenant] = [attempt |-> Nobody, completed |-> TRUE]]
  /\ Back(w)
  /\ UNCHANGED <<riskCursor, lease, overtaken>>

\* Under locks: the attempt is the head's and the USERS row is the one loaded.
CommitAssessment(w) ==
  /\ Turn(w, "loaded")
  /\ head[turn[w].tenant].attempt = w
  /\ turn[w].same
  /\ head' = [head EXCEPT ![turn[w].tenant] = [attempt |-> Nobody, completed |-> TRUE]]
  /\ Back(w)
  /\ UNCHANGED <<riskCursor, lease, overtaken>>

\* No key, no admissible sources, a lost race or no time left.
EvaluationFails(w) ==
  /\ Turn(w, "attempted") \/ Turn(w, "loaded")
  /\ Back(w)
  /\ Leave(w)
  /\ UNCHANGED <<riskCursor, lease, overtaken>>

\* Defect: whatever lease there is is released.
EndTurn_Any(w) ==
  /\ Turn(w, "ending")
  /\ turn' = [turn EXCEPT ![w] = Off]
  /\ lease' = NoLease
  /\ overtaken' = overtaken \ {w}
  /\ UNCHANGED <<riskCursor, head>>

\* Only an own lease is released.
EndTurn(w) ==
  /\ Turn(w, "ending")
  /\ turn' = [turn EXCEPT ![w] = Off]
  /\ lease' = IF lease.holder = w THEN NoLease ELSE lease
  /\ overtaken' = overtaken \ {w}
  /\ UNCHANGED <<riskCursor, head>>

\* The worker stops, or fails to release its lease: the lease is left to its end.
CrashTurn(w) ==
  /\ turn' = [turn EXCEPT ![w] = Off]
  /\ lease' = IF lease.holder = w THEN [holder |-> Nobody, live |-> lease.live] ELSE lease
  /\ overtaken' = overtaken \ {w}
  /\ Leave(w)
  /\ UNCHANGED riskCursor

RiskLeaseEnds ==
  /\ lease.live
  /\ lease' = [lease EXCEPT !.live = FALSE]
  /\ UNCHANGED <<riskCursor, head, turn, overtaken>>

\* Every write of a USERS row changes what a commit compares.
RowWritten(t) ==
  /\ turn' = [w \in Workers |->
       [stage |-> turn[w].stage, tenant |-> turn[w].tenant, n |-> turn[w].n,
        scoped |-> turn[w].scoped, same |-> turn[w].same /\ turn[w].tenant # t]]
  /\ UNCHANGED <<riskCursor, lease, head, overtaken>>
=============================================================================
