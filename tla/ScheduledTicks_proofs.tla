----------------------- MODULE ScheduledTicks_proofs -----------------------
(***************************************************************************)
(* What the two leases and the check at the commit guarantee, proved for   *)
(* any tenants, workers, limits and number of faults.                      *)
(*                                                                         *)
(* Exclusion follows from LeaseInv alone: a visit that has not outlived    *)
(* its lease finds its row RUNNING, and a row that is RUNNING is not       *)
(* claimed.  Fencing follows from FenceInv, which needs to know that a     *)
(* worker starts a turn only when its last one is over (ApartInv).  The    *)
(* assessment combines LeaseInv with LoadedInv: sources that are still     *)
(* the same belong to a row that nobody has RUNNING.                       *)
(***************************************************************************)
EXTENDS ScheduledTicks, TLAPS

USE NobodyAssumption

IsVisit(r) ==
  r = [stage |-> r.stage, queue |-> r.queue, last |-> r.last, n |-> r.n, seen |-> r.seen]

IsTurn(r) ==
  r = [stage |-> r.stage, tenant |-> r.tenant, n |-> r.n, scoped |-> r.scoped, same |-> r.same]

IsHead(r) == r = [attempt |-> r.attempt, completed |-> r.completed]

VisitShape == visit = [w \in Workers |-> visit[w]] /\ \A w \in Workers : IsVisit(visit[w])

RiskShape ==
  /\ turn = [w \in Workers |-> turn[w]] /\ \A w \in Workers : IsTurn(turn[w])
  /\ head = [t \in Tenants |-> head[t]] /\ \A t \in Tenants : IsHead(head[t])
  /\ lease = [holder |-> lease.holder, live |-> lease.live]

Shape ==
  /\ users = [t \in Tenants |-> users[t]]
  /\ VisitShape
  /\ RiskShape

(* The holder of a row that has not lapsed is alone in it.                 *)
LeaseInv ==
  \A t \in Tenants : t \notin lapsed =>
    /\ Visited(t) => users[t] = "running"
    /\ \A v, w \in Workers : InUsers(v, t) /\ InUsers(w, t) => v = w

(* A worker that takes a turn has no step of a visit of its own to take.   *)
ApartInv == \A w \in Workers : ~NoTurn(w) => visit[w].stage \in {"window", "signins"}

(* Who was overtaken does not hold the lease and cannot claim it.          *)
FenceInv ==
  \A w \in overtaken :
    /\ w \in Workers
    /\ lease.holder # w
    /\ ~Turn(w, "off") /\ ~Turn(w, "claim")

(* Loaded sources that are still the same are those of a collected row.    *)
LoadedInv ==
  \A w \in Workers : \A t \in Tenants :
    Turn(w, "loaded") /\ turn[w].same = TRUE /\ turn[w].tenant = t => users[t] \in {"fresh", "stale"}

IInv == Shape /\ LeaseInv /\ ApartInv /\ FenceInv /\ LoadedInv

-----------------------------------------------------------------------------
(* The steps of the system, by what they touch.                            *)
PlanStep(w) ==
  \/ NoTurn(w) /\ (ReadWindow(w) \/ EndVisit(w) \/ CloseAdmission(w))
  \/ CommitWindow(w) \/ LoseWindow(w) \/ Skip(w) \/ LoseConnection(w) \/ Refuse(w)

AssessStep(w) ==
  \/ claimCycle(w) \/ FindBusy(w) \/ Defer(w) \/ nextScope(w) \/ StopCycle(w)
  \/ recordAttempt(w) \/ RecordFails(w) \/ LoadSources(w) \/ CommitAssessment(w)
  \/ EvaluationFails(w) \/ EndTurn(w)

CollectStep(w) == Visit(w) \/ SyncUsers(w) \/ FailUsers(w)

AgeStep == \E t \in Tenants : BecomeDue(t) \/ Lapse(t)

Steps ==
  \/ UNCHANGED <<syncVars, riskVars>>
  \/ \E w \in Workers : StartTick(w) \/ AfterSignIns(w)
  \/ \E w \in Workers : PlanStep(w) /\ UNCHANGED riskVars
  \/ \E w \in Workers : CollectStep(w) /\ RowWritten(Tenant(w))
  \/ \E w \in Workers, t \in Tenants : ManualSync(w, t) /\ RowWritten(t)
  \/ \E w \in Workers : AssessStep(w) /\ UNCHANGED syncVars
  \/ AgeStep /\ UNCHANGED riskVars
  \/ RiskLeaseEnds /\ UNCHANGED syncVars
  \/ \E w \in Workers : CrashVisit(w) /\ CrashTurn(w)
  \/ \E w \in Workers : CrashTurn(w) /\ UNCHANGED syncVars

(* Every step of the specification (Next) is one of them.                  *)
LEMMA NextIsSteps == ASSUME [Next]_vars PROVE Steps
<1>1. CASE UNCHANGED vars
  BY <1>1 DEF vars, Steps
<1>2. CASE \E w \in Workers : StartTick(w)
  BY <1>2 DEF Steps
<1>3. CASE \E w \in Workers : Work(w)
  <2>1. PICK w \in Workers : AfterSignIns(w) \/ Plan(w) \/ Collect(w) \/ Assess(w)
    BY <1>3 DEF Work
  <2>2. CASE AfterSignIns(w)
    BY <2>2 DEF Steps
  <2>3. CASE Plan(w)
    BY <2>3 DEF Plan, PlanStep, Steps
  <2>4. CASE Collect(w)
    BY <2>4 DEF Collect, CollectStep, Steps
  <2>5. CASE Assess(w)
    BY <2>5 DEF Assess, AssessStep, Steps
  <2> QED BY <2>1, <2>2, <2>3, <2>4, <2>5
<1>4. CASE \E w \in Workers : Manual(w)
  BY <1>4 DEF Manual, Steps
<1>5. CASE \E t \in Tenants : Age(t)
  BY <1>5 DEF Age, AgeStep, Steps
<1>6. CASE LeaseAges
  BY <1>6 DEF LeaseAges, Steps
<1>7. CASE Fault
  <2>1. CASE \E w \in Workers : Crash(w)
    BY <2>1 DEF Crash, Steps
  <2>2. CASE Stall /\ UNCHANGED syncVars
    BY <2>2 DEF Stall, AssessStep, Steps
  <2>3. CASE Overrun /\ UNCHANGED riskVars
    BY <2>3 DEF Overrun, PlanStep, AgeStep, Steps
  <2> QED BY <1>7, <2>1, <2>2, <2>3 DEF Fault
<1> QED BY <1>1, <1>2, <1>3, <1>4, <1>5, <1>6, <1>7 DEF Next

-----------------------------------------------------------------------------
(* The steps that write no row of a tenant, as far as the invariant sees.  *)
Quiet ==
  /\ UNCHANGED <<users, lapsed>>
  /\ VisitShape'
  /\ \A v \in Workers : visit'[v].stage = "users" =>
       visit[v].stage = "users" /\ visit'[v].queue = visit[v].queue

(* A tick goes on to a visit or stops (GoOn).                              *)
LEMMA GoOnShape ==
  ASSUME NEW q, NEW n
  PROVE  IsVisit(GoOn(q, n)) /\ GoOn(q, n).stage \in {"idle", "visiting"}
BY DEF GoOn, Idle, IsVisit

(* A tick that moved the cursor tells the others that it did.              *)
LEMMA CommitQuiet ==
  ASSUME NEW w \in Workers, CommitWindow(w)
  PROVE  Quiet /\ \A v \in Workers \ {w} : visit'[v].stage = visit[v].stage
<1>1. visit' = [v \in Workers |-> IF v = w THEN GoOn(visit[w].queue, 0) ELSE Overtake(v)]
  BY DEF CommitWindow
<1>2. visit'[w] = GoOn(visit[w].queue, 0)
  BY <1>1
<1>3. \A v \in Workers \ {w} : visit'[v] = Overtake(v)
  BY <1>1
<1>4. visit' = [v \in Workers |-> visit'[v]]
  BY <1>1
<1>5. IsVisit(visit'[w]) /\ visit'[w].stage # "users"
  BY <1>2, GoOnShape
<1>6. ASSUME NEW v \in Workers \ {w}
      PROVE  /\ IsVisit(visit'[v])
             /\ visit'[v].stage = visit[v].stage /\ visit'[v].queue = visit[v].queue
  <2>1. visit'[v] = Overtake(v)
    BY <1>3
  <2>2. IsVisit(Overtake(v))
    BY DEF Overtake, IsVisit
  <2>3. Overtake(v).stage = visit[v].stage /\ Overtake(v).queue = visit[v].queue
    BY DEF Overtake
  <2> QED BY <2>1, <2>2, <2>3
<1>7. UNCHANGED <<users, lapsed>>
  BY DEF CommitWindow
<1> QED BY <1>4, <1>5, <1>6, <1>7 DEF Quiet, VisitShape

(* Planning, skipping and ending a visit collect nothing and write no row. *)
LEMMA QuietSteps ==
  ASSUME Shape, NEW w \in Workers, PlanStep(w)
  PROVE  Quiet /\ \A v \in Workers \ {w} : visit'[v].stage = visit[v].stage
<1> USE DEF Shape, VisitShape, IsVisit, Quiet, At, Idle
<1>1. CASE ReadWindow(w)
  BY <1>1 DEF ReadWindow
<1>2. CASE CommitWindow(w)
  BY <1>2, CommitQuiet DEF CommitWindow
<1>3. CASE LoseWindow(w)
  BY <1>3 DEF LoseWindow, Stop
<1>4. CASE CloseAdmission(w)
  BY <1>4 DEF CloseAdmission, Stop
<1>5. CASE Skip(w)
  BY <1>5 DEF Skip, NextVisit, GoOn
<1>6. CASE LoseConnection(w)
  BY <1>6 DEF LoseConnection, NextVisit, GoOn
<1>7. CASE EndVisit(w)
  BY <1>7 DEF EndVisit, NextVisit, GoOn
<1>8. CASE Refuse(w)
  BY <1>8 DEF Refuse, NextVisit, GoOn
<1> QED BY <1>1, <1>2, <1>3, <1>4, <1>5, <1>6, <1>7, <1>8 DEF PlanStep

-----------------------------------------------------------------------------
(* What a step of a turn does to the turns, as far as the invariant sees.  *)
TurnMoved(w) ==
  /\ \A v \in Workers \ {w} : turn'[v] = turn[v]
  /\ turn[w].stage # "off" \/ turn' = turn
  /\ turn'[w].stage = "loaded" => users[turn'[w].tenant] \in {"fresh", "stale"}

(* The steps of a turn of the cycle (runGlobalRiskCycle) go on from a turn, *)
(* and only a load starts from a collected row.                            *)
LEMMA AssessSteps ==
  ASSUME Shape, NEW w \in Workers, AssessStep(w)
  PROVE  RiskShape' /\ TurnMoved(w)
<1> USE DEF Shape, RiskShape, IsTurn, IsHead, TurnMoved, Turn, GoTo, Finish, Back, Leave, Off, NoLease
<1>1. CASE claimCycle(w)
  BY <1>1 DEF claimCycle
<1>2. CASE FindBusy(w)
  BY <1>2 DEF FindBusy
<1>3. CASE Defer(w)
  BY <1>3 DEF Defer
<1>4. CASE nextScope(w)
  BY <1>4 DEF nextScope
<1>5. CASE StopCycle(w)
  BY <1>5 DEF StopCycle
<1>6. CASE recordAttempt(w)
  BY <1>6 DEF recordAttempt
<1>7. CASE RecordFails(w)
  BY <1>7 DEF RecordFails
<1>8. CASE LoadSources(w)
  BY <1>8 DEF LoadSources
<1>9. CASE CommitAssessment(w)
  <2>1. turn'[w].stage # "loaded" /\ turn[w].stage # "off"
    BY <1>9 DEF CommitAssessment
  <2>2. \A v \in Workers \ {w} : turn'[v] = turn[v]
    BY <1>9 DEF CommitAssessment
  <2>3. (turn = [v \in Workers |-> turn[v]])' /\ \A v \in Workers : IsTurn(turn'[v])
    BY <1>9 DEF CommitAssessment
  <2>4. (head = [t \in Tenants |-> head[t]])' /\ \A t \in Tenants : IsHead(head'[t])
    BY <1>9 DEF CommitAssessment
  <2>5. lease' = lease
    BY <1>9 DEF CommitAssessment
  <2> QED BY <2>1, <2>2, <2>3, <2>4, <2>5
<1>10. CASE EvaluationFails(w)
  BY <1>10 DEF EvaluationFails
<1>11. CASE EndTurn(w)
  BY <1>11 DEF EndTurn
<1> QED BY <1>1, <1>2, <1>3, <1>4, <1>5, <1>6, <1>7, <1>8, <1>9, <1>10, <1>11 DEF AssessStep

(* A worker that stops in a turn (CrashTurn) leaves it.                    *)
LEMMA CrashTurnSteps ==
  ASSUME Shape, NEW w \in Workers, CrashTurn(w)
  PROVE  /\ RiskShape'
         /\ \A v \in Workers \ {w} : turn'[v] = turn[v]
         /\ turn'[w].stage = "off"
<1> USE DEF Shape, RiskShape, IsTurn, IsHead, CrashTurn, Leave, Off
<1>1. (turn = [v \in Workers |-> turn[v]])' /\ \A v \in Workers : IsTurn(turn'[v])
  OBVIOUS
<1>2. (head = [t \in Tenants |-> head[t]])' /\ \A t \in Tenants : IsHead(head'[t])
  OBVIOUS
<1>3. lease' = [holder |-> lease'.holder, live |-> lease'.live]
  OBVIOUS
<1> QED BY <1>1, <1>2, <1>3

(* A write of a row (RowWritten) makes what was loaded of it outdated.     *)
LEMMA RowWrittenSteps ==
  ASSUME Shape, NEW t, RowWritten(t)
  PROVE  /\ RiskShape'
         /\ \A v \in Workers :
              /\ turn'[v].stage = turn[v].stage /\ turn'[v].tenant = turn[v].tenant
              /\ turn'[v].same = TRUE => turn[v].same = TRUE /\ turn[v].tenant # t
<1> USE DEF Shape, RiskShape, IsTurn, IsHead, RowWritten
<1>1. (turn = [v \in Workers |-> turn[v]])' /\ \A v \in Workers : IsTurn(turn'[v])
  OBVIOUS
<1>2. head' = head /\ lease' = lease
  OBVIOUS
<1>3. ASSUME NEW v \in Workers
      PROVE  /\ turn'[v].stage = turn[v].stage /\ turn'[v].tenant = turn[v].tenant
             /\ turn'[v].same = TRUE => turn[v].same = TRUE /\ turn[v].tenant # t
  <2>1. turn'[v] = [stage |-> turn[v].stage, tenant |-> turn[v].tenant, n |-> turn[v].n,
                    scoped |-> turn[v].scoped, same |-> turn[v].same /\ turn[v].tenant # t]
    OBVIOUS
  <2>2. turn'[v].same = (turn[v].same /\ turn[v].tenant # t)
    BY <2>1
  <2> QED BY <2>1, <2>2
<1>4. RiskShape'
  BY <1>1, <1>2
<1> HIDE DEF Shape, RiskShape, IsTurn, RowWritten
<1> QED BY <1>3, <1>4

-----------------------------------------------------------------------------
(* The lease of a row (claimTenantUsersLease).                             *)

(* A step that collects nothing and writes no row keeps the leases.        *)
LEMMA LeaseQuiet ==
  ASSUME LeaseInv, Quiet
  PROVE  LeaseInv'
BY DEF LeaseInv, Quiet, Visited, InUsers, At, Tenant

(* The steps that write a row keep the shape of what they write.           *)
LEMMA WriteShape ==
  ASSUME Shape,
         \/ \E w \in Workers : CollectStep(w) \/ CrashVisit(w)
         \/ \E w \in Workers, t \in Tenants : ManualSync(w, t)
         \/ AgeStep
  PROVE  users' = [t \in Tenants |-> users'[t]] /\ VisitShape'
<1> USE DEF Shape, VisitShape, IsVisit, At
<1>1. CASE \E w \in Workers : Visit(w)
  BY <1>1 DEF Visit, claimTenantUsersLease, Move
<1>2. CASE \E w \in Workers : SyncUsers(w)
  BY <1>2 DEF SyncUsers, Move
<1>3. CASE \E w \in Workers : FailUsers(w)
  <2>1. PICK w \in Workers : FailUsers(w)
    BY <1>3
  <2>2. IsVisit(GoOn(Tail(visit[w].queue), visit[w].n + 1))
    BY GoOnShape
  <2> QED BY <2>1, <2>2 DEF FailUsers, NextVisit
<1>4. CASE \E w \in Workers : CrashVisit(w)
  BY <1>4 DEF CrashVisit, Stop, Idle
<1>5. CASE \E w \in Workers, t \in Tenants : ManualSync(w, t)
  <2>1. PICK w \in Workers, t \in Tenants : ManualSync(w, t)
    BY <1>5
  <2> DEFINE r == [stage |-> "users", queue |-> <<t>>, last |-> 0, n |-> 0, seen |-> FALSE]
  <2>2. visit' = [visit EXCEPT ![w] = r]
    BY <2>1 DEF ManualSync
  <2>3. IsVisit(r)
    OBVIOUS
  <2>4. users' = [users EXCEPT ![t] = "running"]
    BY <2>1 DEF ManualSync, claimTenantUsersLease
  <2> HIDE DEF r
  <2> QED BY <2>2, <2>3, <2>4
<1>6. CASE \E t \in Tenants : BecomeDue(t)
  BY <1>6 DEF BecomeDue
<1>7. CASE \E t \in Tenants : Lapse(t)
  BY <1>7 DEF Lapse
<1> QED BY <1>1, <1>2, <1>3, <1>4, <1>5, <1>6, <1>7 DEF CollectStep, AgeStep

(* A claim takes a row that no visit within its lease has RUNNING, and the *)
(* end of a visit leaves nobody in a row it was alone in.                  *)
LEMMA LeaseWrites ==
  ASSUME Shape, LeaseInv,
         \/ \E w \in Workers : CollectStep(w) \/ CrashVisit(w)
         \/ \E w \in Workers, t \in Tenants : ManualSync(w, t)
         \/ AgeStep
  PROVE  LeaseInv'
<1> USE DEF Shape, VisitShape, IsVisit, At, LeaseInv, Visited, InUsers, Tenant
<1>1. CASE \E w \in Workers : Visit(w)
  BY <1>1 DEF Visit, claimTenantUsersLease, Free, Move
<1>2. CASE \E w \in Workers : SyncUsers(w)
  BY <1>2 DEF SyncUsers, Move, Settle
<1>3. CASE \E w \in Workers : FailUsers(w)
  BY <1>3 DEF FailUsers, NextVisit, GoOn, Idle, Settle
<1>4. CASE \E w \in Workers : CrashVisit(w)
  BY <1>4 DEF CrashVisit, Stop, Idle, Settle
<1>5. CASE \E w \in Workers, t \in Tenants : ManualSync(w, t)
  BY <1>5 DEF ManualSync, claimTenantUsersLease, Free
<1>6. CASE \E t \in Tenants : BecomeDue(t)
  BY <1>6 DEF BecomeDue
<1>7. CASE \E t \in Tenants : Lapse(t)
  BY <1>7 DEF Lapse
<1> QED BY <1>1, <1>2, <1>3, <1>4, <1>5, <1>6, <1>7 DEF CollectStep, AgeStep

-----------------------------------------------------------------------------
(* Every part of the invariant is kept by every step.                      *)

(* No step changes what the rows, the visits and the turns are made of.    *)
LEMMA ShapeStep == ASSUME Shape, Steps PROVE Shape'
<1>1. CASE UNCHANGED <<syncVars, riskVars>>
  BY <1>1 DEF Shape, VisitShape, RiskShape, syncVars, riskVars
<1>2. ASSUME NEW w \in Workers, StartTick(w) \/ AfterSignIns(w)
      PROVE  Shape'
  <2>1. UNCHANGED <<users, head, lease>>
    BY <1>2 DEF StartTick, AfterSignIns
  <2>2. VisitShape'
    BY <1>2 DEF StartTick, AfterSignIns, Move, Shape, VisitShape, IsVisit
  <2>3. (turn = [v \in Workers |-> turn[v]])' /\ \A v \in Workers : IsTurn(turn'[v])
    BY <1>2 DEF StartTick, AfterSignIns, Shape, RiskShape, IsTurn
  <2> QED BY <2>1, <2>2, <2>3 DEF Shape, RiskShape
<1>3. ASSUME NEW w \in Workers, PlanStep(w), UNCHANGED riskVars
      PROVE  Shape'
  BY <1>3, QuietSteps DEF Quiet, Shape, RiskShape, riskVars
<1>4. ASSUME NEW w \in Workers, CollectStep(w), RowWritten(Tenant(w))
      PROVE  Shape'
  BY <1>4, WriteShape, RowWrittenSteps DEF Shape
<1>5. ASSUME NEW w \in Workers, NEW t \in Tenants, ManualSync(w, t), RowWritten(t)
      PROVE  Shape'
  BY <1>5, WriteShape, RowWrittenSteps DEF Shape
<1>6. ASSUME NEW w \in Workers, AssessStep(w), UNCHANGED syncVars
      PROVE  Shape'
  BY <1>6, AssessSteps DEF Shape, VisitShape, syncVars
<1>7. CASE AgeStep /\ UNCHANGED riskVars
  BY <1>7, WriteShape DEF Shape, RiskShape, riskVars
<1>8. CASE RiskLeaseEnds /\ UNCHANGED syncVars
  BY <1>8 DEF RiskLeaseEnds, Shape, VisitShape, RiskShape, syncVars
<1>9. ASSUME NEW w \in Workers, CrashVisit(w), CrashTurn(w)
      PROVE  Shape'
  BY <1>9, WriteShape, CrashTurnSteps DEF Shape
<1>10. ASSUME NEW w \in Workers, CrashTurn(w), UNCHANGED syncVars
       PROVE  Shape'
  BY <1>10, CrashTurnSteps DEF Shape, VisitShape, syncVars
<1> QED BY <1>1, <1>2, <1>3, <1>4, <1>5, <1>6, <1>7, <1>8, <1>9, <1>10 DEF Steps

(* Who has a row within its lease stays alone in it.                       *)
LEMMA LeaseStep == ASSUME Shape, LeaseInv, Steps PROVE LeaseInv'
<1>1. CASE UNCHANGED syncVars
  BY <1>1 DEF LeaseInv, Visited, InUsers, At, Tenant, syncVars
<1>2. ASSUME NEW w \in Workers, StartTick(w) \/ AfterSignIns(w)
      PROVE  LeaseInv'
  BY <1>2 DEF StartTick, AfterSignIns, Move, Shape, VisitShape, IsVisit, LeaseInv, Visited,
              InUsers, At, Tenant
<1>3. ASSUME NEW w \in Workers, PlanStep(w)
      PROVE  LeaseInv'
  BY <1>3, QuietSteps, LeaseQuiet
<1> QED BY <1>1, <1>2, <1>3, LeaseWrites DEF Steps

(* A worker takes a turn only from the window or after its sign-ins.       *)
LEMMA ApartStep == ASSUME Shape, ApartInv, Steps PROVE ApartInv'
<1> USE DEF ApartInv, NoTurn, Turn
<1>1. CASE UNCHANGED <<syncVars, riskVars>>
  BY <1>1 DEF syncVars, riskVars
<1>2. ASSUME NEW w \in Workers, StartTick(w) \/ AfterSignIns(w)
      PROVE  ApartInv'
  BY <1>2 DEF StartTick, AfterSignIns, Move, Shape, VisitShape, IsVisit, RiskShape, IsTurn
<1>3. ASSUME NEW w \in Workers, PlanStep(w), UNCHANGED riskVars
      PROVE  ApartInv'
  <2>1. turn[w].stage = "off"
    BY <1>3 DEF PlanStep, CommitWindow, LoseWindow, Skip, LoseConnection, Refuse, At
  <2> QED BY <1>3, <2>1, QuietSteps DEF riskVars
<1>4. ASSUME NEW w \in Workers, CollectStep(w), RowWritten(Tenant(w))
      PROVE  ApartInv'
  <2>1. turn[w].stage = "off"
    BY <1>4 DEF CollectStep, Visit, SyncUsers, FailUsers, At
  <2>2. \A v \in Workers \ {w} : visit'[v].stage = visit[v].stage
    BY <1>4 DEF CollectStep, Visit, SyncUsers, FailUsers, Move, NextVisit, Shape, VisitShape
  <2> QED BY <1>4, <2>1, <2>2, RowWrittenSteps
<1>5. ASSUME NEW w \in Workers, NEW t \in Tenants, ManualSync(w, t), RowWritten(t)
      PROVE  ApartInv'
  <2>1. turn[w].stage = "off"
    BY <1>5 DEF ManualSync, At
  <2>2. \A v \in Workers \ {w} : visit'[v].stage = visit[v].stage
    BY <1>5 DEF ManualSync, Shape, VisitShape
  <2> QED BY <1>5, <2>1, <2>2, RowWrittenSteps
<1>6. ASSUME NEW w \in Workers, AssessStep(w), UNCHANGED syncVars
      PROVE  ApartInv'
  BY <1>6, AssessSteps DEF TurnMoved, syncVars
<1>7. CASE AgeStep /\ UNCHANGED riskVars
  BY <1>7 DEF AgeStep, BecomeDue, Lapse, riskVars
<1>8. CASE RiskLeaseEnds /\ UNCHANGED syncVars
  BY <1>8 DEF RiskLeaseEnds, syncVars
<1>9. ASSUME NEW w \in Workers, CrashVisit(w), CrashTurn(w)
      PROVE  ApartInv'
  <2>1. \A v \in Workers \ {w} : visit'[v].stage = visit[v].stage
    BY <1>9 DEF CrashVisit, Stop, Shape, VisitShape
  <2> QED BY <1>9, <2>1, CrashTurnSteps
<1>10. ASSUME NEW w \in Workers, CrashTurn(w), UNCHANGED syncVars
       PROVE  ApartInv'
  BY <1>10, CrashTurnSteps DEF syncVars
<1> QED BY <1>1, <1>2, <1>3, <1>4, <1>5, <1>6, <1>7, <1>8, <1>9, <1>10 DEF Steps

(* Only the end of its turn makes an overtaken worker regular again.       *)
LEMMA FenceStep == ASSUME Shape, ApartInv, FenceInv, Steps PROVE FenceInv'
<1> USE DEF FenceInv, Turn
<1>1. CASE UNCHANGED riskVars
  BY <1>1 DEF riskVars
<1>2. ASSUME NEW w \in Workers, StartTick(w) \/ AfterSignIns(w)
      PROVE  FenceInv'
  <2>1. turn[w].stage = "off"
    BY <1>2 DEF StartTick, AfterSignIns, At, ApartInv, NoTurn
  <2> QED BY <1>2, <2>1 DEF StartTick, AfterSignIns, Shape, RiskShape
<1>3. ASSUME NEW t, RowWritten(t)
      PROVE  FenceInv'
  BY <1>3, RowWrittenSteps DEF RowWritten
<1>4. ASSUME NEW w \in Workers, AssessStep(w)
      PROVE  FenceInv'
  <2> USE DEF Shape, RiskShape, GoTo, Finish, Back
  <2>1. CASE claimCycle(w)
    BY <2>1 DEF claimCycle
  <2>2. CASE FindBusy(w) \/ Defer(w)
    BY <2>2 DEF FindBusy, Defer
  <2>3. CASE nextScope(w) \/ StopCycle(w)
    BY <2>3 DEF nextScope, StopCycle
  <2>4. CASE recordAttempt(w) \/ RecordFails(w) \/ LoadSources(w)
    <3>1. CASE recordAttempt(w)
      BY <3>1 DEF recordAttempt
    <3>2. CASE RecordFails(w)
      BY <3>2 DEF RecordFails
    <3>3. CASE LoadSources(w)
      BY <3>3 DEF LoadSources
    <3> QED BY <2>4, <3>1, <3>2, <3>3
  <2>5. CASE CommitAssessment(w) \/ EvaluationFails(w)
    BY <2>5 DEF CommitAssessment, EvaluationFails
  <2>6. CASE EndTurn(w)
    BY <2>6, NobodyAssumption DEF EndTurn, NoLease
  <2> QED BY <1>4, <2>1, <2>2, <2>3, <2>4, <2>5, <2>6 DEF AssessStep
<1>5. CASE RiskLeaseEnds
  BY <1>5 DEF RiskLeaseEnds, Shape, RiskShape
<1>6. ASSUME NEW w \in Workers, CrashTurn(w)
      PROVE  FenceInv'
  BY <1>6 DEF CrashTurn, Shape, RiskShape
<1> QED BY <1>1, <1>2, <1>3, <1>4, <1>5, <1>6 DEF Steps

(* What was loaded is of a collected row until that row is written.        *)
LEMMA LoadedStep == ASSUME Shape, LoadedInv, Steps PROVE LoadedInv'
<1> USE DEF LoadedInv, Turn
<1>1. CASE UNCHANGED <<syncVars, riskVars>>
  BY <1>1 DEF syncVars, riskVars
<1>2. ASSUME NEW w \in Workers, StartTick(w) \/ AfterSignIns(w)
      PROVE  LoadedInv'
  BY <1>2 DEF StartTick, AfterSignIns, Shape, RiskShape
<1>3. ASSUME NEW w \in Workers, PlanStep(w), UNCHANGED riskVars
      PROVE  LoadedInv'
  BY <1>3, QuietSteps DEF Quiet, riskVars
<1>4. ASSUME NEW w \in Workers, CollectStep(w), RowWritten(Tenant(w))
      PROVE  LoadedInv'
  <2>1. \A t \in Tenants : t # Tenant(w) => users'[t] = users[t]
    BY <1>4 DEF CollectStep, Visit, claimTenantUsersLease, SyncUsers, FailUsers, Shape
  <2>2. ASSUME NEW v \in Workers, NEW t \in Tenants,
               turn'[v].stage = "loaded", turn'[v].same = TRUE, turn'[v].tenant = t
        PROVE  users'[t] \in {"fresh", "stale"}
    <3>1. /\ turn'[v].stage = turn[v].stage /\ turn'[v].tenant = turn[v].tenant
          /\ turn[v].same = TRUE /\ turn[v].tenant # Tenant(w)
      BY <1>4, <2>2, RowWrittenSteps
    <3>2. users[t] \in {"fresh", "stale"}
      BY <2>2, <3>1
    <3> QED BY <2>1, <2>2, <3>1, <3>2
  <2> QED BY <2>2
<1>5. ASSUME NEW w \in Workers, NEW t \in Tenants, ManualSync(w, t), RowWritten(t)
      PROVE  LoadedInv'
  <2>1. \A u \in Tenants : u # t => users'[u] = users[u]
    BY <1>5 DEF ManualSync, claimTenantUsersLease, Shape
  <2>2. ASSUME NEW v \in Workers, NEW u \in Tenants,
               turn'[v].stage = "loaded", turn'[v].same = TRUE, turn'[v].tenant = u
        PROVE  users'[u] \in {"fresh", "stale"}
    <3>1. /\ turn'[v].stage = turn[v].stage /\ turn'[v].tenant = turn[v].tenant
          /\ turn[v].same = TRUE /\ turn[v].tenant # t
      BY <1>5, <2>2, RowWrittenSteps
    <3>2. users[u] \in {"fresh", "stale"}
      BY <2>2, <3>1
    <3> QED BY <2>1, <2>2, <3>1, <3>2
  <2> QED BY <2>2
<1>6. ASSUME NEW w \in Workers, AssessStep(w), UNCHANGED syncVars
      PROVE  LoadedInv'
  BY <1>6, AssessSteps DEF TurnMoved, syncVars
<1>7. CASE AgeStep /\ UNCHANGED riskVars
  BY <1>7 DEF AgeStep, BecomeDue, Lapse, Shape, riskVars
<1>8. CASE RiskLeaseEnds /\ UNCHANGED syncVars
  BY <1>8 DEF RiskLeaseEnds, syncVars
<1>9. ASSUME NEW w \in Workers, CrashTurn(w), UNCHANGED users
      PROVE  LoadedInv'
  BY <1>9, CrashTurnSteps
<1> QED
  BY <1>1, <1>2, <1>3, <1>4, <1>5, <1>6, <1>7, <1>8, <1>9 DEF Steps, CrashVisit, syncVars

(* The invariant holds at the start.                                       *)
LEMMA InitInv == ASSUME Init PROVE IInv
<1> USE DEF Init, SyncInit, RiskInit, Idle, Off, NoLease
<1>1. Shape
  BY DEF Shape, VisitShape, IsVisit, RiskShape, IsTurn, IsHead
<1>2. LeaseInv
  BY DEF LeaseInv, Visited, InUsers, At
<1>3. ApartInv /\ FenceInv /\ LoadedInv
  BY DEF ApartInv, NoTurn, FenceInv, LoadedInv, Turn
<1> QED BY <1>1, <1>2, <1>3 DEF IInv

(* The invariant holds in every state.                                     *)
THEOREM Invariance == Spec => []IInv
<1>1. Init => IInv
  BY InitInv
<1>2. IInv /\ [Next]_vars => IInv'
  BY NextIsSteps, ShapeStep, LeaseStep, ApartStep, FenceStep, LoadedStep DEF IInv
<1> QED BY <1>1, <1>2, PTL DEF Spec

(* Two visits never collect the users of a tenant at once unless one of    *)
(* them outlived its lease (claimTenantUsersLease, syncUsersForIdentity).  *)
THEOREM LeaseExclusion == Spec => []LeaseExcludes
<1>1. IInv => LeaseExcludes
  BY DEF IInv, LeaseInv, LeaseExcludes
<1> QED BY <1>1, Invariance, PTL

-----------------------------------------------------------------------------
(* A worker whose cycle was claimed by another changes nothing of it       *)
(* (RiskGlobalWorkStore, recordAttempt and releaseCycle).                  *)
THEOREM Fencing == Spec => OvertakenTurnsAreFenced
<1> DEFINE Fenced ==
      \A w \in overtaken : turn'[w] # turn[w] =>
        /\ UNCHANGED <<riskCursor, lease>>
        /\ \A t \in Tenants : head'[t].attempt = w => head[t].attempt = w
<1>1. ASSUME IInv, Steps
      PROVE  Fenced
  <2> SUFFICES ASSUME NEW w \in overtaken, turn'[w] # turn[w]
               PROVE  /\ UNCHANGED <<riskCursor, lease>>
                      /\ \A t \in Tenants : head'[t].attempt = w => head[t].attempt = w
    OBVIOUS
  <2>1. w \in Workers /\ lease.holder # w /\ turn[w].stage \notin {"off", "claim"}
    BY <1>1 DEF IInv, FenceInv, Turn
  <2>2. CASE UNCHANGED <<riskCursor, lease, head>>
    BY <2>2
  <2>3. ASSUME NEW v \in Workers, AssessStep(v)
        PROVE  /\ UNCHANGED <<riskCursor, lease>>
               /\ \A t \in Tenants : head'[t].attempt = w => head[t].attempt = w
    <3>1. v = w
      BY <1>1, <2>1, <2>3, AssessSteps DEF IInv, TurnMoved
    <3>2. CASE CommitAssessment(v)
      BY <3>1, <3>2, <2>1, NobodyAssumption, <1>1
      DEF CommitAssessment, IInv, Shape, RiskShape
    <3>3. CASE EvaluationFails(v)
      BY <3>1, <3>3, <2>1, NobodyAssumption DEF EvaluationFails, Leave
    <3>4. CASE EndTurn(v)
      BY <3>1, <3>4, <2>1 DEF EndTurn
    <3>5. CASE StopCycle(v) \/ RecordFails(v) \/ LoadSources(v)
      BY <3>5 DEF StopCycle, RecordFails, LoadSources
    <3> QED
      BY <2>1, <2>3, <3>1, <3>2, <3>3, <3>4, <3>5
      DEF AssessStep, claimCycle, FindBusy, Defer, nextScope, recordAttempt, Owns, Turn
  <2>4. ASSUME NEW v \in Workers, CrashTurn(v)
        PROVE  /\ UNCHANGED <<riskCursor, lease>>
               /\ \A t \in Tenants : head'[t].attempt = w => head[t].attempt = w
    <3>1. v = w
      BY <1>1, <2>1, <2>4, CrashTurnSteps DEF IInv
    <3> QED BY <3>1, <2>1, <2>4, NobodyAssumption DEF CrashTurn, Leave
  <2>5. CASE RiskLeaseEnds
    BY <2>5 DEF RiskLeaseEnds
  <2> QED
    BY <1>1, <2>2, <2>3, <2>4, <2>5
    DEF Steps, StartTick, AfterSignIns, RowWritten, riskVars
<1>2. IInv /\ [Next]_vars => [Fenced]_vars
  BY <1>1, NextIsSteps
<1> QED BY <1>2, Invariance, PTL DEF Spec, OvertakenTurnsAreFenced

(* An assessment completes on the row it has loaded, which no visit within *)
(* its lease has RUNNING (assertGlobalRiskCommitScope).                    *)
THEOREM Assessment == Spec => AssessedOnSettledDirectory
<1> DEFINE Settled ==
      \A t \in Tenants :
        ~head[t].completed /\ head'[t].completed => ~Visited(t) \/ t \in lapsed
<1>1. ASSUME IInv, Steps
      PROVE  Settled
  <2> SUFFICES ASSUME NEW t \in Tenants, ~head[t].completed, head'[t].completed
               PROVE  ~Visited(t) \/ t \in lapsed
    OBVIOUS
  <2>1. head'[t].completed # head[t].completed
    OBVIOUS
  <2>2. \A w \in Workers : CommitAssessment(w) => turn[w].tenant = t
    BY <1>1, <2>1 DEF CommitAssessment, IInv, Shape, RiskShape
  <2>3. \A w \in Workers : CommitAssessment(w) => users[t] \in {"fresh", "stale"}
    BY <1>1, <2>2 DEF CommitAssessment, IInv, LoadedInv, Turn
  <2>4. \E w \in Workers : CommitAssessment(w)
    <3>1. head' # head
      BY <2>1
    <3>2. ~ \E w \in Workers : recordAttempt(w)
      <4>1. ASSUME NEW w \in Workers, recordAttempt(w)
            PROVE  head'[t] = head[t] \/ head'[t].completed = FALSE
        BY <1>1, <4>1 DEF recordAttempt, IInv, Shape, RiskShape
      <4> QED BY <2>1, <4>1
    <3>3. ~ \E w \in Workers : EvaluationFails(w) \/ CrashTurn(w)
      BY <2>1 DEF EvaluationFails, CrashTurn, Leave
    <3> QED
      BY <1>1, <3>1, <3>2, <3>3
      DEF Steps, riskVars, StartTick, AfterSignIns, RowWritten, RiskLeaseEnds, AssessStep, claimCycle,
          FindBusy, Defer, nextScope, StopCycle, RecordFails, LoadSources, EndTurn
  <2> QED BY <1>1, <2>3, <2>4 DEF IInv, LeaseInv
<1>2. IInv /\ [Next]_vars => [Settled]_vars
  BY <1>1, NextIsSteps
<1> QED BY <1>2, Invariance, PTL DEF Spec, AssessedOnSettledDirectory
=============================================================================
