---------------------------- MODULE ScheduledSync ----------------------------
(***************************************************************************)
(* The scheduled collection of tenants: the rotating window of candidates, *)
(* the order in which one tick works through it, and the lease that the    *)
(* USERS row of a tenant is for the visit that set it RUNNING.             *)
(*                                                                         *)
(* A worker is a process: its memory lane lets one collection or one turn  *)
(* of the risk cycle run at a time.  Clocks are events: a row becomes due, *)
(* or a lease lapses, some time after the write that set it.               *)
(***************************************************************************)
EXTENDS Naturals, Sequences, FiniteSets, SequencesExt

CONSTANTS
  Tenants,   \* the ids of the connected tenants, in their order: 1 .. N
  Workers,   \* the processes that serve scheduler and manual requests
  Requesters, \* those of them that serve manual requests
  New,       \* tenants of which nothing is collected at the start
  Limit,     \* tenants collected in one tick
  Window,    \* candidates read in one tick
  Attempts   \* attempts to move the cursor in one tick

ASSUME TenantsAssumption == Tenants \subseteq Nat \ {0} /\ IsFiniteSet(Tenants)
ASSUME LimitsAssumption ==
  /\ {Limit, Window, Attempts} \subseteq Nat \ {0}
  /\ Limit <= Window

VARIABLES
  cursor,   \* the tenant after which the next window begins, 0 for none
  users,    \* the USERS row of a tenant and the age that matters of it
  known,    \* whether the daily resources of a tenant have rows
  order,    \* the tenants by the clock of their USERS row, the oldest first
  visit,    \* what a worker does in the collection
  lapsed    \* tenants of which a visit outlived its lease (history)

syncVars == <<cursor, users, known, order, visit, lapsed>>

\* "running" and "lapsed" are RUNNING within and beyond fifteen minutes, "fresh"
\* and "stale" are SUCCEEDED within and beyond five.
UsersState == {"none", "running", "lapsed", "fresh", "stale", "failed"}

Stage == {"idle", "window", "paged", "visiting", "users", "modules", "signins"}

Idle == [stage |-> "idle", queue |-> <<>>, last |-> 0, n |-> 0, seen |-> FALSE]

SyncTypeOK ==
  /\ cursor \in Tenants \cup {0}
  /\ users \in [Tenants -> UsersState]
  /\ known \in [Tenants -> BOOLEAN]
  /\ order \in Seq(Tenants)
  /\ visit \in [Workers -> [stage : Stage, queue : Seq(Tenants), last : Tenants \cup {0},
                            n : Nat, seen : BOOLEAN]]
  /\ lapsed \subseteq Tenants

SyncInit ==
  /\ cursor = 0
  /\ users = [t \in Tenants |-> IF t \in New THEN "none" ELSE "stale"]
  /\ known = [t \in Tenants |-> t \notin New]
  /\ order = SetToSortSeq(Tenants, <)
  /\ visit = [w \in Workers |-> Idle]
  /\ lapsed = {}

-----------------------------------------------------------------------------
(* The order of the work.                                                  *)

\* The predicate of the candidate query.
Candidate(t) ==
  \/ users[t] \in {"none", "lapsed", "failed", "stale"}
  \/ users[t] = "fresh" /\ ~known[t]

\* The k least of a set of tenants.
First(S, k) == {t \in S : Cardinality({u \in S : u < t}) < k}

\* The most recently written clock comes last.
Moved(t) == Append(SelectSeq(order, LAMBDA u : u # t), t)

\* A resource that was never collected counts as due since the epoch.
DueBefore(t, u) ==
  IF known[t] /\ known[u]
    THEN \E i, j \in DOMAIN order : i < j /\ order[i] = t /\ order[j] = u
    ELSE IF known[t] = known[u] THEN t < u ELSE ~known[t]

ByDueAt(S) == SetToSortSeq(S, DueBefore)

Above == First({t \in Tenants : Candidate(t) /\ t > cursor}, Window)
\* The wrapped page is read only when the first is not full.
Wrapped == First({t \in Tenants : Candidate(t) /\ t <= cursor}, Window - Cardinality(Above))

\* The last candidate of the window, or the old cursor if there is none.
NextCursor ==
  IF Wrapped # {} THEN Max(Wrapped) ELSE IF Above # {} THEN Max(Above) ELSE cursor

-----------------------------------------------------------------------------
(* One tick of the scheduler.                                              *)

At(w, stage) == visit[w].stage = stage
Tenant(w) == Head(visit[w].queue)

Move(w, stage) == visit' = [visit EXCEPT ![w].stage = stage]
Stop(w) == visit' = [visit EXCEPT ![w] = Idle]

\* The tick goes on to its next visit while it has work and its batch is not full.
GoOn(queue, n) ==
  IF queue = <<>> \/ n >= Limit THEN Idle
  ELSE [stage |-> "visiting", queue |-> queue, last |-> 0, n |-> n, seen |-> FALSE]

\* The visit of a tenant is over; it counts unless it was skipped.
NextVisit(w, counted) ==
  visit' = [visit EXCEPT ![w] = GoOn(Tail(visit[w].queue), visit[w].n + counted)]

ReadWindow(w) ==
  /\ At(w, "window")
  /\ visit' = [visit EXCEPT ![w] = [stage |-> "paged", queue |-> ByDueAt(Above) \o ByDueAt(Wrapped),
                                    last |-> NextCursor, n |-> visit[w].n, seen |-> TRUE]]
  /\ UNCHANGED <<cursor, users, known, order, lapsed>>

\* What the worker read of the cursor is no longer so.
Overtake(v) == [stage |-> visit[v].stage, queue |-> visit[v].queue, last |-> visit[v].last,
                n |-> visit[v].n, seen |-> FALSE]

\* The revision is the one that was read: nobody moved the cursor meanwhile.
CommitWindow(w) ==
  /\ At(w, "paged")
  /\ visit[w].seen
  /\ cursor' = visit[w].last
  /\ visit' = [v \in Workers |->
       IF v = w THEN GoOn(visit[w].queue, 0) ELSE Overtake(v)]
  /\ UNCHANGED <<users, known, order, lapsed>>

\* After the last attempt the tick fails with a contention error.
LoseWindow(w) ==
  /\ At(w, "paged")
  /\ ~visit[w].seen
  /\ IF visit[w].n + 1 < Attempts
       THEN visit' = [visit EXCEPT ![w] = [stage |-> "window", queue |-> <<>>, last |-> 0,
                                           n |-> visit[w].n + 1, seen |-> FALSE]]
       ELSE Stop(w)
  /\ UNCHANGED <<cursor, users, known, order, lapsed>>

\* The admission deadline of the request passed before its work was done.
CloseAdmission(w) ==
  /\ At(w, "window") \/ At(w, "visiting")
  /\ Stop(w)
  /\ UNCHANGED <<cursor, users, known, order, lapsed>>

-----------------------------------------------------------------------------
(* One visit of a tenant.                                                  *)

\* Defect: a row that is RUNNING is claimed again.
Free_Any(t) == TRUE

\* Defect: a row left RUNNING by a crash is never claimed again.
Free_NoExpiry(t) == users[t] \notin {"running", "lapsed"}

Free(t) == users[t] # "running"

claimTenantUsersLease(w, t) ==
  /\ Free(t)
  /\ users' = [users EXCEPT ![t] = "running"]
  /\ order' = Moved(t)
  /\ UNCHANGED <<cursor, known, lapsed>>

Visit(w) ==
  /\ At(w, "visiting")
  /\ claimTenantUsersLease(w, Tenant(w))
  /\ Move(w, "users")

\* A tenant that another visit holds is no work of this tick.
Skip(w) ==
  /\ At(w, "visiting")
  /\ ~Free(Tenant(w))
  /\ NextVisit(w, 0)
  /\ UNCHANGED <<cursor, users, known, order, lapsed>>

\* The tenant or its connection changed since the window was read.
Refuse(w) ==
  /\ At(w, "visiting")
  /\ NextVisit(w, 1)
  /\ UNCHANGED <<cursor, users, known, order, lapsed>>

\* A user asks for a synchronisation; of a tenant that is held it is refused.
ManualSync(w, t) ==
  /\ w \in Requesters
  /\ At(w, "idle")
  /\ claimTenantUsersLease(w, t)
  /\ visit' = [visit EXCEPT ![w] = [stage |-> "users", queue |-> <<t>>, last |-> 0, n |-> 0,
                                    seen |-> FALSE]]

InUsers(w, t) == At(w, "users") /\ Tenant(w) = t

\* Tenants whose outlived visits are all over are regular again.
Settle(w) == lapsed' = {t \in lapsed : \E v \in Workers \ {w} : InUsers(v, t)}

\* The row is written by the tenant alone, whoever holds its lease by now.
SyncUsers(w) ==
  /\ At(w, "users")
  /\ users' = [users EXCEPT ![Tenant(w)] = "fresh"]
  /\ order' = Moved(Tenant(w))
  /\ Move(w, "modules")
  /\ Settle(w)
  /\ UNCHANGED <<cursor, known>>

FailUsers(w) ==
  /\ At(w, "users")
  /\ users' = [users EXCEPT ![Tenant(w)] = "failed"]
  /\ NextVisit(w, 1)
  /\ Settle(w)
  /\ UNCHANGED <<cursor, known, order>>

\* The captured connection was replaced, or no token was given: the modules do not run.
LoseConnection(w) ==
  /\ At(w, "modules")
  /\ NextVisit(w, 1)
  /\ UNCHANGED <<cursor, users, known, order, lapsed>>

\* Every module of a first inventory leaves a row, be it a failed one.
EndVisit(w) ==
  /\ At(w, "modules") \/ At(w, "signins")
  /\ known' = [known EXCEPT ![Tenant(w)] = TRUE]
  /\ NextVisit(w, 1)
  /\ UNCHANGED <<cursor, users, order, lapsed>>

CrashVisit(w) ==
  /\ ~At(w, "idle")
  /\ Stop(w)
  /\ Settle(w)
  /\ UNCHANGED <<cursor, users, known, order>>

-----------------------------------------------------------------------------
(* Time.                                                                   *)

BecomeDue(t) ==
  /\ users[t] = "fresh"
  /\ users' = [users EXCEPT ![t] = "stale"]
  /\ UNCHANGED <<cursor, known, order, visit, lapsed>>

Visited(t) == \E w \in Workers : InUsers(w, t)

Lapse(t) ==
  /\ users[t] = "running"
  /\ users' = [users EXCEPT ![t] = "lapsed"]
  /\ lapsed' = IF Visited(t) THEN lapsed \cup {t} ELSE lapsed
  /\ UNCHANGED <<cursor, known, order, visit>>
=============================================================================
