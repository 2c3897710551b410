---------------------------- MODULE AlertIntake ----------------------------
(***************************************************************************)
(* The alert intake: runIntake turns the findings of the risk evaluators   *)
(* into incidents, in-app notices, withheld notices and e-mail jobs.       *)
(*                                                                         *)
(* One organisation and one alert type: decisions of different ones share  *)
(* nothing.  Ticks of any number of processes (Workers) overlap; nothing   *)
(* serialises them but the unique indexes.  A tick reads four times, each  *)
(* read with a snapshot of its own, then commits its findings in chunks,   *)
(* each chunk one READ COMMITTED transaction whose statements run one by   *)
(* one.  A row that no transaction has committed is seen only by its own.  *)
(***************************************************************************)
EXTENDS Integers, Sequences, FiniteSets

CONSTANTS
  Workers,      \* processes that run intake ticks
  Findings,     \* ids: the rows of identity_risk_findings, one per dedupe key
  Native,       \* those published by the native alert publisher
  Incidents,    \* incident keys
  IncidentOf,   \* the incident that a finding belongs to
  Chunk,        \* FINDINGS_PER_CHUNK, 200
  Cap,          \* MAX_FINDINGS_PER_TICK, 5000
  Window,       \* the read window, 24 h
  Watermark,    \* sendNothingObservedBeforeIso
  MaxTime,      \* bound: the clock starts at 1 and stops here
  MaxObserved,  \* bound: changes of findings
  MaxSettings,  \* bound: changes of settings
  MaxFaults     \* bound: ticks that yield, fail or die

Times == 0..MaxTime

ASSUME IntakeAssumption ==
  /\ Findings \subseteq Nat /\ IsFiniteSet(Findings) /\ Native \subseteq Findings
  /\ IncidentOf \in [Findings -> Incidents]
  /\ Chunk \in Nat \ {0} /\ Cap \in Nat \ {0}
  /\ {Window, Watermark, MaxTime, MaxObserved, MaxSettings, MaxFaults} \subseteq Nat
  /\ MaxTime > 0

VARIABLES
  now,        \* the clock
  finding,    \* identity_risk_findings: state and observed_at
  tier,       \* the organisation's disposition of the alert type
  reachable,  \* somebody has e-mail enabled
  rows,       \* committed rows of the four tables: <<table, key>>
  mine,       \* per worker: rows its open transaction has inserted
  pc,         \* per worker: where its tick stands
  tick,       \* per worker: the local variables of its tick
  base,       \* history, per worker: rows when its transaction began
  ever,       \* history: what the settings and findings have ever been
  changes,    \* bounded counters
  faults

world  == <<now, finding, tier, reachable, ever, changes>>
vars == <<world, rows, mine, pc, tick, base, faults>>

Tables  == {"INCIDENT", "NOTICE", "JOB", "WITHHELD"}
Tiers   == {"ACT", "RECORD_ONLY"}
Queries == {"incidents", "dispositions", "recipients", "decided"}

NoFinding == [state |-> "ABSENT", observed |-> 0]
NoTick == [list |-> <<>>, loaded |-> {}, opened |-> {}, tier |-> "ACT",
           reach |-> FALSE, decided |-> {}, done |-> 0, todo |-> {}]

Has(table, key) == <<table, key>> \in rows
Decided(f)      == Has("NOTICE", f) \/ Has("WITHHELD", f)
-----------------------------------------------------------------------------
(* Reading.                                                                *)

\* findOpenFindings: open and inside the window.
Readable == {f \in Findings :
               finding[f].state = "OPEN" /\ finding[f].observed + Window >= now}

\* ORDER BY observed_at, id.
Earlier(f, g) ==
  \/ finding[f].observed < finding[g].observed
  \/ finding[f].observed = finding[g].observed /\ f < g
\* In order, before each finding those that are earlier; cut at the cap.
Ordered(n) ==
  {s \in [1..n -> Readable] :
     \A i \in 1..n, f \in Readable : Earlier(f, s[i]) <=> \E j \in 1..(i - 1) : s[j] = f}
OpenFindings ==
  LET size == Cardinality(Readable)
      n    == IF size > Cap THEN Cap ELSE size
  IN {[i \in 1..n |-> [key |-> s[i], at |-> finding[s[i]].observed]] : s \in Ordered(n)}

Begin(w) ==
  /\ pc[w] = "idle" /\ Readable # {}
  /\ \E list \in OpenFindings : tick' = [tick EXCEPT ![w].list = list]
  /\ pc' = [pc EXCEPT ![w] = "loading"]
  /\ UNCHANGED <<world, rows, mine, base, faults>>

\* The three loads of the whole tick run side by side; the recipients are read
\* after the dispositions.
Asked(w) == {tick[w].list[i].key : i \in DOMAIN tick[w].list}
Load(w, q) ==
  /\ pc[w] = "loading" /\ q \notin tick[w].loaded
  /\ q = "recipients" => "dispositions" \in tick[w].loaded
  /\ LET t == [tick[w] EXCEPT !.loaded = @ \cup {q}]
     IN tick' = [tick EXCEPT ![w] =
          CASE q = "incidents"    -> [t EXCEPT !.opened = {i \in Incidents : Has("INCIDENT", i)}]
            [] q = "dispositions" -> [t EXCEPT !.tier = tier]
            [] q = "recipients"   -> [t EXCEPT !.reach = reachable]
            [] q = "decided"      -> [t EXCEPT !.decided = {f \in Asked(w) : Decided(f)}]]
  /\ pc' = [pc EXCEPT ![w] = IF tick'[w].loaded = Queries THEN "deciding" ELSE @]
  /\ UNCHANGED <<world, rows, mine, base, faults>>
-----------------------------------------------------------------------------
(* Deciding: decide, for the findings list[k], k \in Part(w), of one chunk. *)

Upto(w) == LET n == tick[w].done + Chunk
               l == Len(tick[w].list)
           IN IF n < l THEN n ELSE l
Part(w) == (tick[w].done + 1)..Upto(w)

Key(w, k)      == tick[w].list[k].key
Incident(w, k) == IncidentOf[Key(w, k)]
\* The finding whose incident neither the database nor the tick has opened yet.
Opens(w, k) ==
  /\ Incident(w, k) \notin tick[w].opened
  /\ \A j \in Part(w) : j < k => Incident(w, j) # Incident(w, k)
\* Defect: decided is asked of the incident, not of the finding.
Undecided_ByIncident(w, k) == Incident(w, k) \notin tick[w].opened
Undecided(w, k) == Key(w, k) \notin tick[w].decided
Quiet(w)        == tick[w].tier = "RECORD_ONLY"
\* Defect: nothing is held back because of its age.
Sends_NoWatermark(w, k) == Opens(w, k) /\ ~Quiet(w) /\ tick[w].reach
Sends(w, k) ==
  /\ Opens(w, k) /\ ~Quiet(w) /\ tick[w].reach
  /\ tick[w].list[k].at >= Watermark

Write(table, key, k) == [table |-> table, key |-> key, at |-> k]
\* Defect: a quiet disposition suppresses the incident too.
Incoming_OnlyLoud(w) ==
  {Write("INCIDENT", Incident(w, k), k) : k \in {j \in Part(w) : Opens(w, j) /\ ~Quiet(w)}}
Incoming(w) ==
  {Write("INCIDENT", Incident(w, k), k) : k \in {j \in Part(w) : Opens(w, j)}}
\* Defect: the decision is recorded under the incident.
Notices_ByIncident(w) ==
  {Write(IF Quiet(w) THEN "WITHHELD" ELSE "NOTICE", Incident(w, k), k) :
     k \in {j \in Part(w) : Undecided(w, j)}}
Notices(w) ==
  {Write(IF Quiet(w) THEN "WITHHELD" ELSE "NOTICE", Key(w, k), k) :
     k \in {j \in Part(w) : Undecided(w, j)}}
Jobs(w) == {Write("JOB", Incident(w, k), k) : k \in {j \in Part(w) : Sends(w, j)}}
Writes(w) == Incoming(w) \cup Notices(w) \cup Jobs(w)

\* The chunk is behind the tick; with the last one the tick ends.
Advance(w) ==
  IF Upto(w) = Len(tick[w].list)
  THEN /\ pc' = [pc EXCEPT ![w] = "idle"]
       /\ tick' = [tick EXCEPT ![w] = NoTick]
  ELSE /\ pc' = [pc EXCEPT ![w] = "deciding"]
       /\ tick' = [tick EXCEPT ![w].done = Upto(w), ![w].todo = {},
                               ![w].opened = @ \cup {Incident(w, k) : k \in Part(w)}]

\* A chunk without writes opens no transaction.
Decide(w) ==
  /\ pc[w] = "deciding"
  /\ IF Writes(w) = {} THEN Advance(w) /\ UNCHANGED base
     ELSE /\ pc' = [pc EXCEPT ![w] = "writing"]
          /\ tick' = [tick EXCEPT ![w].todo = Writes(w)]
          /\ base' = [base EXCEPT ![w] = rows]
  /\ UNCHANGED <<world, rows, mine, faults>>
-----------------------------------------------------------------------------
(* Writing: commit.                                                        *)

\* Table by table, and in the order of the chunk.
\* Defect: the notices are written before the incidents.
Turn_NoticesFirst(r) ==
  CASE r.table = "NOTICE" -> 1 [] r.table = "WITHHELD" -> 2
    [] r.table = "INCIDENT" -> 3 [] r.table = "JOB" -> 4
Turn(r) == CASE r.table = "INCIDENT" -> 1 [] r.table = "NOTICE"   -> 2
             [] r.table = "JOB"      -> 3 [] r.table = "WITHHELD" -> 4
Before(r, s) ==
  \/ Turn(r) < Turn(s)
  \/ Turn(r) = Turn(s) /\ r.at < s.at
\* The one write whose turn it is.
NextWrite(w) == {r \in tick[w].todo : \A s \in tick[w].todo \ {r} : Before(r, s)}
Place(r)     == <<r.table, r.key>>
Done(w, r)   == tick' = [tick EXCEPT ![w].todo = @ \ {r}]

\* The statement of a notice looks for the opposite decision, as it starts.
\* Defect: only the gate at the start of the tick looks.
Excluded_GateOnly(w, r) == FALSE
Excluded(w, r) ==
  \/ r.table = "NOTICE"   /\ <<"WITHHELD", r.key>> \in rows \cup mine[w]
  \/ r.table = "WITHHELD" /\ <<"NOTICE", r.key>> \in rows \cup mine[w]

\* ON CONFLICT DO NOTHING: a row that another open transaction has inserted is
\* waited for, a committed one is left as it is.
HeldBy(w, v) == v # w /\ \E r \in NextWrite(w) : Place(r) \in mine[v]
Free(w)      == \A v \in Workers : ~HeldBy(w, v)
Insert(w, r) ==
  /\ mine' = [mine EXCEPT ![w] = @ \cup ({Place(r)} \ rows)]
  /\ Done(w, r)

Statement(w) ==
  /\ pc[w] = "writing"
  /\ \E r \in NextWrite(w) :
       \/ Excluded(w, r) /\ Done(w, r) /\ UNCHANGED <<pc, mine>>
       \/ ~Excluded(w, r) /\ Free(w) /\ Insert(w, r) /\ UNCHANGED pc
       \/ /\ ~Excluded(w, r) /\ ~Free(w)
          /\ pc' = [pc EXCEPT ![w] = "waiting"] /\ UNCHANGED <<tick, mine>>
  /\ UNCHANGED <<world, rows, base, faults>>

\* The other transaction is over; the snapshot of the statement is still the old one.
Resume(w) ==
  /\ pc[w] = "waiting" /\ Free(w)
  /\ \E r \in NextWrite(w) : Insert(w, r)
  /\ pc' = [pc EXCEPT ![w] = "writing"]
  /\ UNCHANGED <<world, rows, base, faults>>

\* Defect: the jobs are written after the commit, and a yield leaves them out.
Commit_BeforeJobs(w) ==
  /\ pc[w] = "writing" /\ \A r \in tick[w].todo : r.table = "JOB"
  /\ rows' = rows \cup mine[w]
  /\ mine' = [mine EXCEPT ![w] = {}]
  /\ Advance(w)
  /\ UNCHANGED <<world, base, faults>>
Commit(w) ==
  /\ pc[w] = "writing" /\ tick[w].todo = {}
  /\ rows' = rows \cup mine[w]
  /\ mine' = [mine EXCEPT ![w] = {}]
  /\ Advance(w)
  /\ UNCHANGED <<world, base, faults>>

\* The tick ends with its open transaction rolled back.
\* Defect: the statements are not in one transaction.
Abandon_NoTransaction(w) ==
  /\ rows' = rows \cup mine[w]
  /\ mine' = [mine EXCEPT ![w] = {}]
  /\ pc' = [pc EXCEPT ![w] = "idle"]
  /\ tick' = [tick EXCEPT ![w] = NoTick]
  /\ UNCHANGED <<world, base>>
Abandon(w) ==
  /\ mine' = [mine EXCEPT ![w] = {}]
  /\ pc' = [pc EXCEPT ![w] = "idle"]
  /\ tick' = [tick EXCEPT ![w] = NoTick]
  /\ UNCHANGED <<world, rows, base>>

\* A yield between phases or chunks, a failed read or write, or a crash.
EndTick(w) ==
  /\ pc[w] # "idle" /\ faults < MaxFaults
  /\ faults' = faults + 1
  /\ Abandon(w)

\* PostgreSQL ends one of the transactions that wait for each other in a circle.
Deadlocked(w) ==
  \E S \in SUBSET Workers : w \in S /\ \A v \in S : \E u \in S : pc[v] = "waiting" /\ HeldBy(v, u)
BreakDeadlock(w) == Deadlocked(w) /\ Abandon(w) /\ UNCHANGED faults
-----------------------------------------------------------------------------
(* The evaluators, the settings and the clock.                             *)

Change(kind, bound) ==
  changes[kind] < bound /\ changes' = [changes EXCEPT ![kind] = @ + 1]

Observe(f, state, o) ==
  /\ Change("finding", MaxObserved)
  /\ finding' = [finding EXCEPT ![f] = [state |-> state, observed |-> o]]
  /\ ever' = IF o < Watermark THEN [ever EXCEPT !.early = @ \cup {IncidentOf[f]}]
                              ELSE [ever EXCEPT !.late = @ \cup {IncidentOf[f]}]
  /\ UNCHANGED <<now, tier, reachable, rows, mine, pc, tick, base, faults>>

\* UPSERT_STANDING: an older observation changes nothing, an equal one leaves
\* the state, a newer one opens the finding.
PublishNative(f, o) ==
  /\ f \in Native /\ o <= now
  /\ finding[f].state = "ABSENT" \/ o > finding[f].observed
  /\ Observe(f, "OPEN", o)

\* persistMatches: a first match is open, a later one of the same key updated,
\* an archive entry (expired, of unknown activity) neither.
Evaluate(f, o, current) ==
  /\ f \notin Native /\ o <= now
  /\ Observe(f, IF ~current THEN "CLOSED"
                ELSE IF finding[f].state = "ABSENT" THEN "OPEN" ELSE "UPDATED", o)

\* The publisher resolves what is absent and expires what is over.
CloseNative(f) ==
  /\ Change("finding", MaxObserved)
  /\ f \in Native /\ finding[f].state = "OPEN"
  /\ finding' = [finding EXCEPT ![f].state = "CLOSED"]
  /\ UNCHANGED <<now, tier, reachable, ever, rows, mine, pc, tick, base, faults>>

SetDisposition(d) ==
  /\ Change("setting", MaxSettings) /\ tier # d /\ tier' = d
  /\ ever' = [ever EXCEPT !.quiet = @ \/ d = "RECORD_ONLY"]
  /\ UNCHANGED <<now, finding, reachable, rows, mine, pc, tick, base, faults>>

SetRecipient(b) ==
  /\ Change("setting", MaxSettings) /\ reachable # b /\ reachable' = b
  /\ ever' = [ever EXCEPT !.unreachable = @ \/ ~b]
  /\ UNCHANGED <<now, finding, tier, rows, mine, pc, tick, base, faults>>

Clock ==
  /\ now < MaxTime /\ now' = now + 1
  /\ UNCHANGED <<finding, tier, reachable, ever, changes, rows, mine, pc, tick, base, faults>>
-----------------------------------------------------------------------------
Init ==
  /\ now = 1 /\ faults = 0 /\ changes = [finding |-> 0, setting |-> 0]
  /\ finding = [f \in Findings |-> NoFinding]
  /\ tier \in Tiers /\ reachable \in BOOLEAN
  /\ ever = [quiet |-> tier = "RECORD_ONLY", unreachable |-> ~reachable,
             early |-> {}, late |-> {}]
  /\ rows = {} /\ mine = [w \in Workers |-> {}] /\ base = [w \in Workers |-> {}]
  /\ pc = [w \in Workers |-> "idle"]
  /\ tick = [w \in Workers |-> NoTick]

Progress(w) ==
  \/ Begin(w) \/ \E q \in Queries : Load(w, q)
  \/ Decide(w) \/ Statement(w) \/ Resume(w) \/ Commit(w) \/ BreakDeadlock(w)

World ==
  \/ \E f \in Findings, o \in Times : PublishNative(f, o)
  \/ \E f \in Findings, o \in Times, current \in BOOLEAN : Evaluate(f, o, current)
  \/ \E f \in Findings : CloseNative(f)
  \/ \E d \in Tiers : SetDisposition(d)
  \/ \E b \in BOOLEAN : SetRecipient(b)
  \/ Clock

Next == World \/ \E w \in Workers : Progress(w) \/ EndTick(w)

Spec == Init /\ [][Next]_vars

\* The scheduler keeps starting ticks, and a tick that is not one of the MaxFaults
\* that yield, fail or die goes on.
FairSpec == Spec /\ \A w \in Workers : WF_vars(Progress(w))
-----------------------------------------------------------------------------
(* Properties.                                                             *)

FindingRecord == [state : {"ABSENT", "OPEN", "UPDATED", "CLOSED"}, observed : Nat]
RowRecord   == [key : Findings, at : Nat]
WriteRecord ==
  [table : {"INCIDENT", "JOB"}, key : Incidents, at : Nat]
    \cup [table : {"NOTICE", "WITHHELD"}, key : Findings, at : Nat]
AllRows == ({"INCIDENT", "JOB"} \X Incidents) \cup ({"NOTICE", "WITHHELD"} \X Findings)
TickRecord ==
  [list : Seq(RowRecord), loaded : SUBSET Queries, opened : SUBSET Incidents,
   tier : Tiers, reach : BOOLEAN, decided : SUBSET Findings, done : Nat,
   todo : SUBSET WriteRecord]

\* The shape of the rows and of a tick's local variables.
TypeOK ==
  /\ now \in Times /\ faults \in Nat /\ changes \in [finding : Nat, setting : Nat]
  /\ finding \in [Findings -> FindingRecord]
  /\ tier \in Tiers /\ reachable \in BOOLEAN
  /\ ever \in [quiet : BOOLEAN, unreachable : BOOLEAN,
               early : SUBSET Incidents, late : SUBSET Incidents]
  /\ rows \subseteq AllRows
  /\ mine \in [Workers -> SUBSET AllRows] /\ base \in [Workers -> SUBSET AllRows]
  /\ pc \in [Workers -> {"idle", "loading", "deciding", "writing", "waiting"}]
  /\ tick \in [Workers -> TickRecord]

\* Nothing is stranded between the tables, whichever tick dies where: an incident
\* is there exactly when one of its findings was decided, and a job has its incident.
Together ==
  \A i \in Incidents :
    /\ Has("INCIDENT", i) <=> \E f \in Findings : IncidentOf[f] = i /\ Decided(f)
    /\ Has("JOB", i) => Has("INCIDENT", i)

\* An incident that has no job has a reason: the alert type was quiet at some time,
\* there was a time without any recipient, or there is evidence from before the
\* watermark.  A tick that found the incident of another one makes no job.
JobUnlessExplained ==
  \A i \in Incidents :
    Has("INCIDENT", i) /\ ~Has("JOB", i) => ever.quiet \/ ever.unreachable \/ i \in ever.early

\* Nobody is e-mailed about an incident that only has evidence from before the
\* watermark.
WatermarkKept == \A i \in Incidents : Has("JOB", i) => i \in ever.late

\* An incident has a job or a reason to have none, never the wrong one of the two.
JobsExplained == JobUnlessExplained /\ WatermarkKept

\* A decision that was durable when a transaction began is never contradicted by
\* that transaction, however old the reads are that its tick decided from.  Only
\* transactions that overlap may leave a finding both told and withheld.
DecisionsDurable ==
  [][\A w \in Workers, f \in Findings :
       LET written == (rows' \ rows) \cap mine[w]
       IN /\ <<"NOTICE", f>> \in written => <<"WITHHELD", f>> \notin base[w]
          /\ <<"WITHHELD", f>> \in written => <<"NOTICE", f>> \notin base[w]]_vars

\* Two ticks whose dispositions differ leave a finding both told and withheld only
\* when another finding had opened its incident: a tick that opens the incident
\* itself holds its row until the decision is durable.
BothOnlyJoining ==
  \A f \in Findings :
    Has("NOTICE", f) /\ Has("WITHHELD", f) =>
      \E g \in Findings \ {f} : IncidentOf[g] = IncidentOf[f] /\ Decided(g)

\* What a tick may read first: fewer than Cap others come before it.
InReach(f) ==
  /\ f \in Readable
  /\ Cardinality({g \in Readable : Earlier(g, f)}) < Cap

\* An open finding that a tick yields on, loses or dies with is decided by a later
\* tick, unless its state changes or it leaves the read window or the cap first.
OpenDecided ==
  \A f \in Findings : InReach(f) ~> (Decided(f) \/ ~InReach(f))

\* IntakeReport, of the findings a tick did not get to: "Still OPEN, so the next
\* tick redoes exactly them."  Of every finding, unless it closes or leaves the
\* window.
NextTickRedoes ==
  \A f \in Findings :
    f \in Readable ~>
      (Decided(f) \/ finding[f].state = "CLOSED" \/ finding[f].observed + Window < now)
=============================================================================
