------------------------- MODULE AlertIntake_proofs -------------------------
(***************************************************************************)
(* What overlapping ticks leave behind, proved for any workers, findings,  *)
(* incidents, chunks and caps.                                             *)
(*                                                                         *)
(* Most of it concerns one worker: what its open transaction has added and *)
(* is to add belongs together (ChunkInv), and what it adds contradicts     *)
(* nothing that it could see (FitInv).  The rows of others only grow, and  *)
(* preserve both.  Between the workers there is only this: a row is in one *)
(* open transaction at most, and not yet committed (ApartInv).             *)
(***************************************************************************)
EXTENDS AlertIntake, FiniteSetTheorems, WellFoundedInduction, TLAPS

Told == {"NOTICE", "WITHHELD"}

Opposite(t) == IF t = "NOTICE" THEN "WITHHELD" ELSE "NOTICE"

(* A transaction is open.                                                  *)
Active(w) == pc[w] \in {"writing", "waiting"}

Planned(w) == {Place(r) : r \in tick[w].todo}

(* What will be there when the transaction of w commits.                   *)
Ahead(w) == rows \cup mine[w] \cup Planned(w)

(* What the transaction of w has added or is to add.                       *)
Added(w) == mine[w] \cup Planned(w)

DecidedIn(f, S) == \E t \in Told : <<t, f>> \in S

(* Another finding has opened the incident of f.                           *)
Joined(f) == \E g \in Findings \ {f} : IncidentOf[g] = IncidentOf[f] /\ Decided(g)

(* Nothing of w contradicts the decision t about f, and either w holds the *)
(* row of the incident or another finding had opened it.                   *)
Fit(w, t, f) ==
  /\ <<Opposite(t), f>> \notin base[w] \cup mine[w]
  /\ <<"INCIDENT", IncidentOf[f]>> \in mine[w] \/ Joined(f)

(* Observations are on record on their side of the watermark.              *)
Recorded(f, o) == IncidentOf[f] \in (IF o < Watermark THEN ever.early ELSE ever.late)

FindingInv == \A f \in Findings : finding[f].state # "ABSENT" => Recorded(f, finding[f].observed)

(* The settings of now are among those there have been.                    *)
SettingsInv == (tier = "RECORD_ONLY" => ever.quiet) /\ (~reachable => ever.unreachable)

(* What a tick remembers was committed, or was so at some time.            *)
ReadInv(w) ==
  /\ \A i \in tick[w].opened : Has("INCIDENT", i)
  /\ \A f \in tick[w].decided : Decided(f)
  /\ \A k \in DOMAIN tick[w].list : Recorded(tick[w].list[k].key, tick[w].list[k].at)
  /\ tick[w].tier = "RECORD_ONLY" => ever.quiet
  /\ "recipients" \in tick[w].loaded /\ ~tick[w].reach => ever.unreachable
  /\ pc[w] \notin {"idle", "loading"} => "recipients" \in tick[w].loaded

RestInv(w) == ~Active(w) => mine[w] = {} /\ tick[w].todo = {}

(* The incidents of the chunk will be there, each with a decided finding   *)
(* and with its job or a reason to have none.                              *)
ChunkInv(w) ==
  Active(w) =>
    /\ \A k \in Part(w) : <<"INCIDENT", Incident(w, k)>> \in Ahead(w)
    /\ \A i \in Incidents : <<"INCIDENT", i>> \in Added(w) =>
         /\ \E f \in Findings : IncidentOf[f] = i /\ DecidedIn(f, Ahead(w))
         /\ <<"JOB", i>> \in Ahead(w) \/ ever.quiet \/ ever.unreachable \/ i \in ever.early
    /\ \A f \in Findings : DecidedIn(f, Added(w)) => <<"INCIDENT", IncidentOf[f]>> \in Ahead(w)
    /\ \A i \in Incidents : <<"JOB", i>> \in Added(w) => <<"INCIDENT", i>> \in Ahead(w) /\ i \in ever.late

(* Decisions made and decisions waited for fit.                            *)
FitInv(w) ==
  /\ Active(w) => base[w] \subseteq rows
  /\ \A t \in Told, f \in Findings : <<t, f>> \in mine[w] => Fit(w, t, f)
  /\ pc[w] = "waiting" => \A r \in NextWrite(w) : r.table \in Told => Fit(w, r.table, r.key)

WorkerInv(w) == ReadInv(w) /\ RestInv(w) /\ ChunkInv(w) /\ FitInv(w)

(* An uncommitted row is one worker's, and nobody's committed one.         *)
ApartInv ==
  \A w \in Workers : mine[w] \cap rows = {} /\ \A v \in Workers \ {w} : mine[v] \cap mine[w] = {}

RowsInv == Together /\ JobsExplained /\ BothOnlyJoining

IInv ==
  /\ TypeOK /\ FindingInv /\ SettingsInv /\ ApartInv /\ RowsInv
  /\ \A w \in Workers : WorkerInv(w)
-----------------------------------------------------------------------------
(* Types.                                                                  *)

LEMMA TypeInit == Init => TypeOK
<1> SUFFICES ASSUME Init PROVE TypeOK
  OBVIOUS
<1> USE IntakeAssumption DEF Init
<1>1. NoTick \in TickRecord
  BY DEF NoTick, TickRecord, Tiers
<1>2. NoFinding \in FindingRecord
  BY DEF NoFinding, FindingRecord
<1>3. now \in Times /\ faults \in Nat /\ changes \in [finding : Nat, setting : Nat]
  BY DEF Times
<1>4. finding \in [Findings -> FindingRecord] /\ tick \in [Workers -> TickRecord]
  BY <1>1, <1>2
<1>5. ever \in [quiet : BOOLEAN, unreachable : BOOLEAN, early : SUBSET Incidents, late : SUBSET Incidents]
  OBVIOUS
<1>6. /\ mine \in [Workers -> SUBSET AllRows] /\ base \in [Workers -> SUBSET AllRows]
      /\ pc \in [Workers -> {"idle", "loading", "deciding", "writing", "waiting"}]
      /\ rows \subseteq AllRows
  OBVIOUS
<1> QED
  BY <1>3, <1>4, <1>5, <1>6 DEF TypeOK

(* The list that a tick reads.                                             *)
LEMMA ListType ==
  ASSUME TypeOK, NEW list \in OpenFindings
  PROVE  /\ list \in Seq(RowRecord)
         /\ \A k \in DOMAIN list : \E f \in Readable : list[k] = [key |-> f, at |-> finding[f].observed]
<1> DEFINE size == Cardinality(Readable)
           n == IF size > Cap THEN Cap ELSE size
<1>1. n \in Nat
  <2>1. IsFiniteSet(Readable)
    BY IntakeAssumption, FS_Subset DEF Readable
  <2>2. size \in Nat
    BY <2>1, FS_CardinalityType
  <2> QED BY <2>2, IntakeAssumption
<1>2. PICK s \in Ordered(n) : list = [i \in 1..n |-> [key |-> s[i], at |-> finding[s[i]].observed]]
  BY DEF OpenFindings
<1> HIDE DEF n
<1>3. s \in [1..n -> Readable]
  BY DEF Ordered
<1>4. DOMAIN list = 1..n
  BY <1>2
<1>5. ASSUME NEW k \in 1..n
      PROVE  s[k] \in Readable /\ list[k] = [key |-> s[k], at |-> finding[s[k]].observed]
  BY <1>2, <1>3
<1>6. ASSUME NEW f \in Readable PROVE [key |-> f, at |-> finding[f].observed] \in RowRecord
  BY DEF TypeOK, Readable, RowRecord, FindingRecord
<1>7. \A k \in 1..n : list[k] \in RowRecord
  BY <1>5, <1>6
<1>8. list \in Seq(RowRecord)
  <2>1. list \in [1..n -> RowRecord]
    BY <1>2, <1>7
  <2> QED BY <2>1, <1>1
<1> QED BY <1>4, <1>5, <1>8

(* The places of a chunk.                                                  *)
LEMMA PartType ==
  ASSUME TypeOK, NEW w \in Workers
  PROVE  /\ Upto(w) \in Nat /\ tick[w].done \in Nat
         /\ Part(w) \subseteq DOMAIN tick[w].list
         /\ \A k \in Part(w) :
              /\ k \in Nat /\ Key(w, k) \in Findings /\ Incident(w, k) \in Incidents
              /\ tick[w].list[k] \in RowRecord
<1>1. tick[w].done \in Nat /\ tick[w].list \in Seq(RowRecord)
  BY DEF TypeOK, TickRecord
<1>2. Len(tick[w].list) \in Nat /\ DOMAIN tick[w].list = 1..Len(tick[w].list)
  BY <1>1
<1>3. Upto(w) \in Nat /\ Upto(w) <= Len(tick[w].list)
  BY <1>1, <1>2, IntakeAssumption DEF Upto
<1>4. Part(w) \subseteq 1..Len(tick[w].list)
  BY <1>1, <1>2, <1>3 DEF Part
<1>5. \A k \in 1..Len(tick[w].list) : tick[w].list[k] \in RowRecord
  BY <1>1, <1>2
<1>6. ASSUME NEW k \in Part(w) PROVE k \in Nat /\ Key(w, k) \in Findings /\ Incident(w, k) \in Incidents
  <2>1. k \in Nat /\ tick[w].list[k] \in RowRecord
    BY <1>2, <1>4, <1>5
  <2>2. Key(w, k) \in Findings
    BY <2>1 DEF Key, RowRecord
  <2> QED BY <2>1, <2>2, IntakeAssumption DEF Incident
<1> QED BY <1>1, <1>2, <1>3, <1>4, <1>5, <1>6

LEMMA WritesType ==
  ASSUME TypeOK, NEW w \in Workers
  PROVE  Writes(w) \in SUBSET WriteRecord
<1>1. \A k \in Part(w) : k \in Nat /\ Key(w, k) \in Findings /\ Incident(w, k) \in Incidents
  BY PartType
<1>2. Incoming(w) \subseteq WriteRecord
  BY <1>1 DEF Incoming, Write, WriteRecord
<1>3. Jobs(w) \subseteq WriteRecord
  BY <1>1 DEF Jobs, Write, WriteRecord
<1>4. Notices(w) \subseteq WriteRecord
  BY <1>1 DEF Notices, Write, WriteRecord
<1> QED BY <1>2, <1>3, <1>4 DEF Writes

LEMMA PlaceType ==
  ASSUME NEW r \in WriteRecord
  PROVE  /\ Place(r) \in AllRows
         /\ r.table \in Tables /\ r.at \in Nat
         /\ r.table \in Told => r.key \in Findings
         /\ r.table \notin Told => r.key \in Incidents
BY DEF WriteRecord, Place, AllRows, Tables, Told

(* The parts of TypeOK that a tick may change.                             *)
TickType(w) ==
  /\ mine[w] \in SUBSET AllRows /\ base[w] \in SUBSET AllRows
  /\ pc[w] \in {"idle", "loading", "deciding", "writing", "waiting"}
  /\ tick[w] \in TickRecord

LEMMA AdvanceType ==
  ASSUME TypeOK, NEW w \in Workers, Advance(w)
  PROVE  /\ tick' \in [Workers -> TickRecord]
         /\ pc' \in [Workers -> {"idle", "loading", "deciding", "writing", "waiting"}]
<1>1. pc \in [Workers -> {"idle", "loading", "deciding", "writing", "waiting"}] /\ tick \in [Workers -> TickRecord]
  BY DEF TypeOK
<1>2. NoTick \in TickRecord
  BY DEF NoTick, TickRecord, Tiers, RowRecord
<1>3. pc' \in [Workers -> {"idle", "loading", "deciding", "writing", "waiting"}]
  BY <1>1 DEF Advance
<1>4. {Incident(w, k) : k \in Part(w)} \subseteq Incidents /\ Upto(w) \in Nat
  BY PartType
<1>5. [tick[w] EXCEPT !.done = Upto(w), !.todo = {},
                      !.opened = @ \cup {Incident(w, k) : k \in Part(w)}] \in TickRecord
  BY <1>1, <1>4 DEF TickRecord
<1>6. tick' \in [Workers -> TickRecord]
  <2>1. CASE tick' = [tick EXCEPT ![w] = NoTick]
    BY <1>1, <1>2, <2>1
  <2>2. CASE tick' = [tick EXCEPT ![w].done = Upto(w), ![w].todo = {},
                                  ![w].opened = @ \cup {Incident(w, k) : k \in Part(w)}]
    <3>1. tick' = [tick EXCEPT ![w] = [tick[w] EXCEPT !.done = Upto(w), !.todo = {},
                      !.opened = @ \cup {Incident(w, k) : k \in Part(w)}]]
      BY <2>2
    <3> QED BY <1>1, <1>5, <3>1
  <2> QED BY <2>1, <2>2 DEF Advance
<1> QED BY <1>3, <1>6

LEMMA TypeStep == TypeOK /\ [Next]_vars => TypeOK'
<1> SUFFICES ASSUME TypeOK, [Next]_vars PROVE TypeOK'
  OBVIOUS
<1> USE DEF TypeOK
<1>1. ASSUME NEW w \in Workers, Begin(w) PROVE TypeOK'
  <2>1. PICK list \in OpenFindings : tick' = [tick EXCEPT ![w].list = list]
    BY <1>1 DEF Begin
  <2>2. list \in Seq(RowRecord)
    BY <2>1, ListType
  <2>3. tick' = [tick EXCEPT ![w] = [tick[w] EXCEPT !.list = list]]
    BY <2>1
  <2>4. [tick[w] EXCEPT !.list = list] \in TickRecord
    BY <2>2 DEF TickRecord
  <2>5. tick' \in [Workers -> TickRecord]
    BY <2>3, <2>4
  <2> QED BY <1>1, <2>5 DEF Begin, world
<1>2. ASSUME NEW w \in Workers, NEW q \in Queries, Load(w, q) PROVE TypeOK'
  <2> DEFINE t == [tick[w] EXCEPT !.loaded = @ \cup {q}]
  <2>1. t \in TickRecord
    BY DEF TickRecord
  <2>2. /\ [t EXCEPT !.opened = {i \in Incidents : Has("INCIDENT", i)}] \in TickRecord
        /\ [t EXCEPT !.tier = tier] \in TickRecord
        /\ [t EXCEPT !.reach = reachable] \in TickRecord
    BY <2>1 DEF TickRecord
  <2>3. Asked(w) \subseteq Findings
    <3>1. tick[w].list \in Seq(RowRecord)
      BY DEF TickRecord
    <3>2. \A i \in DOMAIN tick[w].list : tick[w].list[i] \in RowRecord
      BY <3>1
    <3> QED BY <3>2 DEF Asked, RowRecord
  <2>4. [t EXCEPT !.decided = {f \in Asked(w) : Decided(f)}] \in TickRecord
    BY <2>1, <2>3 DEF TickRecord
  <2>5. PICK u \in TickRecord : tick' = [tick EXCEPT ![w] = u]
    BY <1>2, <2>2, <2>4 DEF Load, Queries
  <2>6. tick' \in [Workers -> TickRecord]
    BY <2>5
  <2>7. pc' \in [Workers -> {"idle", "loading", "deciding", "writing", "waiting"}]
    BY <1>2 DEF Load
  <2> QED BY <1>2, <2>6, <2>7 DEF Load, world
<1>3. ASSUME NEW w \in Workers, Decide(w) PROVE TypeOK'
  <2>1. CASE Writes(w) = {}
    BY <1>3, <2>1, AdvanceType DEF Decide, world
  <2>2. CASE Writes(w) # {}
    <3>1. tick' = [tick EXCEPT ![w] = [tick[w] EXCEPT !.todo = Writes(w)]]
      BY <1>3, <2>2 DEF Decide
    <3>2. [tick[w] EXCEPT !.todo = Writes(w)] \in TickRecord
      BY WritesType DEF TickRecord
    <3>3. tick' \in [Workers -> TickRecord]
      BY <3>1, <3>2
    <3> QED BY <1>3, <2>2, <3>3 DEF Decide, world
  <2> QED BY <2>1, <2>2
<1>4. ASSUME NEW w \in Workers, NEW r \in tick[w].todo
      PROVE  /\ Done(w, r) => tick' \in [Workers -> TickRecord]
             /\ Insert(w, r) => mine' \in [Workers -> SUBSET AllRows]
  <2>1. tick[w].todo \subseteq WriteRecord
    BY DEF TickRecord
  <2>2. [tick[w] EXCEPT !.todo = @ \ {r}] \in TickRecord
    BY DEF TickRecord
  <2>3. Done(w, r) => tick' = [tick EXCEPT ![w] = [tick[w] EXCEPT !.todo = @ \ {r}]]
    BY DEF Done
  <2>4. Place(r) \in AllRows
    BY <2>1, PlaceType
  <2>5. Insert(w, r) => mine' \in [Workers -> SUBSET AllRows]
    BY <2>4 DEF Insert
  <2> QED BY <2>2, <2>3, <2>5
<1>5. ASSUME NEW w \in Workers, Statement(w) PROVE TypeOK'
  <2>1. PICK r \in NextWrite(w) :
          \/ Excluded(w, r) /\ Done(w, r) /\ UNCHANGED <<pc, mine>>
          \/ ~Excluded(w, r) /\ Free(w) /\ Insert(w, r) /\ UNCHANGED pc
          \/ /\ ~Excluded(w, r) /\ ~Free(w)
             /\ pc' = [pc EXCEPT ![w] = "waiting"] /\ UNCHANGED <<tick, mine>>
    BY <1>5 DEF Statement
  <2>2. r \in tick[w].todo
    BY DEF NextWrite
  <2>3. tick' \in [Workers -> TickRecord] /\ mine' \in [Workers -> SUBSET AllRows]
    BY <1>4, <2>1, <2>2 DEF Insert
  <2> QED BY <1>5, <2>1, <2>3 DEF Statement, world
<1>6. ASSUME NEW w \in Workers, Resume(w) PROVE TypeOK'
  <2>1. PICK r \in NextWrite(w) : Insert(w, r)
    BY <1>6 DEF Resume
  <2>2. r \in tick[w].todo
    BY DEF NextWrite
  <2>3. tick' \in [Workers -> TickRecord] /\ mine' \in [Workers -> SUBSET AllRows]
    BY <1>4, <2>1, <2>2 DEF Insert
  <2> QED BY <1>6, <2>3 DEF Resume, world
<1>7. ASSUME NEW w \in Workers, Commit(w) PROVE TypeOK'
  BY <1>7, AdvanceType DEF Commit, world
<1>8. ASSUME NEW w \in Workers, Abandon(w), faults' \in Nat PROVE TypeOK'
  <2>1. NoTick \in TickRecord
    BY DEF NoTick, TickRecord, Tiers, RowRecord
  <2> QED BY <1>8, <2>1 DEF Abandon, world
<1>9. ASSUME NEW w \in Workers, BreakDeadlock(w) PROVE TypeOK'
  BY <1>8, <1>9 DEF BreakDeadlock
<1>10. ASSUME NEW w \in Workers, EndTick(w) PROVE TypeOK'
  BY <1>8, <1>10 DEF EndTick
<1>11. ASSUME NEW f \in Findings, NEW state \in {"OPEN", "UPDATED", "CLOSED"}, NEW o \in Times, Observe(f, state, o)
       PROVE  TypeOK'
  <2>1. [state |-> state, observed |-> o] \in FindingRecord
    BY DEF FindingRecord, Times
  <2>2. finding' \in [Findings -> FindingRecord]
    BY <1>11, <2>1 DEF Observe
  <2>3. ever' \in [quiet : BOOLEAN, unreachable : BOOLEAN, early : SUBSET Incidents, late : SUBSET Incidents]
    BY <1>11, IntakeAssumption DEF Observe
  <2>4. changes' \in [finding : Nat, setting : Nat]
    BY <1>11 DEF Observe, Change
  <2> QED BY <1>11, <2>2, <2>3, <2>4 DEF Observe
<1>12. ASSUME World PROVE TypeOK'
  <2>1. ASSUME NEW f \in Findings, NEW o \in Times, PublishNative(f, o) PROVE TypeOK'
    BY <1>11, <2>1 DEF PublishNative
  <2>2. ASSUME NEW f \in Findings, NEW o \in Times, NEW current \in BOOLEAN, Evaluate(f, o, current) PROVE TypeOK'
    <3>1. PICK state \in {"OPEN", "UPDATED", "CLOSED"} : Observe(f, state, o)
      BY <2>2 DEF Evaluate
    <3> QED BY <1>11, <3>1
  <2>3. ASSUME NEW f \in Findings, CloseNative(f) PROVE TypeOK'
    <3>1. [finding[f] EXCEPT !.state = "CLOSED"] \in FindingRecord
      BY DEF FindingRecord
    <3>2. finding' = [finding EXCEPT ![f] = [finding[f] EXCEPT !.state = "CLOSED"]]
      BY <2>3 DEF CloseNative
    <3>3. finding' \in [Findings -> FindingRecord]
      BY <3>1, <3>2
    <3>4. changes' \in [finding : Nat, setting : Nat]
      BY <2>3 DEF CloseNative, Change
    <3> QED BY <2>3, <3>3, <3>4 DEF CloseNative
  <2>4. ASSUME NEW d \in Tiers, SetDisposition(d) PROVE TypeOK'
    <3>1. changes' \in [finding : Nat, setting : Nat]
      BY <2>4 DEF SetDisposition, Change
    <3> QED BY <2>4, <3>1 DEF SetDisposition
  <2>5. ASSUME NEW b \in BOOLEAN, SetRecipient(b) PROVE TypeOK'
    <3>1. changes' \in [finding : Nat, setting : Nat]
      BY <2>5 DEF SetRecipient, Change
    <3> QED BY <2>5, <3>1 DEF SetRecipient
  <2>6. ASSUME Clock PROVE TypeOK'
    BY <2>6, IntakeAssumption DEF Clock, Times
  <2> QED BY <1>12, <2>1, <2>2, <2>3, <2>4, <2>5, <2>6 DEF World
<1>13. CASE UNCHANGED vars
  BY <1>13 DEF vars, world
<1> QED
  BY <1>1, <1>2, <1>3, <1>5, <1>6, <1>7, <1>9, <1>10, <1>12, <1>13 DEF Next, Progress
-----------------------------------------------------------------------------
(* What one worker knows, when others take steps and when it takes its own. *)

LEMMA Least ==
  ASSUME NEW S \in SUBSET Nat, S # {}
  PROVE  \E n \in S : \A m \in S : n <= m
<1> DEFINE R == OpToRel(<, Nat)
<1>1. R = {p \in Nat \X Nat : p[1] < p[2]}
  BY DEF OpToRel
<1>2. IsWellFoundedOn(R, Nat)
  BY NatLessThanWellFounded
<1>3. ASSUME NEW m \in Nat, NEW n \in Nat, m < n PROVE <<m, n>> \in R
  <2>1. <<m, n>> \in Nat \X Nat /\ <<m, n>>[1] = m /\ <<m, n>>[2] = n
    OBVIOUS
  <2> QED BY <1>1, <1>3, <2>1
<1> HIDE DEF R
<1>4. PICK n \in S : \A m \in S : <<m, n>> \notin R
  BY <1>2, WFMin
<1>5. ASSUME NEW m \in S PROVE n <= m
  <2>1. m \in Nat /\ n \in Nat
    OBVIOUS
  <2>2. ~(m < n)
    BY <1>3, <1>4, <2>1
  <2> QED BY <2>1, <2>2
<1> QED BY <1>5

(* The settings and observations of the past stay.                         *)
EverGrows ==
  /\ ever.quiet => ever'.quiet
  /\ ever.unreachable => ever'.unreachable
  /\ ever.early \subseteq ever'.early /\ ever.late \subseteq ever'.late

LEMMA RecordedStays ==
  ASSUME EverGrows, NEW f, NEW o, Recorded(f, o)
  PROVE  Recorded(f, o)'
BY DEF EverGrows, Recorded

LEMMA Growth ==
  ASSUME rows \subseteq rows'
  PROVE  /\ \A t, k : Has(t, k) => Has(t, k)'
         /\ \A f : Decided(f) => Decided(f)'
         /\ \A f : Joined(f) => Joined(f)'
BY DEF Has, Decided, Joined

(* A write of which the place is taken, or contradicted by what is there,  *)
(* may be dropped.                                                         *)
Replaced(w, p) ==
  p \in Ahead(w)' \/ \E t \in Told, f \in Findings : p = <<t, f>> /\ <<Opposite(t), f>> \in Ahead(w)'

LEMMA ChunkKept ==
  ASSUME NEW w \in Workers, TypeOK, ChunkInv(w), Active(w), EverGrows,
         tick'[w].list = tick[w].list, tick'[w].done = tick[w].done,
         Added(w)' \subseteq Added(w),
         \A p \in Ahead(w) : Replaced(w, p)
  PROVE  ChunkInv(w)'
<1>1. ASSUME NEW i, <<"INCIDENT", i>> \in Ahead(w) PROVE <<"INCIDENT", i>> \in Ahead(w)'
  <2>1. \A t \in Told, f \in Findings : <<"INCIDENT", i>> # <<t, f>>
    BY DEF Told
  <2> QED BY <1>1, <2>1 DEF Replaced
<1>2. ASSUME NEW i, <<"JOB", i>> \in Ahead(w) PROVE <<"JOB", i>> \in Ahead(w)'
  <2>1. \A t \in Told, f \in Findings : <<"JOB", i>> # <<t, f>>
    BY DEF Told
  <2> QED BY <1>2, <2>1 DEF Replaced
<1>3. ASSUME NEW f \in Findings, DecidedIn(f, Ahead(w)) PROVE DecidedIn(f, Ahead(w))'
  <2>1. PICK t \in Told : <<t, f>> \in Ahead(w)
    BY <1>3 DEF DecidedIn
  <2>2. CASE <<t, f>> \in Ahead(w)'
    BY <2>2 DEF DecidedIn
  <2>3. CASE \E u \in Told, g \in Findings : <<t, f>> = <<u, g>> /\ <<Opposite(u), g>> \in Ahead(w)'
    <3>1. Opposite(t) \in Told
      BY DEF Opposite, Told
    <3> QED BY <2>3, <3>1 DEF DecidedIn
  <2> QED BY <2>1, <2>2, <2>3 DEF Replaced
<1>4. ASSUME NEW f \in Findings, DecidedIn(f, Added(w))' PROVE DecidedIn(f, Added(w))
  BY <1>4 DEF DecidedIn
<1>5. Part(w)' = Part(w) /\ \A k : Incident(w, k)' = Incident(w, k)
  BY DEF Part, Upto, Incident, Key
<1>6. \A k \in Part(w)' : <<"INCIDENT", Incident(w, k)'>> \in Ahead(w)'
  BY <1>1, <1>5 DEF ChunkInv
<1>7. ASSUME NEW i \in Incidents, <<"INCIDENT", i>> \in Added(w)'
      PROVE  /\ \E f \in Findings : IncidentOf[f] = i /\ DecidedIn(f, Ahead(w))'
             /\ <<"JOB", i>> \in Ahead(w)' \/ ever'.quiet \/ ever'.unreachable \/ i \in ever'.early
  <2>1. <<"INCIDENT", i>> \in Added(w)
    BY <1>7
  <2>2. \E f \in Findings : IncidentOf[f] = i /\ DecidedIn(f, Ahead(w))'
    BY <1>3, <2>1 DEF ChunkInv
  <2>3. <<"JOB", i>> \in Ahead(w) \/ ever.quiet \/ ever.unreachable \/ i \in ever.early
    BY <2>1 DEF ChunkInv
  <2> QED BY <1>2, <2>2, <2>3 DEF EverGrows
<1>8. ASSUME NEW f \in Findings, DecidedIn(f, Added(w))' PROVE <<"INCIDENT", IncidentOf[f]>> \in Ahead(w)'
  BY <1>1, <1>4, <1>8 DEF ChunkInv
<1>9. ASSUME NEW i \in Incidents, <<"JOB", i>> \in Added(w)'
      PROVE  <<"INCIDENT", i>> \in Ahead(w)' /\ i \in ever'.late
  <2>1. <<"JOB", i>> \in Added(w)
    BY <1>9
  <2> QED BY <1>1, <2>1 DEF ChunkInv, EverGrows
<1> QED BY <1>6, <1>7, <1>8, <1>9 DEF ChunkInv

(* A step of another worker, or of none.                                   *)
LEMMA OthersKeep ==
  ASSUME NEW w \in Workers, TypeOK, WorkerInv(w), rows \subseteq rows', EverGrows,
         mine'[w] = mine[w], tick'[w] = tick[w], pc'[w] = pc[w], base'[w] = base[w]
  PROVE  WorkerInv(w)'
<1> USE Growth, RecordedStays
<1>1. ReadInv(w)'
  BY DEF WorkerInv, ReadInv, EverGrows
<1>2. RestInv(w)'
  BY DEF WorkerInv, RestInv, Active
<1>3. Planned(w)' = Planned(w) /\ Added(w)' = Added(w) /\ Ahead(w) \subseteq Ahead(w)'
  BY DEF Planned, Added, Ahead
<1>4. ChunkInv(w)'
  <2>1. CASE Active(w)
    BY <1>3, <2>1, ChunkKept DEF WorkerInv, Replaced
  <2>2. CASE ~Active(w)
    BY <2>2 DEF ChunkInv, Active
  <2> QED BY <2>1, <2>2
<1>5. \A t, f : Fit(w, t, f) => Fit(w, t, f)'
  BY DEF Fit
<1>6. FitInv(w)'
  BY <1>5 DEF WorkerInv, FitInv, NextWrite, Active
<1> QED BY <1>1, <1>2, <1>4, <1>6 DEF WorkerInv

(* The chunk is over, committed or without anything to write.              *)
LEMMA AdvanceKeeps ==
  ASSUME NEW w \in Workers, TypeOK, TypeOK', ReadInv(w), pc[w] \notin {"idle", "loading"}, Advance(w),
         rows \subseteq rows', UNCHANGED ever, mine'[w] = {},
         \A k \in Part(w) : <<"INCIDENT", Incident(w, k)>> \in rows'
  PROVE  WorkerInv(w)'
<1> USE Growth
<1>1. EverGrows
  BY DEF EverGrows
<1>2. CASE pc' = [pc EXCEPT ![w] = "idle"] /\ tick' = [tick EXCEPT ![w] = NoTick]
  <2>1. pc'[w] = "idle" /\ tick'[w] = NoTick
    BY <1>2 DEF TypeOK
  <2> QED BY <2>1 DEF WorkerInv, ReadInv, RestInv, ChunkInv, FitInv, Active, NoTick
<1>3. CASE /\ pc' = [pc EXCEPT ![w] = "deciding"]
           /\ tick' = [tick EXCEPT ![w].done = Upto(w), ![w].todo = {},
                                   ![w].opened = @ \cup {Incident(w, k) : k \in Part(w)}]
  <2>1. pc'[w] = "deciding"
    BY <1>3 DEF TypeOK
  <2>2. tick[w] \in TickRecord
    BY DEF TypeOK
  <2>3. /\ tick'[w].todo = {} /\ tick'[w].list = tick[w].list /\ tick'[w].tier = tick[w].tier
        /\ tick'[w].loaded = tick[w].loaded /\ tick'[w].reach = tick[w].reach
        /\ tick'[w].decided = tick[w].decided
        /\ tick'[w].opened = tick[w].opened \cup {Incident(w, k) : k \in Part(w)}
    <3> DEFINE C == {Incident(w, k) : k \in Part(w)}
    <3>1. tick' = [tick EXCEPT ![w] = [tick[w] EXCEPT !.done = Upto(w), !.todo = {}, !.opened = @ \cup C]]
      BY <1>3
    <3> HIDE DEF C
    <3>2. tick'[w] = [tick[w] EXCEPT !.done = Upto(w), !.todo = {}, !.opened = @ \cup C]
      BY <3>1 DEF TypeOK
    <3>3. /\ tick'[w].todo = {} /\ tick'[w].list = tick[w].list /\ tick'[w].tier = tick[w].tier
          /\ tick'[w].loaded = tick[w].loaded /\ tick'[w].reach = tick[w].reach
          /\ tick'[w].decided = tick[w].decided
          /\ tick'[w].opened = tick[w].opened \cup C
      BY <2>2, <3>2 DEF TickRecord
    <3> QED BY <3>3 DEF C
  <2>4. \A i \in tick'[w].opened : Has("INCIDENT", i)'
    BY <2>3 DEF ReadInv, Has
  <2>5. ReadInv(w)'
    BY <1>1, <2>3, <2>4, RecordedStays DEF ReadInv
  <2> QED BY <2>1, <2>3, <2>5 DEF WorkerInv, RestInv, ChunkInv, FitInv, Active
<1> QED BY <1>2, <1>3 DEF Advance

(* Of the findings of a chunk with one incident, the first opens it.       *)
LEMMA FirstOpens ==
  ASSUME NEW w \in Workers, TypeOK, NEW k \in Part(w), Incident(w, k) \notin tick[w].opened
  PROVE  \E j \in Part(w) : Opens(w, j) /\ Incident(w, j) = Incident(w, k)
<1> DEFINE S == {j \in Part(w) : Incident(w, j) = Incident(w, k)}
<1>1. S \in SUBSET Nat /\ S # {}
  BY PartType
<1>2. PICK j \in S : \A m \in S : j <= m
  BY <1>1, Least
<1>3. \A m \in Part(w) : m < j => m \notin S
  <2>1. j \in Nat /\ \A m \in Part(w) : m \in Nat
    BY <1>1, PartType
  <2> QED BY <1>2, <2>1
<1>4. Opens(w, j)
  BY <1>3 DEF Opens
<1> QED BY <1>4

(* What decide plans for a chunk.                                          *)
Plan(w) == {Place(r) : r \in Writes(w)}

LEMMA PlanIs ==
  ASSUME NEW w \in Workers
  PROVE  Plan(w) = {<<"INCIDENT", Incident(w, k)>> : k \in {j \in Part(w) : Opens(w, j)}}
                   \cup {<<IF Quiet(w) THEN "WITHHELD" ELSE "NOTICE", Key(w, k)>> :
                           k \in {j \in Part(w) : Undecided(w, j)}}
                   \cup {<<"JOB", Incident(w, k)>> : k \in {j \in Part(w) : Sends(w, j)}}
<1>1. \A t, x, k : Place(Write(t, x, k)) = <<t, x>>
  BY DEF Place, Write
<1>2. {Place(r) : r \in Incoming(w)} = {<<"INCIDENT", Incident(w, k)>> : k \in {j \in Part(w) : Opens(w, j)}}
  BY <1>1 DEF Incoming
<1>3. {Place(r) : r \in Jobs(w)} = {<<"JOB", Incident(w, k)>> : k \in {j \in Part(w) : Sends(w, j)}}
  BY <1>1 DEF Jobs
<1>4. {Place(r) : r \in Notices(w)} =
        {<<IF Quiet(w) THEN "WITHHELD" ELSE "NOTICE", Key(w, k)>> : k \in {j \in Part(w) : Undecided(w, j)}}
  BY <1>1 DEF Notices
<1>5. Plan(w) = {Place(r) : r \in Incoming(w)} \cup {Place(r) : r \in Notices(w)} \cup {Place(r) : r \in Jobs(w)}
  BY DEF Plan, Writes
<1> QED BY <1>2, <1>3, <1>4, <1>5

LEMMA WhatIsDecided ==
  ASSUME NEW w \in Workers, TypeOK, ReadInv(w), pc[w] = "deciding"
  PROVE  /\ \A k \in Part(w) : /\ <<"INCIDENT", Incident(w, k)>> \in rows \cup Plan(w)
                               /\ DecidedIn(Key(w, k), rows \cup Plan(w))
         /\ \A i : <<"INCIDENT", i>> \in Plan(w) => \E k \in Part(w) :
              /\ i = Incident(w, k)
              /\ <<"JOB", i>> \in Plan(w) \/ ever.quiet \/ ever.unreachable \/ i \in ever.early
         /\ \A f : DecidedIn(f, Plan(w)) => \E k \in Part(w) : f = Key(w, k)
         /\ \A i : <<"JOB", i>> \in Plan(w) => \E k \in Part(w) : i = Incident(w, k) /\ i \in ever.late
<1> DEFINE P == Plan(w)
<1>1. P = {<<"INCIDENT", Incident(w, k)>> : k \in {j \in Part(w) : Opens(w, j)}}
          \cup {<<IF Quiet(w) THEN "WITHHELD" ELSE "NOTICE", Key(w, k)>> : k \in {j \in Part(w) : Undecided(w, j)}}
          \cup {<<"JOB", Incident(w, k)>> : k \in {j \in Part(w) : Sends(w, j)}}
  BY PlanIs
<1> HIDE DEF P
<1>2. ASSUME NEW k \in Part(w) PROVE <<"INCIDENT", Incident(w, k)>> \in rows \cup P
  <2>1. CASE Incident(w, k) \in tick[w].opened
    BY <2>1 DEF ReadInv, Has
  <2>2. CASE Incident(w, k) \notin tick[w].opened
    <3>1. PICK j \in Part(w) : Opens(w, j) /\ Incident(w, j) = Incident(w, k)
      BY <2>2, FirstOpens
    <3> QED BY <1>1, <3>1
  <2> QED BY <2>1, <2>2
<1>3. ASSUME NEW k \in Part(w) PROVE DecidedIn(Key(w, k), rows \cup P)
  <2>1. CASE Undecided(w, k)
    BY <1>1, <2>1 DEF DecidedIn, Told
  <2>2. CASE ~Undecided(w, k)
    BY <2>2 DEF Undecided, ReadInv, Decided, Has, DecidedIn, Told
  <2> QED BY <2>1, <2>2
<1>4. ASSUME NEW k \in Part(w)
      PROVE  Recorded(Key(w, k), tick[w].list[k].at) /\ tick[w].list[k].at \in Nat
  BY PartType DEF ReadInv, Key, RowRecord
<1>5. ASSUME NEW k \in Part(w), Opens(w, k), ~Sends(w, k)
      PROVE  ever.quiet \/ ever.unreachable \/ Incident(w, k) \in ever.early
  <2>1. CASE Quiet(w)
    BY <2>1 DEF Quiet, ReadInv
  <2>2. CASE ~tick[w].reach
    BY <2>2 DEF ReadInv
  <2>3. CASE tick[w].list[k].at < Watermark
    BY <1>4, <2>3 DEF Recorded, Incident
  <2> QED BY <1>4, <1>5, <2>1, <2>2, <2>3, IntakeAssumption DEF Sends
<1>6. ASSUME NEW i, <<"INCIDENT", i>> \in P
      PROVE  \E k \in Part(w) : /\ i = Incident(w, k)
                                /\ <<"JOB", i>> \in P \/ ever.quiet \/ ever.unreachable \/ i \in ever.early
  <2>1. PICK k \in Part(w) : Opens(w, k) /\ i = Incident(w, k)
    BY <1>1, <1>6
  <2>2. CASE Sends(w, k)
    BY <1>1, <2>1, <2>2
  <2>3. CASE ~Sends(w, k)
    BY <1>5, <2>1, <2>3
  <2> QED BY <2>1, <2>2, <2>3
<1>7. ASSUME NEW f, DecidedIn(f, P) PROVE \E k \in Part(w) : f = Key(w, k)
  BY <1>1, <1>7 DEF DecidedIn, Told
<1>8. ASSUME NEW i, <<"JOB", i>> \in P PROVE \E k \in Part(w) : i = Incident(w, k) /\ i \in ever.late
  <2>1. PICK k \in Part(w) : Sends(w, k) /\ i = Incident(w, k)
    BY <1>1, <1>8
  <2>2. ~(tick[w].list[k].at < Watermark)
    BY <1>4, <2>1, IntakeAssumption DEF Sends
  <2> QED BY <1>4, <2>1, <2>2 DEF Recorded, Incident
<1> QED BY <1>2, <1>3, <1>6, <1>7, <1>8 DEF P

LEMMA DecideKeeps ==
  ASSUME NEW w \in Workers, TypeOK, TypeOK', WorkerInv(w), Decide(w)
  PROVE  WorkerInv(w)'
<1> DEFINE P == Plan(w)
<1>1. /\ pc[w] = "deciding" /\ mine[w] = {} /\ ReadInv(w) /\ rows' = rows /\ mine' = mine
      /\ UNCHANGED ever
  BY DEF Decide, WorkerInv, RestInv, Active, world
<1>2. CASE Writes(w) = {}
  <2>1. \A k \in Part(w) : <<"INCIDENT", Incident(w, k)>> \in rows'
    <3>1. P = {}
      BY <1>2 DEF Plan
    <3>2. \A k \in Part(w) : <<"INCIDENT", Incident(w, k)>> \in rows \cup P
      BY <1>1, WhatIsDecided
    <3> QED BY <1>1, <3>1, <3>2
  <2>2. Advance(w)
    BY <1>2 DEF Decide
  <2> QED BY <1>1, <2>1, <2>2, AdvanceKeeps
<1>3. CASE Writes(w) # {}
  <2>1. /\ pc'[w] = "writing" /\ base'[w] = rows
        /\ tick'[w] = [tick[w] EXCEPT !.todo = Writes(w)]
    BY <1>3 DEF Decide, TypeOK
  <2>2. tick[w] \in TickRecord
    BY DEF TypeOK
  <2>3. /\ tick'[w].todo = Writes(w) /\ tick'[w].list = tick[w].list /\ tick'[w].done = tick[w].done
        /\ tick'[w].tier = tick[w].tier /\ tick'[w].loaded = tick[w].loaded
        /\ tick'[w].reach = tick[w].reach /\ tick'[w].decided = tick[w].decided
        /\ tick'[w].opened = tick[w].opened
    BY <2>1, <2>2 DEF TickRecord
  <2>4. Added(w)' = P /\ Ahead(w)' = rows \cup P
    BY <1>1, <2>3 DEF Added, Ahead, Planned, Place, Plan
  <2>5. Part(w)' = Part(w) /\ \A k : Incident(w, k)' = Incident(w, k)
    BY <2>3 DEF Part, Upto, Incident, Key
  <2>6. ReadInv(w)'
    BY <1>1, <2>1, <2>3 DEF ReadInv, Has, Decided, Recorded
  <2>7. /\ \A k \in Part(w) : /\ <<"INCIDENT", Incident(w, k)>> \in rows \cup P
                              /\ DecidedIn(Key(w, k), rows \cup P)
        /\ \A i : <<"INCIDENT", i>> \in P => \E k \in Part(w) :
             /\ i = Incident(w, k)
             /\ <<"JOB", i>> \in P \/ ever.quiet \/ ever.unreachable \/ i \in ever.early
        /\ \A f : DecidedIn(f, P) => \E k \in Part(w) : f = Key(w, k)
        /\ \A i : <<"JOB", i>> \in P => \E k \in Part(w) : i = Incident(w, k) /\ i \in ever.late
    BY <1>1, WhatIsDecided
  <2> HIDE DEF P
  <2>8. ChunkInv(w)'
    <3>1. \A k \in Part(w)' : <<"INCIDENT", Incident(w, k)'>> \in Ahead(w)'
      BY <2>4, <2>5, <2>7
    <3>2. ASSUME NEW i \in Incidents, <<"INCIDENT", i>> \in Added(w)'
          PROVE  /\ \E f \in Findings : IncidentOf[f] = i /\ DecidedIn(f, Ahead(w))'
                 /\ <<"JOB", i>> \in Ahead(w)' \/ ever'.quiet \/ ever'.unreachable \/ i \in ever'.early
      <4>1. PICK k \in Part(w) :
              /\ i = Incident(w, k)
              /\ <<"JOB", i>> \in P \/ ever.quiet \/ ever.unreachable \/ i \in ever.early
        BY <2>4, <2>7, <3>2
      <4>2. Key(w, k) \in Findings /\ IncidentOf[Key(w, k)] = i
        BY <4>1, PartType DEF Incident
      <4>3. DecidedIn(Key(w, k), Ahead(w)')
        BY <2>4, <2>7
      <4> QED BY <1>1, <2>4, <4>1, <4>2, <4>3 DEF DecidedIn
    <3>3. ASSUME NEW f \in Findings, DecidedIn(f, Added(w))' PROVE <<"INCIDENT", IncidentOf[f]>> \in Ahead(w)'
      <4>1. PICK k \in Part(w) : f = Key(w, k)
        BY <2>4, <2>7, <3>3 DEF DecidedIn
      <4> QED BY <2>4, <2>7, <4>1 DEF Incident
    <3>4. ASSUME NEW i \in Incidents, <<"JOB", i>> \in Added(w)'
          PROVE  <<"INCIDENT", i>> \in Ahead(w)' /\ i \in ever'.late
      BY <1>1, <2>4, <2>7, <3>4
    <3> QED BY <3>1, <3>2, <3>3, <3>4 DEF ChunkInv
  <2>9. FitInv(w)'
    BY <1>1, <2>1 DEF FitInv
  <2>10. RestInv(w)'
    BY <2>1 DEF RestInv, Active
  <2> QED BY <2>6, <2>8, <2>9, <2>10 DEF WorkerInv
<1> QED BY <1>2, <1>3

(* The statement whose turn it is.                                         *)
LEMMA Unique ==
  ASSUME NEW w \in Workers, TypeOK, NEW r \in NextWrite(w), NEW s \in NextWrite(w)
  PROVE  r = s
<1> SUFFICES ASSUME r # s PROVE FALSE
  OBVIOUS
<1>1. Before(r, s) /\ Before(s, r)
  BY DEF NextWrite
<1>2. r \in WriteRecord /\ s \in WriteRecord
  BY DEF TypeOK, TickRecord, NextWrite
<1>3. r.at \in Nat /\ s.at \in Nat /\ r.table \in Tables /\ s.table \in Tables
  BY <1>2, PlaceType
<1>4. Turn(r) \in Nat /\ Turn(s) \in Nat
  BY <1>3 DEF Turn, Tables
<1> QED BY <1>1, <1>3, <1>4 DEF Before

LEMMA DoneIs ==
  ASSUME NEW w \in Workers, TypeOK, NEW r \in tick[w].todo, Done(w, r)
  PROVE  /\ tick'[w].todo = tick[w].todo \ {r} /\ tick'[w].list = tick[w].list
         /\ tick'[w].done = tick[w].done /\ tick'[w].tier = tick[w].tier
         /\ tick'[w].loaded = tick[w].loaded /\ tick'[w].reach = tick[w].reach
         /\ tick'[w].decided = tick[w].decided /\ tick'[w].opened = tick[w].opened
         /\ Planned(w) = Planned(w)' \cup {Place(r)}
<1>1. tick'[w] = [tick[w] EXCEPT !.todo = @ \ {r}]
  BY DEF Done, TypeOK
<1>2. tick[w] \in TickRecord
  BY DEF TypeOK
<1>3. tick'[w].todo = tick[w].todo \ {r}
  BY <1>1, <1>2 DEF TickRecord
<1>4. Planned(w) = Planned(w)' \cup {Place(r)}
  BY <1>3 DEF Planned, Place
<1> QED BY <1>1, <1>2, <1>3, <1>4 DEF TickRecord

(* A decision that its statement finds room for fits.                      *)
LEMMA FitsNow ==
  ASSUME NEW w \in Workers, TypeOK, Together, WorkerInv(w), Active(w),
         NEW r \in NextWrite(w), r.table \in Told, ~Excluded(w, r), Place(r) \notin rows
  PROVE  Fit(w, r.table, r.key)
<1>1. r \in WriteRecord /\ r \in tick[w].todo
  BY DEF TypeOK, TickRecord, NextWrite
<1>2. r.key \in Findings
  BY <1>1, PlaceType
<1> DEFINE i == IncidentOf[r.key]
<1>3. i \in Incidents
  BY <1>2, IntakeAssumption
<1>4. <<Opposite(r.table), r.key>> \notin rows \cup mine[w]
  BY DEF Excluded, Opposite, Told
<1>5. base[w] \subseteq rows
  BY DEF WorkerInv, FitInv
<1>6. <<"INCIDENT", i>> \in Ahead(w)
  <2>1. DecidedIn(r.key, Added(w))
    BY <1>1 DEF DecidedIn, Added, Planned, Place
  <2> QED BY <1>2, <2>1 DEF WorkerInv, ChunkInv
<1>7. <<"INCIDENT", i>> \notin Planned(w)
  <2>1. ASSUME NEW s \in tick[w].todo, s.table = "INCIDENT" PROVE FALSE
    <3>1. s # r /\ Before(r, s)
      BY <2>1 DEF Told, NextWrite
    <3>2. Turn(s) = 1 /\ Turn(r) \in {2, 4}
      BY <2>1 DEF Turn, Told
    <3> QED BY <3>1, <3>2 DEF Before
  <2> QED BY <2>1 DEF Planned, Place
<1>8. CASE <<"INCIDENT", i>> \in mine[w]
  BY <1>4, <1>5, <1>8 DEF Fit
<1>9. CASE <<"INCIDENT", i>> \in rows
  <2>1. PICK g \in Findings : IncidentOf[g] = i /\ Decided(g)
    BY <1>3, <1>9 DEF Together, Has
  <2>2. ~Decided(r.key)
    BY <1>4 DEF Decided, Has, Opposite, Told, Place
  <2>3. Joined(r.key)
    BY <2>1, <2>2 DEF Joined
  <2> QED BY <1>4, <1>5, <2>3 DEF Fit
<1> QED BY <1>6, <1>7, <1>8, <1>9 DEF Ahead

LEMMA InsertKeeps ==
  ASSUME NEW w \in Workers, TypeOK, TypeOK', WorkerInv(w), Active(w),
         NEW r \in NextWrite(w), Insert(w, r),
         UNCHANGED <<rows, ever, base>>, pc'[w] = "writing",
         r.table \in Told /\ Place(r) \notin rows => Fit(w, r.table, r.key)
  PROVE  WorkerInv(w)'
<1>1. r \in tick[w].todo /\ Done(w, r) /\ mine'[w] = mine[w] \cup ({Place(r)} \ rows)
  BY DEF NextWrite, Insert, TypeOK
<1>2. /\ tick'[w].list = tick[w].list
      /\ tick'[w].done = tick[w].done /\ tick'[w].tier = tick[w].tier
      /\ tick'[w].loaded = tick[w].loaded /\ tick'[w].reach = tick[w].reach
      /\ tick'[w].decided = tick[w].decided /\ tick'[w].opened = tick[w].opened
      /\ Planned(w) = Planned(w)' \cup {Place(r)}
  BY <1>1, DoneIs
<1>3. ReadInv(w)'
  BY <1>2 DEF WorkerInv, ReadInv, Active, Has, Decided, Recorded
<1>4. RestInv(w)'
  BY DEF RestInv, Active
<1>5. ChunkInv(w)'
  <2>1. Added(w)' \subseteq Added(w)
    BY <1>1, <1>2 DEF Added
  <2>2. Ahead(w) \subseteq Ahead(w)'
    BY <1>1, <1>2 DEF Ahead
  <2> QED BY <1>2, <2>1, <2>2, ChunkKept DEF WorkerInv, Replaced, EverGrows
<1>6. FitInv(w)'
  <2>1. ASSUME NEW t \in Told, NEW f \in Findings, <<t, f>> \in mine'[w] PROVE Fit(w, t, f)'
    <3>1. ASSUME <<t, f>> = Place(r), Place(r) \notin rows PROVE Fit(w, t, f)
      BY <3>1 DEF Place
    <3>2. Fit(w, t, f)
      BY <1>1, <2>1, <3>1 DEF WorkerInv, FitInv
    <3>3. <<Opposite(t), f>> \notin mine'[w]
      <4> SUFFICES ASSUME <<Opposite(t), f>> \in mine'[w] PROVE FALSE
        OBVIOUS
      <4>1. <<Opposite(t), f>> = Place(r) /\ Place(r) \notin rows
        BY <1>1, <3>2 DEF Fit
      <4>2. r.table = Opposite(t) /\ r.key = f
        BY <4>1 DEF Place
      <4>3. Opposite(t) \in Told /\ Opposite(Opposite(t)) = t /\ Opposite(t) # t
        BY DEF Opposite, Told
      <4>4. <<t, f>> \notin mine[w]
        BY <4>1, <4>2, <4>3 DEF Fit
      <4>5. <<t, f>> # Place(r)
        BY <4>2, <4>3 DEF Place
      <4> QED BY <1>1, <2>1, <4>4, <4>5
    <3> QED BY <1>1, <3>2, <3>3 DEF Fit, Joined, Decided, Has
  <2> QED BY <2>1 DEF WorkerInv, FitInv
<1> QED BY <1>3, <1>4, <1>5, <1>6 DEF WorkerInv

(* A statement that finds the opposite decision leaves it.                 *)
LEMMA DropKeeps ==
  ASSUME NEW w \in Workers, TypeOK, TypeOK', WorkerInv(w), Active(w),
         NEW r \in NextWrite(w), Excluded(w, r), Done(w, r),
         UNCHANGED <<rows, mine, ever, base, pc>>, pc[w] = "writing"
  PROVE  WorkerInv(w)'
<1>1. r \in tick[w].todo /\ r \in WriteRecord
  BY DEF NextWrite, TypeOK, TickRecord
<1>2. /\ tick'[w].list = tick[w].list
      /\ tick'[w].done = tick[w].done /\ tick'[w].tier = tick[w].tier
      /\ tick'[w].loaded = tick[w].loaded /\ tick'[w].reach = tick[w].reach
      /\ tick'[w].decided = tick[w].decided /\ tick'[w].opened = tick[w].opened
      /\ Planned(w) = Planned(w)' \cup {Place(r)}
  BY <1>1, DoneIs
<1>3. ReadInv(w)'
  BY <1>2 DEF WorkerInv, ReadInv, Has, Decided, Recorded
<1>4. RestInv(w)'
  BY DEF RestInv, Active
<1>5. ChunkInv(w)'
  <2>1. Added(w)' \subseteq Added(w)
    BY <1>2 DEF Added
  <2>2. Replaced(w, Place(r))
    <3>1. r.table \in Told /\ <<Opposite(r.table), r.key>> \in rows \cup mine[w]
      BY DEF Excluded, Opposite, Told
    <3>2. r.key \in Findings
      BY <1>1, <3>1, PlaceType
    <3>3. <<Opposite(r.table), r.key>> \in Ahead(w)'
      BY <3>1 DEF Ahead
    <3> QED BY <3>1, <3>2, <3>3 DEF Replaced, Place
  <2>3. \A p \in Ahead(w) : Replaced(w, p)
    BY <1>2, <2>2 DEF Ahead, Replaced
  <2> QED BY <1>2, <2>1, <2>3, ChunkKept DEF WorkerInv, EverGrows
<1>6. FitInv(w)'
  BY DEF WorkerInv, FitInv, Fit, Joined, Decided, Has, Active
<1> QED BY <1>3, <1>4, <1>5, <1>6 DEF WorkerInv

LEMMA StatementKeeps ==
  ASSUME NEW w \in Workers, TypeOK, TypeOK', Together, ApartInv, WorkerInv(w), Statement(w)
  PROVE  WorkerInv(w)'
<1>1. /\ pc[w] = "writing" /\ Active(w)
      /\ UNCHANGED <<rows, ever, base>>
  BY DEF Statement, Active, world
<1>2. PICK r \in NextWrite(w) :
        \/ Excluded(w, r) /\ Done(w, r) /\ UNCHANGED <<pc, mine>>
        \/ ~Excluded(w, r) /\ Free(w) /\ Insert(w, r) /\ UNCHANGED pc
        \/ /\ ~Excluded(w, r) /\ ~Free(w)
           /\ pc' = [pc EXCEPT ![w] = "waiting"] /\ UNCHANGED <<tick, mine>>
  BY DEF Statement
<1>3. ~Excluded(w, r) /\ r.table \in Told /\ Place(r) \notin rows => Fit(w, r.table, r.key)
  BY <1>1, FitsNow
<1>4. CASE Excluded(w, r) /\ Done(w, r) /\ UNCHANGED <<pc, mine>>
  BY <1>1, <1>4, DropKeeps
<1>5. CASE ~Excluded(w, r) /\ Insert(w, r) /\ UNCHANGED pc
  <2>1. pc'[w] = "writing"
    BY <1>1, <1>5
  <2> QED BY <1>1, <1>3, <1>5, <2>1, InsertKeeps
<1>6. CASE /\ ~Excluded(w, r) /\ ~Free(w)
           /\ pc' = [pc EXCEPT ![w] = "waiting"] /\ UNCHANGED <<tick, mine>>
  <2>1. pc'[w] = "waiting"
    BY <1>6 DEF TypeOK
  <2>2. Place(r) \notin rows
    <3>1. PICK v \in Workers, s \in NextWrite(w) : Place(s) \in mine[v]
      BY <1>6 DEF Free, HeldBy
    <3>2. s = r
      BY <3>1, Unique
    <3> QED BY <3>1, <3>2 DEF ApartInv
  <2>3. \A s \in NextWrite(w) : s.table \in Told => Fit(w, s.table, s.key)
    BY <1>3, <1>6, <2>2, Unique
  <2>4. NextWrite(w)' = NextWrite(w) /\ (\A t, f : Fit(w, t, f)' <=> Fit(w, t, f))
    BY <1>1, <1>6 DEF NextWrite, Fit, Joined, Decided, Has
  <2>5. FitInv(w)'
    BY <1>1, <1>6, <2>1, <2>3, <2>4 DEF WorkerInv, FitInv
  <2>6. ReadInv(w)' /\ RestInv(w)'
    BY <1>1, <1>6, <2>1 DEF WorkerInv, ReadInv, RestInv, Has, Decided, Recorded, Active
  <2>7. ChunkInv(w)'
    <3>1. Planned(w)' = Planned(w) /\ Added(w)' = Added(w) /\ Ahead(w)' = Ahead(w)
      BY <1>1, <1>6 DEF Planned, Added, Ahead
    <3> QED BY <1>1, <1>6, <3>1, ChunkKept DEF WorkerInv, Replaced, EverGrows
  <2> QED BY <2>5, <2>6, <2>7 DEF WorkerInv
<1> QED BY <1>2, <1>4, <1>5, <1>6

LEMMA ResumeKeeps ==
  ASSUME NEW w \in Workers, TypeOK, TypeOK', WorkerInv(w), Resume(w)
  PROVE  WorkerInv(w)'
<1>1. PICK r \in NextWrite(w) : Insert(w, r)
  BY DEF Resume
<1>2. pc[w] = "waiting" /\ Active(w) /\ pc'[w] = "writing" /\ UNCHANGED <<rows, ever, base>>
  BY DEF Resume, Active, world, TypeOK
<1>3. r.table \in Told => Fit(w, r.table, r.key)
  BY <1>2 DEF WorkerInv, FitInv
<1> QED BY <1>1, <1>2, <1>3, InsertKeeps

LEMMA BeginKeeps ==
  ASSUME NEW w \in Workers, TypeOK, FindingInv, WorkerInv(w), Begin(w)
  PROVE  WorkerInv(w)'
<1>1. /\ pc[w] = "idle" /\ pc'[w] = "loading" /\ mine[w] = {} /\ tick[w].todo = {}
      /\ UNCHANGED <<rows, ever, mine, base>>
  BY DEF Begin, world, WorkerInv, RestInv, Active, TypeOK
<1>2. PICK list \in OpenFindings : tick' = [tick EXCEPT ![w].list = list]
  BY DEF Begin
<1>3. /\ tick'[w].list = list /\ tick'[w].todo = {} /\ tick'[w].tier = tick[w].tier
      /\ tick'[w].loaded = tick[w].loaded /\ tick'[w].reach = tick[w].reach
      /\ tick'[w].decided = tick[w].decided /\ tick'[w].opened = tick[w].opened
  <2>1. tick' = [tick EXCEPT ![w] = [tick[w] EXCEPT !.list = list]]
    BY <1>2
  <2>2. tick'[w] = [tick[w] EXCEPT !.list = list]
    BY <2>1 DEF TypeOK
  <2>3. tick[w] \in TickRecord
    BY DEF TypeOK
  <2> QED BY <1>1, <2>2, <2>3 DEF TickRecord
<1>4. \A k \in DOMAIN list : Recorded(list[k].key, list[k].at)
  <2>1. \A k \in DOMAIN list : \E f \in Readable : list[k] = [key |-> f, at |-> finding[f].observed]
    BY ListType
  <2>2. \A f \in Readable : f \in Findings /\ finding[f].state # "ABSENT"
    BY DEF Readable
  <2> QED BY <2>1, <2>2 DEF FindingInv
<1>5. ReadInv(w)'
  BY <1>1, <1>3, <1>4 DEF WorkerInv, ReadInv, Has, Decided, Recorded
<1> QED BY <1>1, <1>3, <1>5 DEF WorkerInv, RestInv, ChunkInv, FitInv, Active

LEMMA LoadKeeps ==
  ASSUME NEW w \in Workers, NEW q \in Queries, TypeOK, WorkerInv(w), Load(w, q), SettingsInv
  PROVE  WorkerInv(w)'
<1> DEFINE t == [tick[w] EXCEPT !.loaded = @ \cup {q}]
           opened == {i \in Incidents : Has("INCIDENT", i)}
           decided == {f \in Asked(w) : Decided(f)}
<1>1. /\ pc[w] = "loading" /\ mine[w] = {} /\ tick[w].todo = {}
      /\ UNCHANGED <<rows, ever, mine, base>>
  BY DEF Load, world, WorkerInv, RestInv, Active, TypeOK
<1>2. tick[w] \in TickRecord
  BY DEF TypeOK
<1> HIDE DEF opened, decided
<1>3. tick'[w] = CASE q = "incidents"    -> [t EXCEPT !.opened = opened]
                   [] q = "dispositions" -> [t EXCEPT !.tier = tier]
                   [] q = "recipients"   -> [t EXCEPT !.reach = reachable]
                   [] q = "decided"      -> [t EXCEPT !.decided = decided]
  BY DEF Load, TypeOK, opened, decided
<1>4. /\ tick'[w].list = tick[w].list /\ tick'[w].todo = {}
      /\ tick'[w].loaded = tick[w].loaded \cup {q}
      /\ tick'[w].opened \in {tick[w].opened, opened}
      /\ tick'[w].decided \in {tick[w].decided, decided}
      /\ tick'[w].tier \in {tick[w].tier, tier}
      /\ tick'[w].reach = IF q = "recipients" THEN reachable ELSE tick[w].reach
  BY <1>1, <1>2, <1>3 DEF TickRecord, Queries
<1>5. \/ pc'[w] = "loading"
      \/ pc'[w] = "deciding" /\ "recipients" \in tick'[w].loaded
  BY <1>1 DEF Load, TypeOK, Queries
<1>6. (\A i \in opened : Has("INCIDENT", i)) /\ (\A f \in decided : Decided(f))
  BY DEF opened, decided
<1>7. ReadInv(w)'
  BY <1>1, <1>4, <1>5, <1>6 DEF SettingsInv, WorkerInv, ReadInv, Has, Decided, Recorded
<1> QED BY <1>1, <1>4, <1>5, <1>7 DEF WorkerInv, RestInv, ChunkInv, FitInv, Active

LEMMA AbandonKeeps ==
  ASSUME NEW w \in Workers, TypeOK, Abandon(w)
  PROVE  WorkerInv(w)'
<1>1. pc'[w] = "idle" /\ tick'[w] = NoTick /\ mine'[w] = {}
  BY DEF Abandon, TypeOK
<1> QED BY <1>1 DEF WorkerInv, ReadInv, RestInv, ChunkInv, FitInv, Active, NoTick
-----------------------------------------------------------------------------
(* What the workers know together.                                         *)

(* The rows after a commit are those its chunk was to leave.               *)
LEMMA CommitLeaves ==
  ASSUME NEW w \in Workers, TypeOK, ApartInv, RowsInv, WorkerInv(w), Commit(w)
  PROVE  RowsInv'
<1> USE Growth
<1>1. /\ Active(w) /\ rows' = rows \cup mine[w] /\ UNCHANGED ever
      /\ Added(w) = mine[w] /\ Ahead(w) = rows'
  BY DEF Commit, world, Active, Added, Ahead, Planned
<1>2. ChunkInv(w) /\ FitInv(w)
  BY DEF WorkerInv
<1>3. /\ \A i \in Incidents : <<"INCIDENT", i>> \in mine[w] =>
           /\ \E f \in Findings : IncidentOf[f] = i /\ DecidedIn(f, rows')
           /\ <<"JOB", i>> \in rows' \/ ever.quiet \/ ever.unreachable \/ i \in ever.early
      /\ \A f \in Findings : DecidedIn(f, mine[w]) => <<"INCIDENT", IncidentOf[f]>> \in rows'
      /\ \A i \in Incidents : <<"JOB", i>> \in mine[w] => <<"INCIDENT", i>> \in rows' /\ i \in ever.late
  BY <1>1, <1>2 DEF ChunkInv
<1>4. \A f : /\ DecidedIn(f, rows') <=> Decided(f)'
             /\ Decided(f)' => Decided(f) \/ DecidedIn(f, mine[w])
  BY <1>1 DEF DecidedIn, Decided, Has, Told
<1>5. Together'
  <2> SUFFICES ASSUME NEW i \in Incidents
               PROVE  /\ Has("INCIDENT", i)' <=> \E f \in Findings : IncidentOf[f] = i /\ Decided(f)'
                      /\ Has("JOB", i)' => Has("INCIDENT", i)'
    BY DEF Together
  <2>1. ASSUME Has("INCIDENT", i)' PROVE \E f \in Findings : IncidentOf[f] = i /\ Decided(f)'
    BY <1>1, <1>3, <1>4, <2>1 DEF RowsInv, Together, Has
  <2>2. ASSUME NEW f \in Findings, IncidentOf[f] = i, Decided(f)' PROVE Has("INCIDENT", i)'
    BY <1>1, <1>3, <1>4, <2>2 DEF RowsInv, Together, Has
  <2>3. ASSUME Has("JOB", i)' PROVE Has("INCIDENT", i)'
    BY <1>1, <1>3, <2>3 DEF RowsInv, Together, Has
  <2> QED BY <2>1, <2>2, <2>3
<1>6. JobsExplained'
  <2>1. ASSUME NEW i \in Incidents, Has("INCIDENT", i)', ~Has("JOB", i)'
        PROVE  ever'.quiet \/ ever'.unreachable \/ i \in ever'.early
    BY <1>1, <1>3, <2>1 DEF RowsInv, JobsExplained, JobUnlessExplained, Has
  <2>2. ASSUME NEW i \in Incidents, Has("JOB", i)' PROVE i \in ever'.late
    BY <1>1, <1>3, <2>2 DEF RowsInv, JobsExplained, WatermarkKept, Has
  <2> QED BY <2>1, <2>2 DEF JobsExplained, JobUnlessExplained, WatermarkKept
<1>7. BothOnlyJoining'
  <2> SUFFICES ASSUME NEW f \in Findings, Has("NOTICE", f)', Has("WITHHELD", f)'
               PROVE  Joined(f)'
    BY DEF BothOnlyJoining, Joined
  <2>1. CASE Has("NOTICE", f) /\ Has("WITHHELD", f)
    BY <1>1, <2>1 DEF RowsInv, BothOnlyJoining, Joined
  <2>2. ASSUME NEW t \in Told, <<t, f>> \in mine[w] PROVE Joined(f)'
    <3>1. Fit(w, t, f)
      BY <1>2, <2>2 DEF FitInv
    <3>2. Decided(f)
      BY <1>1, <3>1 DEF Fit, Decided, Has, Opposite, Told
    <3>3. IncidentOf[f] \in Incidents
      BY IntakeAssumption
    <3>4. <<"INCIDENT", IncidentOf[f]>> \in rows
      BY <3>2, <3>3 DEF RowsInv, Together, Has
    <3>5. Joined(f)
      BY <3>1, <3>4 DEF Fit, ApartInv
    <3> QED BY <1>1, <3>5
  <2> QED BY <1>1, <2>1, <2>2 DEF Has, Told
<1> QED BY <1>5, <1>6, <1>7 DEF RowsInv

LEMMA CommitKeeps ==
  ASSUME NEW w \in Workers, TypeOK, TypeOK', WorkerInv(w), Commit(w)
  PROVE  WorkerInv(w)'
<1>1. /\ Active(w) /\ ReadInv(w) /\ ChunkInv(w) /\ Advance(w) /\ UNCHANGED ever
      /\ rows \subseteq rows' /\ mine'[w] = {} /\ Ahead(w) = rows'
  BY DEF Commit, world, Active, Ahead, Planned, WorkerInv, TypeOK
<1>2. \A k \in Part(w) : <<"INCIDENT", Incident(w, k)>> \in rows'
  BY <1>1 DEF ChunkInv
<1>3. pc[w] \notin {"idle", "loading"}
  BY <1>1 DEF Active
<1> QED BY <1>1, <1>2, <1>3, AdvanceKeeps

(* An insert takes a place that is free.                                   *)
LEMMA InsertApart ==
  ASSUME NEW w \in Workers, TypeOK, ApartInv, NEW r \in NextWrite(w), Free(w), Insert(w, r),
         UNCHANGED rows
  PROVE  ApartInv'
<1>1. mine'[w] = mine[w] \cup ({Place(r)} \ rows) /\ \A v \in Workers \ {w} : mine'[v] = mine[v]
  BY DEF Insert, TypeOK
<1>2. \A v \in Workers \ {w} : Place(r) \notin mine[v]
  BY DEF Free, HeldBy
<1>3. \A v \in Workers : mine'[v] \cap rows = {}
  BY <1>1 DEF ApartInv
<1>4. ASSUME NEW v \in Workers, NEW u \in Workers \ {v} PROVE mine'[u] \cap mine'[v] = {}
  BY <1>1, <1>2 DEF ApartInv
<1> QED BY <1>3, <1>4 DEF ApartInv

(* Steps that leave the rows and the world alone.                          *)
LEMMA RowsStay ==
  ASSUME UNCHANGED rows, EverGrows, RowsInv
  PROVE  RowsInv'
BY DEF RowsInv, Together, JobsExplained, JobUnlessExplained, WatermarkKept, BothOnlyJoining,
       EverGrows, Has, Decided
-----------------------------------------------------------------------------
(* The invariant.                                                          *)

LEMMA IInvInit == Init => IInv
<1> SUFFICES ASSUME Init PROVE IInv
  OBVIOUS
<1>1. TypeOK
  BY TypeInit
<1>2. FindingInv /\ SettingsInv
  BY DEF Init, FindingInv, SettingsInv, NoFinding
<1>3. ApartInv
  BY DEF Init, ApartInv
<1>4. RowsInv
  BY DEF Init, RowsInv, Together, JobsExplained, JobUnlessExplained, WatermarkKept,
         BothOnlyJoining, Has, Decided
<1>5. ASSUME NEW w \in Workers PROVE WorkerInv(w)
  <2>1. pc[w] = "idle" /\ tick[w] = NoTick /\ mine[w] = {}
    BY DEF Init
  <2> QED BY <2>1 DEF WorkerInv, ReadInv, RestInv, ChunkInv, FitInv, Active, NoTick
<1> QED BY <1>1, <1>2, <1>3, <1>4, <1>5 DEF IInv

(* A step of w, its own part of the invariant known.                       *)
LEMMA WorkerStep ==
  ASSUME IInv, TypeOK', NEW w \in Workers, UNCHANGED world, rows \subseteq rows',
         \A v \in Workers \ {w} : /\ mine'[v] = mine[v] /\ tick'[v] = tick[v]
                                  /\ pc'[v] = pc[v] /\ base'[v] = base[v],
         WorkerInv(w)', ApartInv', RowsInv'
  PROVE  IInv'
<1>1. EverGrows
  BY DEF EverGrows, world
<1>2. ASSUME NEW v \in Workers \ {w} PROVE WorkerInv(v)'
  BY <1>1, OthersKeep DEF IInv
<1>3. FindingInv' /\ SettingsInv'
  BY DEF IInv, FindingInv, SettingsInv, Recorded, world
<1> QED BY <1>2, <1>3 DEF IInv

LEMMA ProgressKeeps ==
  ASSUME IInv, TypeOK', NEW w \in Workers, Progress(w)
  PROVE  IInv'
<1>1. TypeOK /\ ApartInv /\ RowsInv /\ Together /\ WorkerInv(w) /\ FindingInv /\ SettingsInv
  BY DEF IInv, RowsInv
<1> DEFINE Others == \A v \in Workers \ {w} : /\ mine'[v] = mine[v] /\ tick'[v] = tick[v]
                                              /\ pc'[v] = pc[v] /\ base'[v] = base[v]
<1>2. UNCHANGED world => EverGrows
  BY DEF world, EverGrows
<1>3. UNCHANGED <<rows, mine>> => ApartInv'
  BY <1>1 DEF ApartInv
<1>4. CASE Begin(w)
  <2>1. Others /\ UNCHANGED <<world, rows, mine>>
    BY <1>1, <1>4 DEF Begin, TypeOK
  <2>2. WorkerInv(w)'
    BY <1>1, <1>4, BeginKeeps
  <2> QED BY <1>1, <1>2, <1>3, <2>1, <2>2, RowsStay, WorkerStep
<1>5. ASSUME NEW q \in Queries, Load(w, q) PROVE IInv'
  <2>1. Others /\ UNCHANGED <<world, rows, mine>>
    BY <1>1, <1>5 DEF Load, TypeOK
  <2>2. WorkerInv(w)'
    BY <1>1, <1>5, LoadKeeps
  <2> QED BY <1>1, <1>2, <1>3, <2>1, <2>2, RowsStay, WorkerStep
<1>6. CASE Decide(w)
  <2>1. Others /\ UNCHANGED <<world, rows, mine>>
    BY <1>1, <1>6 DEF Decide, Advance, TypeOK
  <2>2. WorkerInv(w)'
    BY <1>1, <1>6, DecideKeeps
  <2> QED BY <1>1, <1>2, <1>3, <2>1, <2>2, RowsStay, WorkerStep
<1>7. CASE Statement(w)
  <2>1. Others /\ UNCHANGED <<world, rows>>
    BY <1>1, <1>7 DEF Statement, Insert, Done, TypeOK
  <2>2. WorkerInv(w)'
    BY <1>1, <1>7, StatementKeeps
  <2>3. ApartInv'
    BY <1>1, <1>3, <1>7, <2>1, InsertApart DEF Statement
  <2> QED BY <1>1, <1>2, <2>1, <2>2, <2>3, RowsStay, WorkerStep
<1>8. CASE Resume(w)
  <2>1. Others /\ UNCHANGED <<world, rows>>
    BY <1>1, <1>8 DEF Resume, Insert, Done, TypeOK
  <2>2. WorkerInv(w)'
    BY <1>1, <1>8, ResumeKeeps
  <2>3. ApartInv'
    BY <1>1, <1>8, <2>1, InsertApart DEF Resume
  <2> QED BY <1>1, <1>2, <2>1, <2>2, <2>3, RowsStay, WorkerStep
<1>9. CASE Commit(w)
  <2>1. Others /\ UNCHANGED world /\ rows \subseteq rows'
    BY <1>1, <1>9 DEF Commit, Advance, TypeOK
  <2>2. WorkerInv(w)'
    BY <1>1, <1>9, CommitKeeps
  <2>3. ApartInv'
    BY <1>1, <1>9 DEF Commit, ApartInv, TypeOK
  <2>4. RowsInv'
    BY <1>1, <1>9, CommitLeaves
  <2> QED BY <2>1, <2>2, <2>3, <2>4, WorkerStep
<1>10. CASE Abandon(w)
  <2>1. Others /\ UNCHANGED <<world, rows>>
    BY <1>1, <1>10 DEF Abandon, TypeOK
  <2>2. WorkerInv(w)'
    BY <1>1, <1>10, AbandonKeeps
  <2>3. ApartInv'
    BY <1>1, <1>10 DEF Abandon, ApartInv, TypeOK
  <2> QED BY <1>1, <1>2, <2>1, <2>2, <2>3, RowsStay, WorkerStep
<1> QED
  BY <1>4, <1>5, <1>6, <1>7, <1>8, <1>9, <1>10 DEF Progress, BreakDeadlock

(* Whatever happens to the findings and the settings is on record.         *)
LEMMA WorldKeeps ==
  ASSUME IInv, TypeOK', World
  PROVE  IInv'
<1>1. TypeOK /\ FindingInv /\ SettingsInv /\ RowsInv /\ ApartInv
  BY DEF IInv
<1>2. UNCHANGED <<rows, mine, pc, tick, base>>
  BY DEF World, PublishNative, Evaluate, Observe, CloseNative, SetDisposition, SetRecipient, Clock
<1>3. ASSUME NEW f \in Findings, NEW state, NEW o \in Times, Observe(f, state, o)
      PROVE  EverGrows /\ FindingInv' /\ SettingsInv'
  <2>1. EverGrows /\ SettingsInv'
    BY <1>1, <1>3 DEF Observe, EverGrows, SettingsInv, TypeOK
  <2>2. Recorded(f, o)'
    BY <1>1, <1>3 DEF Observe, Recorded, TypeOK
  <2>3. ASSUME NEW g \in Findings, finding'[g].state # "ABSENT" PROVE Recorded(g, finding[g].observed)'
    <3>1. CASE g = f
      <4>1. finding'[g].observed = o
        BY <1>1, <1>3, <3>1 DEF Observe, TypeOK
      <4> QED BY <2>2, <3>1, <4>1 DEF Recorded
    <3>2. CASE g # f
      <4>1. finding'[g] = finding[g]
        BY <1>1, <1>3, <3>2 DEF Observe, TypeOK
      <4>2. Recorded(g, finding[g].observed)
        BY <1>1, <2>3, <4>1 DEF FindingInv
      <4> QED BY <2>1, <4>1, <4>2 DEF Recorded, EverGrows
    <3> QED BY <3>1, <3>2
  <2> QED BY <2>1, <2>3 DEF FindingInv
<1>4. ASSUME NEW f \in Findings, CloseNative(f) PROVE EverGrows /\ FindingInv' /\ SettingsInv'
  <2>1. \A g \in Findings : /\ finding'[g].observed = finding[g].observed
                            /\ finding[g].state = "ABSENT" => finding'[g].state = "ABSENT"
    BY <1>1, <1>4 DEF CloseNative, TypeOK, FindingRecord
  <2> QED BY <1>1, <1>4, <2>1 DEF CloseNative, EverGrows, FindingInv, Recorded, SettingsInv
<1>5. ASSUME NEW d \in Tiers, SetDisposition(d) PROVE EverGrows /\ FindingInv' /\ SettingsInv'
  BY <1>1, <1>5 DEF SetDisposition, EverGrows, FindingInv, Recorded, SettingsInv, TypeOK
<1>6. ASSUME NEW b \in BOOLEAN, SetRecipient(b) PROVE EverGrows /\ FindingInv' /\ SettingsInv'
  BY <1>1, <1>6 DEF SetRecipient, EverGrows, FindingInv, Recorded, SettingsInv, TypeOK
<1>7. ASSUME Clock PROVE EverGrows /\ FindingInv' /\ SettingsInv'
  BY <1>1, <1>7 DEF Clock, EverGrows, FindingInv, Recorded, SettingsInv
<1>8. EverGrows /\ FindingInv' /\ SettingsInv'
  BY <1>3, <1>4, <1>5, <1>6, <1>7 DEF World, PublishNative, Evaluate
<1>9. ASSUME NEW w \in Workers PROVE WorkerInv(w)'
  BY <1>1, <1>2, <1>8, OthersKeep DEF IInv
<1>10. ApartInv' /\ RowsInv'
  BY <1>1, <1>2, <1>8, RowsStay DEF ApartInv
<1> QED BY <1>8, <1>9, <1>10 DEF IInv

LEMMA IInvStep == IInv /\ [Next]_vars => IInv'
<1> SUFFICES ASSUME IInv, [Next]_vars PROVE IInv'
  OBVIOUS
<1>1. TypeOK'
  BY TypeStep DEF IInv
<1>2. ASSUME NEW w \in Workers, EndTick(w) PROVE IInv'
  <2>1. Abandon(w) /\ TypeOK /\ ApartInv /\ RowsInv
    BY <1>2 DEF EndTick, IInv
  <2>2. /\ \A v \in Workers \ {w} : /\ mine'[v] = mine[v] /\ tick'[v] = tick[v]
                                    /\ pc'[v] = pc[v] /\ base'[v] = base[v]
        /\ UNCHANGED <<world, rows>>
    BY <2>1 DEF Abandon, TypeOK
  <2>3. WorkerInv(w)'
    BY <2>1, AbandonKeeps
  <2>4. ApartInv'
    BY <2>1 DEF Abandon, ApartInv, TypeOK
  <2>5. RowsInv'
    <3>1. EverGrows
      BY <2>2 DEF EverGrows, world
    <3> QED BY <2>1, <2>2, <3>1, RowsStay
  <2> QED BY <1>1, <2>2, <2>3, <2>4, <2>5, WorkerStep
<1>3. CASE UNCHANGED vars
  <2>1. EverGrows /\ UNCHANGED <<now, finding, tier, reachable, ever, rows, mine, pc, tick, base>>
    BY <1>3 DEF vars, world, EverGrows
  <2>2. ASSUME NEW w \in Workers PROVE WorkerInv(w)'
    BY <2>1, OthersKeep DEF IInv
  <2>3. ApartInv' /\ RowsInv'
    BY <2>1, RowsStay DEF IInv, ApartInv
  <2> QED BY <1>1, <2>1, <2>2, <2>3 DEF IInv, FindingInv, SettingsInv, Recorded
<1> QED BY <1>1, <1>2, <1>3, ProgressKeeps, WorldKeeps DEF Next

LEMMA Invariance == Spec => []IInv
BY IInvInit, IInvStep, PTL DEF Spec
-----------------------------------------------------------------------------
(* The rows that runIntake commits and the local variables of every tick   *)
(* keep their shape.                                                       *)
THEOREM TypeCorrect == Spec => []TypeOK
BY Invariance, PTL DEF IInv

(* Whichever ticks of runIntake overlap, yield, fail, wait or die where: an*)
(* incident is there exactly when one of its findings was decided, and a   *)
(* job has its incident.                                                   *)
THEOREM RowsTogether == Spec => []Together
BY Invariance, PTL DEF IInv, RowsInv

(* An incident has its job, or there is a reason on record why not; and no *)
(* job is about evidence that is all older than the watermark.             *)
THEOREM JobsHaveReasons == Spec => []JobsExplained
BY Invariance, PTL DEF IInv, RowsInv

(* Ticks that disagree on the disposition leave a finding both told and    *)
(* withheld only when another finding had opened its incident: the NOT     *)
(* EXISTS of the two statements and the row of the incident see to it.     *)
THEOREM BothJoin == Spec => []BothOnlyJoining
BY Invariance, PTL DEF IInv, RowsInv

(* No transaction of runIntake writes the opposite of a decision that was  *)
(* durable when it began, however old its tick's reads are.                *)
THEOREM Durable == Spec => DecisionsDurable
<1>1. ASSUME IInv, [Next]_vars
      PROVE  [\A w \in Workers, f \in Findings :
                LET written == (rows' \ rows) \cap mine[w]
                IN /\ <<"NOTICE", f>> \in written => <<"WITHHELD", f>> \notin base[w]
                   /\ <<"WITHHELD", f>> \in written => <<"NOTICE", f>> \notin base[w]]_vars
  <2>1. ASSUME NEW w \in Workers, NEW f \in Findings
        PROVE  /\ <<"NOTICE", f>> \in mine[w] => <<"WITHHELD", f>> \notin base[w]
               /\ <<"WITHHELD", f>> \in mine[w] => <<"NOTICE", f>> \notin base[w]
    BY <1>1 DEF IInv, WorkerInv, FitInv, Fit, Told, Opposite
  <2> QED BY <2>1
<1> QED BY <1>1, Invariance, PTL DEF Spec, DecisionsDurable
=============================================================================
