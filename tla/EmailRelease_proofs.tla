------------------------- MODULE EmailRelease_proofs -------------------------
(***************************************************************************)
(* Theorems about EmailRelease for any number of processes, messages and   *)
(* activations, any settings, and any durations in the order that          *)
(* DurationAssumption states.                                              *)
(***************************************************************************)
EXTENDS EmailRelease, TLAPS

-----------------------------------------------------------------------------
(* Types of the helpers.                                                   *)

\* A job row given back in some state is still a job row.
LEMMA ReleasedType ==
  ASSUME NEW m \in Messages, NEW s \in Terminal \cup Claims, job[m] \in JobRecord
  PROVE  Released(m, s) \in JobRecord
BY DEF Released, JobRecord

\* Backing off yields an instant.
LEMMA BackoffType == ASSUME NEW n \in Nat PROVE Backoff(n) \in Int
BY DurationAssumption DEF Backoff, Smaller

\* What the settings of a process are made of.
LEMMA ConfigType ==
  ASSUME NEW c \in Configs
  PROVE  /\ c.mode \in Modes /\ c.act \in Activations /\ c.rcpt \in Addresses
         /\ c.starts \in Nat /\ c.ends \in Nat
BY ConfigAssumption DEF ConfigRecord

LEMMA DurationTypes ==
  /\ Budget \in Nat /\ OpenBudget \in Nat /\ SendBudget \in Nat /\ Timeout \in Nat
  /\ Lease \in Nat /\ OpenMargin \in Nat /\ SendMargin \in Nat /\ ExpirySlack \in Nat
  /\ Hour \in Nat /\ DeferDelay \in Nat /\ MaxAttempts \in Nat \ {0}
  /\ RetryDelays \subseteq Nat
  /\ Timeout <= SendBudget /\ Budget < Lease
BY DurationAssumption, LimitAssumption

\* The clock shows an instant.
LEMMA NowType == ASSUME now \in Times PROVE now \in Nat /\ now > 0
BY LimitAssumption DEF Times

\* A process that ends its pass keeps its shape.
LEMMA FinishType ==
  ASSUME ProcessOK, NEW w \in Workers, Finish(w)
  PROVE  ProcessOK'
BY LimitAssumption DEF ProcessOK, Finish, NoPass, PassRecord, Stages

\* Stopping and deferring keep the shape of the jobs.
LEMMA StopType ==
  ASSUME job \in [Messages -> JobRecord], NEW m \in Messages, NEW w, StopJob(m, w)
  PROVE  job' \in [Messages -> JobRecord]
<1>1. Released(m, "WITHDRAWN") \in JobRecord
  BY ReleasedType DEF Terminal
<1>2. QED
  BY <1>1 DEF StopJob

LEMMA DeferType ==
  ASSUME job \in [Messages -> JobRecord], now \in Times,
         NEW m \in Messages, NEW w, DeferJob(m, w)
  PROVE  job' \in [Messages -> JobRecord]
<1> DEFINE r == Released(m, "READY")
<1>1. r \in JobRecord
  BY ReleasedType DEF Claims
<1>2. now + DeferDelay \in Int
  BY DurationAssumption DEF Times
<1>3. [r EXCEPT !.notBefore = Larger(@, now + DeferDelay)] \in JobRecord
  BY <1>1, <1>2 DEF JobRecord, Larger
<1>4. QED
  BY <1>3 DEF DeferJob

\* What an action leaves alone keeps its shape.
LEMMA Frames ==
  /\ DatabaseOK /\ UNCHANGED database => DatabaseOK'
  /\ ProcessOK /\ UNCHANGED process => ProcessOK'
  /\ ConsentOK /\ UNCHANGED consent => ConsentOK'
  /\ ProviderOK /\ UNCHANGED provider => ProviderOK'
  /\ ReportOK /\ UNCHANGED report => ReportOK'
BY DEF DatabaseOK, ProcessOK, ConsentOK, ProviderOK, ReportOK,
       database, process, consent, provider

\* Moving to the next await keeps the shape of the processes.
LEMMA StepType ==
  ASSUME ProcessOK, NEW w \in Workers, NEW to \in Stages, Step(w, to)
  PROVE  ProcessOK'
BY DEF ProcessOK, Step
-----------------------------------------------------------------------------
(* Every action keeps the types.                                           *)

LEMMA BeginType == ASSUME TypeOK, NEW w \in Workers, Begin(w) PROVE TypeOK'
<1>1. now + Budget \in Nat
  BY DurationTypes DEF TypeOK, Times
<1>2. ProcessOK'
  BY <1>1 DEF TypeOK, ProcessOK, Begin, PassRecord, Stages
<1>3. QED
  BY <1>2, Frames DEF TypeOK, Begin

LEMMA CloseEpochType == ASSUME TypeOK, NEW w \in Workers, CloseEpoch(w) PROVE TypeOK'
<1>1. cfg[w].act \in Activations
  BY ConfigType DEF TypeOK, ProcessOK
<1>2. [epoch[cfg[w].act] EXCEPT !.closed = now] \in EpochRecord
  <2>1. now \in Nat
    BY NowType DEF TypeOK
  <2>2. epoch[cfg[w].act] \in EpochRecord
    BY <1>1 DEF TypeOK, DatabaseOK
  <2>3. QED
    BY <2>1, <2>2 DEF EpochRecord
<1>3. DatabaseOK'
  BY <1>1, <1>2 DEF TypeOK, DatabaseOK, CloseEpoch
<1>4. QED
  BY <1>3, Frames DEF TypeOK, CloseEpoch

LEMMA EndPassType == ASSUME TypeOK, NEW w \in Workers, EndPass(w) PROVE TypeOK'
BY FinishType, Frames DEF TypeOK, EndPass

LEMMA ResolveType == ASSUME TypeOK, NEW w \in Workers, Resolve(w) PROVE TypeOK'
<1>1. Step(w, "opening") \/ Step(w, "withdrawing")
  BY DEF Resolve
<1>2. ProcessOK'
  BY <1>1, StepType DEF TypeOK, Stages
<1>3. QED
  BY <1>2, Frames DEF TypeOK, Resolve

LEMMA RecheckType == ASSUME TypeOK, NEW w \in Workers, Recheck(w) PROVE TypeOK'
<1>1. Step(w, "vetoing") \/ Step(w, "withdrawing")
  BY DEF Recheck
<1>2. ProcessOK'
  BY <1>1, StepType DEF TypeOK, Stages
<1>3. QED
  BY <1>2, Frames DEF TypeOK, Recheck

LEMMA MaySendType == ASSUME TypeOK, NEW w \in Workers, MaySend(w) PROVE TypeOK'
<1>1. Step(w, "cleared") \/ Step(w, "withdrawing")
  BY DEF MaySend
<1>2. ProcessOK'
  BY <1>1, StepType DEF TypeOK, Stages
<1>3. QED
  BY <1>2, Frames DEF TypeOK, MaySend

LEMMA AnswerType ==
  ASSUME TypeOK, NEW w \in Workers, NEW reply \in Replies, Answer(w, reply)
  PROVE  TypeOK'
<1>1. ProcessOK'
  BY DEF TypeOK, ProcessOK, Answer, PassRecord, Stages
<1>2. QED
  BY <1>1, Frames DEF TypeOK, Answer

LEMMA ProviderType == ASSUME TypeOK, NEW r \in wire, Provider(r) PROVE TypeOK'
<1>1. ProviderOK'
  BY DEF TypeOK, ProviderOK, Provider, RequestRecord
<1>2. QED
  BY <1>1, Frames DEF TypeOK, Provider

LEMMA EnqueueType == ASSUME TypeOK, NEW m \in Messages, Enqueue(m) PROVE TypeOK'
<1>1. NewJob \in JobRecord
  BY LimitAssumption DEF TypeOK, NewJob, JobRecord, Claims, Times
<1>2. job' \in [Messages -> JobRecord]
  BY <1>1 DEF TypeOK, DatabaseOK, Enqueue
<1>3. DatabaseOK' /\ ConsentOK'
  BY <1>2 DEF TypeOK, DatabaseOK, ConsentOK, Enqueue
<1>4. QED
  BY <1>3, Frames DEF TypeOK, Enqueue

LEMMA CancelType == ASSUME TypeOK, NEW b \in Nat, Cancel(b) PROVE TypeOK'
<1>1. \A m \in Messages : Released(m, "CANCELLED") \in JobRecord
  BY ReleasedType DEF TypeOK, DatabaseOK, Terminal
<1>2. job' \in [Messages -> JobRecord]
  BY <1>1 DEF TypeOK, DatabaseOK, Cancel
<1>3. ReportOK'
  BY DEF TypeOK, ReportOK, Cancel, Verdict
<1>4. DatabaseOK' /\ changes' \in Nat
  BY <1>2 DEF TypeOK, DatabaseOK, Cancel, Change
<1>5. QED
  BY <1>3, <1>4, Frames DEF TypeOK, Cancel

LEMMA ReconfigureType ==
  ASSUME TypeOK, NEW w \in Workers, NEW c \in Configs, Reconfigure(w, c)
  PROVE  TypeOK'
<1>1. ProcessOK' /\ changes' \in Nat
  BY DEF TypeOK, ProcessOK, Reconfigure, Change
<1>2. QED
  BY <1>1, Frames DEF TypeOK, Reconfigure

LEMMA SavePreferencesType ==
  ASSUME TypeOK, NEW b \in BOOLEAN, SavePreferences(b)
  PROVE  TypeOK'
<1>1. ConsentOK' /\ changes' \in Nat
  BY DEF TypeOK, ConsentOK, SavePreferences, Change, Times
<1>2. QED
  BY <1>1, Frames DEF TypeOK, SavePreferences

LEMMA ChangeOwnerType ==
  ASSUME TypeOK, NEW a \in Addresses \cup {None}, ChangeOwner(a)
  PROVE  TypeOK'
<1>1. ConsentOK' /\ changes' \in Nat
  BY DEF TypeOK, ConsentOK, ChangeOwner, Change
<1>2. QED
  BY <1>1, Frames DEF TypeOK, ChangeOwner

LEMMA ChangeStandingType ==
  ASSUME TypeOK, NEW m \in Messages, ChangeStanding(m)
  PROVE  TypeOK'
<1>1. ConsentOK' /\ changes' \in Nat
  BY DEF TypeOK, ConsentOK, ChangeStanding, Change
<1>2. QED
  BY <1>1, Frames DEF TypeOK, ChangeStanding

LEMMA TickType == ASSUME TypeOK, Tick PROVE TypeOK'
<1>1. now' \in Times /\ ConsentOK'
  BY LimitAssumption DEF TypeOK, ConsentOK, Tick, Times
<1>2. QED
  BY <1>1, Frames DEF TypeOK, Tick

\* Taking a claim, with the envelope and the key it may bring, keeps the shapes.
LEMMA TakeType ==
  ASSUME TypeOK, NEW w \in Workers, NEW m \in Messages, NEW mode \in Modes,
         NEW starts \in Nat, NEW expires \in Nat, Take(w, m, mode, starts, expires)
  PROVE  /\ job' \in [Messages -> JobRecord]
         /\ envelope' \in [Messages -> EnvelopeRecord]
         /\ minted' \in Nat
         /\ ProcessOK'
<1> USE DEF TypeOK
<1>1. job' \in [Messages -> JobRecord]
  <2>1. job[m] \in JobRecord /\ now + Lease \in Nat
    BY NowType, DurationTypes DEF DatabaseOK
  <2>2. Claimed(m, w) \in JobRecord
    BY <2>1 DEF Claimed, JobRecord, Claims
  <2>3. QED
    BY <2>2 DEF Take, DatabaseOK
<1>2. envelope' \in [Messages -> EnvelopeRecord] /\ minted' \in Nat
  <2>1. CASE HasEnvelope(m)
    BY <2>1 DEF Take, DatabaseOK
  <2>2. CASE ~HasEnvelope(m)
    <3> DEFINE v == [key |-> minted + 1, mode |-> mode, act |-> cfg[w].act,
                     rcpt |-> cfg[w].rcpt, starts |-> starts, created |-> now,
                     expires |-> expires, body |-> None, pid |-> 0]
    <3>1. v \in EnvelopeRecord
      BY NowType, ConfigType DEF ProcessOK, DatabaseOK, EnvelopeRecord
    <3>2. envelope' = [envelope EXCEPT ![m] = v] /\ minted' = minted + 1
      BY <2>2 DEF Take
    <3> HIDE DEF v
    <3>3. QED
      BY <3>1, <3>2 DEF DatabaseOK
  <2>3. QED
    BY <2>1, <2>2
<1>3. ProcessOK'
  <2>1. job[m].made \in 0..MaxAttempts /\ pass[w] \in PassRecord
    BY DEF DatabaseOK, ProcessOK, JobRecord
  <2>2. [pass[w] EXCEPT !.msg = m, !.made = job[m].made] \in PassRecord
    BY <2>1 DEF PassRecord
  <2>3. pass' = [pass EXCEPT ![w] = [pass[w] EXCEPT !.msg = m, !.made = job[m].made]]
    BY <2>1 DEF Take, ProcessOK
  <2>4. QED
    BY <2>2, <2>3 DEF Take, ProcessOK, Stages
<1>4. QED
  BY <1>1, <1>2, <1>3

LEMMA ClaimRegularType == ASSUME TypeOK, NEW w \in Workers, ClaimRegular(w) PROVE TypeOK'
<1> USE DEF TypeOK
<1> DEFINE c == cfg[w]
           e == EpochFor(c)
           S == Candidates(c, e)
<1>1. /\ c.act \in Activations /\ c.rcpt \in Addresses /\ c.starts \in Nat
  BY ConfigType DEF ProcessOK
<1>2. e \in EpochRecord
  BY <1>1, NowType DEF EpochFor, NoEpoch, EpochRecord, DatabaseOK, Larger
<1>3. epoch' \in [Activations -> EpochRecord]
  BY <1>1, <1>2 DEF ClaimRegular, DatabaseOK
<1>4. S \subseteq Messages
  BY DEF Candidates
<1>5. /\ job' \in [Messages -> JobRecord] /\ envelope' \in [Messages -> EnvelopeRecord]
      /\ minted' \in Nat /\ ProcessOK'
  <2>1. CASE Finish(w) /\ UNCHANGED <<job, envelope, minted>>
    BY <2>1, FinishType DEF DatabaseOK
  <2>2. CASE \E m \in Heads(S) : AdmitHead(w, m, e)
    <3>1. PICK m \in Heads(S) : AdmitHead(w, m, e)
      BY <2>2
    <3>2. m \in Messages
      BY <1>4 DEF Heads
    <3>3. CASE StopJob(m, None) /\ Finish(w) /\ UNCHANGED <<envelope, minted>>
      BY <3>2, <3>3, StopType, FinishType DEF DatabaseOK
    <3>4. CASE DeferJob(m, None) /\ Finish(w) /\ UNCHANGED <<envelope, minted>>
      BY <3>2, <3>4, DeferType, FinishType DEF DatabaseOK
    <3>5. CASE Take(w, m, "regular", now, now + Hour)
      <4>1. "regular" \in Modes /\ now \in Nat /\ now + Hour \in Nat
        BY NowType, DurationTypes DEF Modes
      <4>2. QED
        BY <3>2, <3>5, <4>1, TakeType
    <3>6. QED
      BY <3>1, <3>3, <3>4, <3>5 DEF AdmitHead
  <2>3. QED
    BY <2>1, <2>2 DEF ClaimRegular
<1>6. DatabaseOK'
  BY <1>3, <1>5 DEF ClaimRegular, DatabaseOK
<1>7. QED
  BY <1>5, <1>6, Frames DEF ClaimRegular

LEMMA ClaimControlledType ==
  ASSUME TypeOK, NEW w \in Workers, ClaimControlled(w)
  PROVE  TypeOK'
<1> USE DEF TypeOK
<1> DEFINE c == cfg[w]
           kept == /\ job' \in [Messages -> JobRecord] /\ minted' \in Nat
                   /\ envelope' \in [Messages -> EnvelopeRecord] /\ ProcessOK'
<1>1. c.starts \in Nat /\ c.ends \in Nat /\ "controlled" \in Modes
  BY ConfigType DEF ProcessOK, Modes
<1>2. Heads(Fresh(c)) \subseteq Messages /\ Bound(c) \subseteq Messages
  BY DEF Heads, Fresh, Bound
<1>3. kept
  <2>1. ASSUME NEW m \in Messages, Take(w, m, "controlled", c.starts, c.ends)
        PROVE  kept
    BY <1>1, <2>1, TakeType
  <2>2. ASSUME NEW m \in Messages, job' = [job EXCEPT ![m] = Released(m, "EXHAUSTED")],
               Finish(w), UNCHANGED <<envelope, minted>>
        PROVE  kept
    <3>1. Released(m, "EXHAUSTED") \in JobRecord
      BY ReleasedType DEF DatabaseOK, Terminal
    <3>2. QED
      BY <2>2, <3>1, FinishType DEF DatabaseOK
  <2>3. QED
    BY <1>2, <2>1, <2>2 DEF ClaimControlled
<1>4. DatabaseOK'
  BY <1>3 DEF ClaimControlled, DatabaseOK
<1>5. QED
  BY <1>3, <1>4, Frames DEF ClaimControlled

\* A reservation keeps the shapes; its number is a legal one.
LEMMA ReserveType ==
  ASSUME TypeOK, NEW w \in Workers, pass[w].msg \in Messages,
         Reservable(w), Reserve(w)
  PROVE  /\ Number(w) \in 1..MaxAttempts
         /\ job' \in [Messages -> JobRecord]
         /\ envelope' \in [Messages -> EnvelopeRecord]
         /\ attempt' \in [Messages -> [1..MaxAttempts -> AttemptRecord]]
         /\ ProcessOK'
<1> USE DEF TypeOK
<1> DEFINE m == pass[w].msg
<1>1. /\ job[m] \in JobRecord /\ envelope[m] \in EnvelopeRecord
      /\ attempt[m] \in [1..MaxAttempts -> AttemptRecord] /\ pass[w] \in PassRecord
  BY DEF DatabaseOK, ProcessOK
<1>2. Number(w) \in 1..MaxAttempts /\ job[m].made + 1 \in 0..MaxAttempts
  <2>1. job[m].made \in 0..MaxAttempts
    BY <1>1 DEF JobRecord
  <2>2. job[m].made = pass[w].made /\ job[m].made < MaxAttempts
    BY DEF Reservable
  <2>3. QED
    BY <2>1, <2>2, DurationTypes DEF Number
<1>3. Reserved(m, Number(w)) \in JobRecord
  <2>1. now + Backoff(Number(w)) \in Int
    BY <1>2, NowType, BackoffType
  <2>2. QED
    BY <1>1, <1>2, <2>1 DEF Reserved, JobRecord
<1>4. job' \in [Messages -> JobRecord]
  BY <1>3 DEF Reserve, DatabaseOK
<1>5. envelope' \in [Messages -> EnvelopeRecord]
  <2>1. PICK b \in Bodies : envelope' = [envelope EXCEPT ![m].body = Frozen(m, b)]
    BY DEF Reserve
  <2>2. Frozen(m, b) \in Bodies \cup {None}
    BY <1>1 DEF Frozen, EnvelopeRecord
  <2>3. [envelope[m] EXCEPT !.body = Frozen(m, b)] \in EnvelopeRecord
    BY <1>1, <2>2 DEF EnvelopeRecord
  <2>4. QED
    BY <2>1, <2>3 DEF DatabaseOK
<1>6. attempt' \in [Messages -> [1..MaxAttempts -> AttemptRecord]]
  <2> DEFINE a == [at |-> now, kind |-> "OPEN"]
  <2>1. a \in AttemptRecord
    BY NowType DEF AttemptRecord
  <2>2. attempt' = [attempt EXCEPT ![m] = [attempt[m] EXCEPT ![Number(w)] = a]]
    BY DEF Reserve, DatabaseOK
  <2> HIDE DEF a
  <2>3. [attempt[m] EXCEPT ![Number(w)] = a] \in [1..MaxAttempts -> AttemptRecord]
    BY <1>1, <2>1
  <2>4. QED
    BY <2>2, <2>3 DEF DatabaseOK
<1>7. ProcessOK'
  <2>1. envelope[m].key \in Nat /\ envelope'[m].body \in Bodies \cup {None}
    BY <1>1, <1>5 DEF EnvelopeRecord
  <2>2. [pass[w] EXCEPT !.key = envelope[m].key, !.body = envelope'[m].body] \in PassRecord
    BY <1>1, <2>1 DEF PassRecord
  <2>3. pass' = [pass EXCEPT ![w] =
                   [pass[w] EXCEPT !.key = envelope[m].key, !.body = envelope'[m].body]]
    BY DEF Reserve, ProcessOK
  <2>4. QED
    BY <2>2, <2>3 DEF Reserve, ProcessOK, Stages
<1>8. QED
  BY <1>2, <1>4, <1>5, <1>6, <1>7

LEMMA OpenType ==
  ASSUME TypeOK, NEW w \in Workers, pass[w].msg \in Messages, Open(w)
  PROVE  TypeOK'
<1> USE DEF TypeOK
<1> DEFINE m == pass[w].msg
           kept == /\ job' \in [Messages -> JobRecord]
                   /\ envelope' \in [Messages -> EnvelopeRecord]
                   /\ attempt' \in [Messages -> [1..MaxAttempts -> AttemptRecord]]
                   /\ ProcessOK'
<1>1. kept
  <2>1. CASE StopJob(m, w) /\ Finish(w) /\ UNCHANGED <<envelope, attempt>>
    BY <2>1, StopType, FinishType DEF DatabaseOK
  <2>2. CASE DeferJob(m, w) /\ Finish(w) /\ UNCHANGED <<envelope, attempt>>
    BY <2>2, DeferType, FinishType DEF DatabaseOK
  <2>3. CASE Step(w, "withdrawing") /\ UNCHANGED <<job, envelope, attempt>>
    BY <2>3, StepType DEF DatabaseOK, Stages
  <2>4. CASE Reservable(w) /\ Reserve(w)
    BY <2>4, ReserveType
  <2>5. QED
    BY <2>1, <2>2, <2>3, <2>4 DEF Open
<1>2. DatabaseOK'
  BY <1>1 DEF Open, DatabaseOK
<1>3. QED
  BY <1>1, <1>2, Frames DEF Open

LEMMA SendType ==
  ASSUME TypeOK, NEW w \in Workers, pass[w].msg \in Messages, Send(w)
  PROVE  TypeOK'
<1> USE DEF TypeOK
<1>1. CASE Step(w, "withdrawing") /\ UNCHANGED <<wire, sent>>
  <2>1. ProcessOK' /\ ProviderOK'
    BY <1>1, StepType DEF Send, Stages, ProviderOK
  <2>2. QED
    BY <2>1, Frames DEF Send
<1>2. CASE Runnable(cfg[w])
  <2>1. pass[w] \in PassRecord /\ cfg[w].rcpt \in Addresses
    BY ConfigType DEF ProcessOK
  <2>2. Request(w) \in RequestRecord
    BY <2>1 DEF Request, Number, RequestRecord, PassRecord
  <2>3. now + Timeout \in Nat
    BY NowType, DurationTypes
  <2>4. [pass[w] EXCEPT !.until = now + Timeout] \in PassRecord
    BY <2>1, <2>3 DEF PassRecord
  <2>5. ProcessOK'
    BY <1>2, <2>4 DEF Send, ProcessOK, Stages
  <2>6. ProviderOK'
    BY <1>2, <2>2 DEF Send, ProviderOK
  <2>7. QED
    BY <2>5, <2>6, Frames DEF Send
<1>3. QED
  BY <1>1, <1>2 DEF Send

LEMMA WithdrawType ==
  ASSUME TypeOK, NEW w \in Workers, pass[w].msg \in Messages, Withdraw(w)
  PROVE  TypeOK'
<1> USE DEF TypeOK
<1> DEFINE m == pass[w].msg
<1>1. Released(m, "WITHDRAWN") \in JobRecord
  BY ReleasedType DEF DatabaseOK, Terminal
<1>2. MarkNotSent(m, Number(w)) \in [1..MaxAttempts -> AttemptRecord]
  <2>1. \A n \in 1..MaxAttempts :
          /\ attempt[m][n] \in AttemptRecord
          /\ [attempt[m][n] EXCEPT !.kind = "NOT_SENT"] \in AttemptRecord
    <3>1. attempt[m] \in [1..MaxAttempts -> AttemptRecord]
      BY DEF DatabaseOK
    <3>2. \A a \in AttemptRecord : [a EXCEPT !.kind = "NOT_SENT"] \in AttemptRecord
      BY DEF AttemptRecord
    <3>3. QED
      BY <3>1, <3>2
  <2>2. QED
    BY <2>1 DEF MarkNotSent
<1>3. DatabaseOK'
  BY <1>1, <1>2 DEF Withdraw, DatabaseOK
<1>4. QED
  BY <1>3, FinishType, Frames DEF Withdraw

\* Only addresses frozen in envelopes are added to the suppressed ones.
LEMMA ReconciledType ==
  ASSUME suppressed \subseteq Addresses \cup {None}, NEW k, NEW evs,
         NEW env \in [Messages -> EnvelopeRecord]
  PROVE  Reconciled(k, env, evs) \subseteq Addresses \cup {None}
BY DEF Reconciled, EnvelopeRecord

LEMMA RecordEventType == ASSUME TypeOK, NEW k \in accepted, RecordEvent(k) PROVE TypeOK'
<1>1. k \in Nat
  BY DEF TypeOK, ProviderOK
<1>2. DatabaseOK'
  BY <1>1, ReconciledType DEF TypeOK, DatabaseOK, RecordEvent
<1>3. QED
  BY <1>2, Frames DEF TypeOK, RecordEvent

\* The job after an attempt is a job row.
LEMMA AfterAttemptType ==
  ASSUME TypeOK, NEW w \in Workers, NEW m \in Messages, NEW reply, NEW delay \in Nat
  PROVE  AfterAttempt(w, m, reply, delay) \in JobRecord
<1> USE DEF TypeOK
<1> DEFINE r == Released(m, "READY")
           next == Larger(now + Backoff(Number(w)), now + delay)
<1>1. \A s \in {"SENT", "GAVE_UP", "EXHAUSTED", "READY"} : Released(m, s) \in JobRecord
  BY ReleasedType DEF DatabaseOK, Terminal, Claims
<1>2. next \in Int
  <2>1. Number(w) \in Nat
    BY DEF ProcessOK, PassRecord, Number
  <2>2. QED
    BY <2>1, BackoffType, NowType DEF Larger
<1> HIDE DEF next
<1>3. [r EXCEPT !.notBefore = next] \in JobRecord
  <2> HIDE DEF r
  <2>1. r \in JobRecord
    BY <1>1 DEF r
  <2>2. QED
    BY <1>2, <2>1 DEF JobRecord
<1>4. QED
  BY <1>1, <1>3 DEF AfterAttempt, next

LEMMA SettleType ==
  ASSUME TypeOK, NEW w \in Workers, pass[w].msg \in Messages, Settle(w)
  PROVE  TypeOK'
<1> USE DEF TypeOK
<1> DEFINE m == pass[w].msg
           r == pass[w].reply
<1>1. pass[w] \in PassRecord /\ job[m] \in JobRecord
      /\ attempt[m] \in [1..MaxAttempts -> AttemptRecord] /\ envelope[m] \in EnvelopeRecord
  BY DEF DatabaseOK, ProcessOK
<1>2. job' \in [Messages -> JobRecord]
  <2>1. PICK d \in IF r = "RETRYABLE" THEN RetryDelays ELSE {0} :
          job' = [job EXCEPT ![m] = AfterAttempt(w, m, r, Smaller(d, Hour))]
    BY DEF Settle
  <2>2. d \in Nat
    <3>1. RetryDelays \subseteq Nat
      BY DurationTypes
    <3>2. CASE r = "RETRYABLE"
      BY <3>1, <3>2
    <3>3. CASE r # "RETRYABLE"
      <4>1. d \in {0}
        BY <3>3
      <4>2. QED
        BY <4>1
    <3>4. QED
      BY <3>2, <3>3
  <2>3. Smaller(d, Hour) \in Nat
    BY <2>2, DurationTypes DEF Smaller
  <2>4. AfterAttempt(w, m, r, Smaller(d, Hour)) \in JobRecord
    BY <2>3, AfterAttemptType
  <2>5. job \in [Messages -> JobRecord]
    BY DEF DatabaseOK
  <2>6. QED
    BY <2>1, <2>4, <2>5
<1>3. attempt' \in [Messages -> [1..MaxAttempts -> AttemptRecord]]
  <2> DEFINE n == Number(w)
  <2>1. n \in 1..MaxAttempts
    <3>1. job[m].made = Number(w)
      BY DEF Settle
    <3>2. QED
      BY <1>1, <3>1, DurationTypes DEF Number, PassRecord, JobRecord
  <2>2. [attempt[m][n] EXCEPT !.kind = AttemptKind(r)] \in AttemptRecord
    BY <1>1, <2>1 DEF AttemptRecord, AttemptKind
  <2>3. attempt' = [attempt EXCEPT ![m] = [attempt[m] EXCEPT ![n] =
                      [attempt[m][n] EXCEPT !.kind = AttemptKind(r)]]]
    BY DEF Settle, DatabaseOK
  <2> DEFINE a == [attempt[m][n] EXCEPT !.kind = AttemptKind(r)]
  <2> HIDE DEF a
  <2>4. [attempt[m] EXCEPT ![n] = a] \in [1..MaxAttempts -> AttemptRecord]
    BY <1>1, <2>1, <2>2 DEF a
  <2>5. QED
    BY <2>3, <2>4 DEF a, DatabaseOK
<1>4. envelope' \in [Messages -> EnvelopeRecord] /\ suppressed' \subseteq Addresses \cup {None}
  <2>1. [envelope[m] EXCEPT !.pid = pass[w].key] \in EnvelopeRecord
    BY <1>1 DEF EnvelopeRecord, PassRecord
  <2>2. envelope' \in [Messages -> EnvelopeRecord]
    BY <2>1 DEF Settle, DatabaseOK
  <2>3. \/ suppressed' = Reconciled(pass[w].key, envelope', events)
        \/ suppressed' = suppressed
    BY DEF Settle
  <2>4. QED
    BY <2>2, <2>3, ReconciledType DEF DatabaseOK
<1>5. DatabaseOK'
  BY <1>2, <1>3, <1>4 DEF Settle, DatabaseOK
<1>6. QED
  BY <1>5, FinishType, Frames DEF Settle
=============================================================================
