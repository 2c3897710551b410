------------------------- MODULE EmailPromises_proofs -------------------------
(***************************************************************************)
(* The other promises of EmailRelease: a retry is the same mail under the  *)
(* same key, nothing that left is called unsent, answers and events agree, *)
(* a live claim is its holder's, consent is unbroken, epochs and windows   *)
(* lie apart and stay silent once closed, and the hourly limits hold.      *)
(* Each rests on IInv and on one or two of the invariants beside it.       *)
(***************************************************************************)
EXTENDS EmailLedger_proofs, FiniteSetTheorems

-----------------------------------------------------------------------------
(* Who writes what.                                                        *)

Admits(w) == ClaimRegular(w) \/ ClaimControlled(w)

\* Every variable of the database has few writers.
Writes ==
  /\ job' = job \/ (\E m \in Messages : Enqueue(m)) \/ (\E b \in Nat : Cancel(b))
       \/ \E w \in Workers : Admits(w) \/ Open(w) \/ Withdraw(w) \/ Settle(w)
  /\ envelope' = envelope \/ \E w \in Workers : Admits(w) \/ Open(w) \/ Settle(w)
  /\ minted' = minted \/ \E w \in Workers : Admits(w)
  /\ epoch' = epoch \/ \E w \in Workers : ClaimRegular(w) \/ CloseEpoch(w)
  /\ attempt' = attempt \/ \E w \in Workers : Open(w) \/ Withdraw(w) \/ Settle(w)
  /\ UNCHANGED <<events, suppressed>>
       \/ (\E k \in accepted : RecordEvent(k)) \/ (\E w \in Workers : Settle(w))
  /\ sent' = sent \/ \E w \in Workers : Send(w)
  /\ accepted \subseteq accepted'
  /\ report' = report \/ \E b \in Nat : Cancel(b)
  /\ UNCHANGED <<optedIn, savedAt, lastOff>> \/ Tick \/ \E b \in BOOLEAN : SavePreferences(b)
  /\ now' = now \/ Tick

LEMMA Writers == ASSUME [Next]_vars PROVE Writes
<1> USE DEF Writes, Admits, database, process, provider, consent
<1>1. ASSUME NEW w \in Workers, Pass(w) PROVE Writes
  <2>1. CASE Begin(w) \/ CloseEpoch(w)
    BY <2>1 DEF Begin, CloseEpoch
  <2>2. CASE ClaimRegular(w)
    BY <2>2 DEF ClaimRegular
  <2>3. CASE ClaimControlled(w)
    BY <2>3 DEF ClaimControlled
  <2>4. CASE Resolve(w) \/ Recheck(w) \/ MaySend(w) \/ EndPass(w)
    BY <2>4 DEF Resolve, Recheck, MaySend, EndPass
  <2>5. CASE Open(w)
    BY <2>5 DEF Open
  <2>6. CASE Send(w)
    BY <2>6 DEF Send
  <2>7. ASSUME NEW reply \in Replies, Answer(w, reply) PROVE Writes
    BY <2>7 DEF Answer
  <2>8. CASE Withdraw(w)
    BY <2>8 DEF Withdraw
  <2>9. CASE Settle(w)
    BY <2>9 DEF Settle
  <2>10. QED
    BY <1>1, <2>1, <2>2, <2>3, <2>4, <2>5, <2>6, <2>7, <2>8, <2>9 DEF Pass
<1>2. CASE Tick \/ UNCHANGED vars
  BY <1>2 DEF Tick, vars
<1>3. CASE Environment
  <2>1. ASSUME NEW r \in wire, Provider(r) PROVE Writes
    BY <2>1 DEF Provider
  <2>2. ASSUME NEW k \in accepted, RecordEvent(k) PROVE Writes
    BY <2>2 DEF RecordEvent
  <2>3. ASSUME NEW m \in Messages, Enqueue(m) \/ ChangeStanding(m) PROVE Writes
    BY <2>3 DEF Enqueue, ChangeStanding
  <2>4. ASSUME NEW b \in Times, Cancel(b + 1) PROVE Writes
    <3>1. b + 1 \in Nat
      BY LimitAssumption DEF Times
    <3>2. QED
      BY <2>4, <3>1 DEF Cancel
  <2>5. ASSUME NEW w \in Workers, NEW c \in Configs, Reconfigure(w, c) PROVE Writes
    BY <2>5 DEF Reconfigure
  <2>6. ASSUME NEW b \in BOOLEAN, SavePreferences(b) PROVE Writes
    BY <2>6 DEF SavePreferences
  <2>7. ASSUME NEW a, ChangeOwner(a) PROVE Writes
    BY <2>7 DEF ChangeOwner
  <2>8. QED
    BY <1>3, <2>1, <2>2, <2>3, <2>4, <2>5, <2>6, <2>7 DEF Environment
<1>4. QED
  BY <1>1, <1>2, <1>3 DEF Next

LEMMA Clock ==
  ASSUME TypeOK, [Next]_vars
  PROVE  now \in Nat /\ now' \in Nat /\ (now' = now \/ now' = now + 1)
<1>1. now' = now \/ now' = now + 1
  BY Writers DEF Writes, Tick
<1>2. QED
  BY <1>1, NowType DEF TypeOK
-----------------------------------------------------------------------------
(* What a step does to a pass.                                             *)

\* The pass of v is left alone ...
Keeps(v) == pc'[v] = pc[v] /\ pass'[v] = pass[v] /\ cfg'[v] = cfg[v]
\* ... or goes on to another await with the same local variables.
Moves(v) ==
  /\ Advance(pc[v], pc'[v]) /\ pc'[v] # "answered"
  /\ Live(v) /\ pass'[v] = pass[v] /\ cfg'[v] = cfg[v]
  /\ UNCHANGED <<now, job, attempt, sent>>
  /\ pc'[v] = "cleared" => FinalGate(v)
TakesJob(v) ==
  \E m \in Messages, mode \in Modes, starts \in Nat, expires \in Nat :
    /\ pc[v] = "begun" /\ Live(v) /\ Claimable(m) /\ Take(v, m, mode, starts, expires)

PassStep(v) ==
  \/ pc'[v] = "idle"
  \/ Keeps(v)
  \/ Begin(v)
  \/ Admits(v) /\ TakesJob(v)
  \/ Moves(v)
  \/ Reserves(v) /\ Open(v)
  \/ HandsOff(v) /\ Send(v)
  \/ \E reply \in Replies : Answer(v, reply)

LEMMA PassSteps ==
  ASSUME IInv, NEW w \in Workers, Pass(w)
  PROVE  PassStep(w) /\ \A v \in Workers \ {w} : Keeps(v)
<1> DEFINE Done == PassStep(w) /\ \A v \in Workers \ {w} : Keeps(v)
<1> USE DEF IInv
<1>0. pc \in [Workers -> Stages] /\ pass \in [Workers -> PassRecord]
  BY DEF TypeOK, ProcessOK
<1>1. ASSUME Finish(w) PROVE Done
  <2>1. pc'[w] = "idle" /\ \A v \in Workers \ {w} : Keeps(v)
    BY <1>0, <1>1 DEF Finish, Keeps
  <2>2. QED
    BY <2>1 DEF PassStep
<1>2. ASSUME NEW to \in Stages, Step(w, to), Advance(pc[w], to), to # "answered",
             Live(w), UNCHANGED <<now, job, attempt, sent>>, to = "cleared" => FinalGate(w)
      PROVE  Done
  <2>1. Moves(w) /\ \A v \in Workers \ {w} : Keeps(v)
    BY <1>0, <1>2 DEF Step, Moves, Keeps
  <2>2. QED
    BY <2>1 DEF PassStep
<1>3. ASSUME Admits(w), TakesJob(w) PROVE Done
  <2>1. \A v \in Workers \ {w} : Keeps(v)
    BY <1>0, <1>3 DEF TakesJob, Take, Keeps
  <2>2. QED
    BY <1>3, <2>1 DEF PassStep
<1>4. CASE Begin(w)
  <2>1. \A v \in Workers \ {w} : Keeps(v)
    BY <1>0, <1>4 DEF Begin, Keeps
  <2>2. QED
    BY <1>4, <2>1 DEF PassStep
<1>5. CASE CloseEpoch(w)
  BY <1>5 DEF CloseEpoch, process, PassStep, Keeps
<1>6. CASE ClaimRegular(w)
  <2>1. CASE Finish(w)
    BY <1>1, <2>1
  <2>2. ASSUME NEW m \in Messages, Claimable(m), Take(w, m, "regular", now, now + Hour)
        PROVE  Done
    <3>1. "regular" \in Modes /\ now \in Nat /\ now + Hour \in Nat
      BY NowType, DurationTypes DEF TypeOK, Modes
    <3>2. TakesJob(w)
      BY <1>6, <2>2, <3>1 DEF TakesJob, ClaimRegular
    <3>3. QED
      BY <1>3, <1>6, <3>2 DEF Admits
  <2>3. ASSUME NEW S \in SUBSET Messages PROVE Heads(S) \subseteq Messages
    BY DEF Heads
  <2>4. QED
    BY <1>6, <2>1, <2>2 DEF ClaimRegular, AdmitHead, Heads, Candidates
<1>7. CASE ClaimControlled(w)
  <2>1. CASE Finish(w)
    BY <1>1, <2>1
  <2>2. ASSUME NEW m \in Messages, Claimable(m),
               Take(w, m, "controlled", cfg[w].starts, cfg[w].ends)
        PROVE  Done
    <3>1. "controlled" \in Modes /\ cfg[w].starts \in Nat /\ cfg[w].ends \in Nat
      BY ConfigType DEF TypeOK, ProcessOK, Modes
    <3>2. TakesJob(w)
      BY <1>7, <2>2, <3>1 DEF TakesJob, ClaimControlled
    <3>3. QED
      BY <1>3, <1>7, <3>2 DEF Admits
  <2>3. QED
    BY <1>7, <2>1, <2>2 DEF ClaimControlled, Heads, Fresh, Bound
<1>8. CASE Resolve(w)
  BY <1>2, <1>8 DEF Resolve, Advance, Stages, database, provider
<1>9. CASE Recheck(w)
  BY <1>2, <1>9 DEF Recheck, Advance, Stages, database, provider
<1>10. CASE MaySend(w)
  BY <1>2, <1>10 DEF MaySend, Advance, Stages, database, provider
<1>11. CASE Open(w)
  <2>1. CASE Finish(w)
    BY <1>1, <2>1
  <2>2. CASE Step(w, "withdrawing") /\ UNCHANGED <<job, envelope, attempt>>
    BY <1>2, <1>11, <2>2 DEF Open, Advance, Stages, provider
  <2>3. CASE Reservable(w) /\ Reserve(w)
    <3>1. Reserves(w)
      BY <1>11, <2>3 DEF Open, Reserves, provider
    <3>2. \A v \in Workers \ {w} : Keeps(v)
      BY <1>0, <2>3 DEF Reserve, Keeps
    <3>3. QED
      BY <1>11, <3>1, <3>2 DEF PassStep
  <2>4. QED
    BY <1>11, <2>1, <2>2, <2>3 DEF Open
<1>12. CASE Send(w)
  <2>1. pc[w] = "cleared" /\ Live(w) /\ job' = job /\ now' = now /\ attempt' = attempt
    BY <1>12 DEF Send, database
  <2>2. CASE Step(w, "withdrawing") /\ UNCHANGED <<wire, sent>>
    BY <1>2, <2>1, <2>2 DEF Advance, Stages
  <2>3. CASE /\ pc' = [pc EXCEPT ![w] = "sending"] /\ UNCHANGED cfg
             /\ pass' = [pass EXCEPT ![w].until = now + Timeout]
             /\ sent' = sent \cup {Request(w)}
    <3>1. HandsOff(w)
      BY <2>1, <2>3 DEF HandsOff
    <3>2. QED
      BY <1>12, <2>3, <3>1 DEF TypeOK, ProcessOK, PassStep, Keeps
  <2>4. QED
    BY <1>12, <2>2, <2>3 DEF Send
<1>13. ASSUME NEW reply \in Replies, Answer(w, reply) PROVE Done
  BY <1>13 DEF Answer, TypeOK, ProcessOK, PassStep, Keeps
<1>14. CASE Withdraw(w) \/ Settle(w) \/ EndPass(w)
  BY <1>1, <1>14 DEF Withdraw, Settle, EndPass
<1>15. QED
  BY <1>4, <1>5, <1>6, <1>7, <1>8, <1>9, <1>10, <1>11, <1>12, <1>13, <1>14 DEF Pass

\* Whatever happens, every pass makes one of these steps.
LEMMA EveryPass ==
  ASSUME IInv, [Next]_vars, NEW v \in Workers
  PROVE  PassStep(v)
<1>1. ASSUME NEW w \in Workers, Pass(w) PROVE PassStep(v)
  <2>1. CASE v = w
    BY <1>1, <2>1, PassSteps
  <2>2. CASE v # w
    <3>1. Keeps(v)
      BY <1>1, <2>2, PassSteps
    <3>2. QED
      BY <3>1 DEF PassStep
  <2>3. QED
    BY <2>1, <2>2
<1>2. ASSUME NEW w \in Workers, NEW c \in Configs, Reconfigure(w, c) PROVE PassStep(v)
  <2>1. pc'[v] = "idle" \/ Keeps(v)
    BY <1>2 DEF Reconfigure, Keeps, IInv, TypeOK, ProcessOK
  <2>2. QED
    BY <2>1 DEF PassStep
<1>3. CASE UNCHANGED process
  <2>1. Keeps(v)
    BY <1>3 DEF process, Keeps
  <2>2. QED
    BY <2>1 DEF PassStep
<1>4. QED
  BY <1>1, <1>2, <1>3 DEF Next, Environment, Tick, vars, Provider, RecordEvent, Enqueue,
     ChangeStanding, Cancel, SavePreferences, ChangeOwner
-----------------------------------------------------------------------------
(* What the writers do to the rows.                                        *)

\* All of an envelope but its body and provider id is fixed once it exists, and
\* the body once there is one.
SameMail(m) ==
  /\ envelope'[m].key = envelope[m].key /\ envelope'[m].mode = envelope[m].mode
  /\ envelope'[m].act = envelope[m].act /\ envelope'[m].rcpt = envelope[m].rcpt
  /\ envelope'[m].starts = envelope[m].starts
  /\ envelope'[m].created = envelope[m].created
  /\ envelope'[m].expires = envelope[m].expires
  /\ envelope[m].body # None => envelope'[m].body = envelope[m].body

\* The pass of w issues the envelope of m.
Issued(w, m, mode, starts, expires) ==
  /\ minted' = minted + 1
  /\ envelope'[m].key = minted + 1 /\ envelope'[m].mode = mode
  /\ envelope'[m].act = cfg[w].act /\ envelope'[m].rcpt = cfg[w].rcpt
  /\ envelope'[m].starts = starts /\ envelope'[m].created = now
  /\ envelope'[m].expires = expires /\ envelope'[m].pid = 0

LEMMA TakeEffects ==
  ASSUME TypeOK, NEW w \in Workers, NEW m \in Messages, NEW mode, NEW starts,
         NEW expires, Take(w, m, mode, starts, expires)
  PROVE  /\ \A n \in Messages \ {m} : envelope'[n] = envelope[n] /\ job'[n] = job[n]
         /\ HasEnvelope(m) => envelope' = envelope /\ minted' = minted
         /\ ~HasEnvelope(m) => Issued(w, m, mode, starts, expires)
         /\ pc'[w] = "claimed" /\ pass'[w].msg = m
         /\ pass'[w].made = job[m].made /\ pass'[w].deadline = pass[w].deadline
         /\ cfg' = cfg
         /\ job'[m].state = "CLAIMED" /\ job'[m].by = w
         /\ job'[m].made = job[m].made /\ job'[m].created = job[m].created
<1>1. /\ envelope \in [Messages -> EnvelopeRecord] /\ job \in [Messages -> JobRecord]
      /\ pc \in [Workers -> Stages] /\ pass \in [Workers -> PassRecord]
  BY DEF TypeOK, DatabaseOK, ProcessOK
<1>2. /\ Claimed(m, w).state = "CLAIMED" /\ Claimed(m, w).by = w
      /\ Claimed(m, w).made = job[m].made /\ Claimed(m, w).created = job[m].created
  BY <1>1 DEF Claimed, JobRecord
<1>3. job' = [job EXCEPT ![m] = Claimed(m, w)]
  BY DEF Take
<1>4. /\ \A n \in Messages \ {m} : job'[n] = job[n]
      /\ job'[m] = Claimed(m, w)
  BY <1>1, <1>3
<1>5. /\ pc'[w] = "claimed" /\ pass'[w].msg = m /\ cfg' = cfg
      /\ pass'[w].made = job[m].made /\ pass'[w].deadline = pass[w].deadline
  BY <1>1 DEF Take, PassRecord
<1>6. CASE HasEnvelope(m)
  BY <1>2, <1>4, <1>5, <1>6 DEF Take
<1>7. CASE ~HasEnvelope(m)
  <2> DEFINE v == [key |-> minted + 1, mode |-> mode, act |-> cfg[w].act,
                   rcpt |-> cfg[w].rcpt, starts |-> starts, created |-> now,
                   expires |-> expires, body |-> None, pid |-> 0]
  <2>1. envelope' = [envelope EXCEPT ![m] = v] /\ minted' = minted + 1
    BY <1>7 DEF Take
  <2>2. envelope'[m] = v /\ \A n \in Messages \ {m} : envelope'[n] = envelope[n]
    <3> HIDE DEF v
    <3>1. QED
      BY <1>1, <2>1
  <2>3. Issued(w, m, mode, starts, expires)
    BY <2>1, <2>2 DEF Issued
  <2>4. QED
    BY <1>2, <1>4, <1>5, <1>7, <2>2, <2>3
<1>8. QED
  BY <1>6, <1>7

LEMMA ReserveEffects ==
  ASSUME IInv, NEW w \in Workers, NEW m \in Messages, m = pass[w].msg,
         pc[w] = "opening", Reservable(w), Reserve(w)
  PROVE  /\ \A n \in Messages \ {m} : /\ envelope'[n] = envelope[n]
                                      /\ attempt'[n] = attempt[n]
                                      /\ job'[n] = job[n]
         /\ HasEnvelope(m) /\ SameMail(m) /\ envelope'[m].body # None
         /\ envelope'[m].pid = envelope[m].pid
         /\ Number(w) \in 1..MaxAttempts
         /\ attempt'[m][Number(w)] = [at |-> now, kind |-> "OPEN"]
         /\ \A n \in 1..MaxAttempts \ {Number(w)} : attempt'[m][n] = attempt[m][n]
         /\ pc'[w] = "opened" /\ pass'[w].msg = m
         /\ pass'[w].made = pass[w].made /\ pass'[w].deadline = pass[w].deadline
         /\ pass'[w].key = envelope[m].key /\ pass'[w].body = envelope'[m].body
         /\ cfg' = cfg
         /\ job'[m].state = "CLAIMED" /\ job[m].state = "CLAIMED"
         /\ job'[m].by = w /\ job[m].by = w
         /\ job'[m].made = Number(w) /\ job[m].made = pass[w].made
         /\ job'[m].created = job[m].created
<1> USE DEF IInv
<1>1. /\ envelope \in [Messages -> EnvelopeRecord] /\ job \in [Messages -> JobRecord]
      /\ attempt \in [Messages -> [1..MaxAttempts -> AttemptRecord]]
      /\ pc \in [Workers -> Stages] /\ pass \in [Workers -> PassRecord]
  BY DEF TypeOK, DatabaseOK, ProcessOK
<1>2. Number(w) \in 1..MaxAttempts
  BY ReserveType
<1>3. PICK b \in Bodies : envelope' = [envelope EXCEPT ![m].body = Frozen(m, b)]
  BY DEF Reserve
<1>4. Frozen(m, b) # None /\ (envelope[m].body # None => Frozen(m, b) = envelope[m].body)
  BY NoneAssumption DEF Frozen
<1>5. /\ \A n \in Messages \ {m} : envelope'[n] = envelope[n]
      /\ envelope'[m] = [envelope[m] EXCEPT !.body = Frozen(m, b)]
  BY <1>1, <1>3
<1>6. SameMail(m) /\ envelope'[m].body # None /\ envelope'[m].pid = envelope[m].pid
  <2>1. envelope[m] \in EnvelopeRecord
    BY <1>1
  <2> DEFINE f == Frozen(m, b)
  <2> HIDE DEF f
  <2>2. QED
    BY <1>4, <1>5, <2>1 DEF f, SameMail, EnvelopeRecord
<1>7. /\ \A n \in Messages \ {m} : attempt'[n] = attempt[n]
      /\ attempt'[m][Number(w)] = [at |-> now, kind |-> "OPEN"]
      /\ \A n \in 1..MaxAttempts \ {Number(w)} : attempt'[m][n] = attempt[m][n]
  <2> DEFINE a == [at |-> now, kind |-> "OPEN"]
  <2>1. attempt' = [attempt EXCEPT ![m] = [attempt[m] EXCEPT ![Number(w)] = a]]
    BY <1>1 DEF Reserve
  <2> HIDE DEF a
  <2>2. attempt'[m] = [attempt[m] EXCEPT ![Number(w)] = a]
    BY <1>1, <2>1
  <2>3. attempt'[m][Number(w)] = a
    BY <1>1, <1>2, <2>2
  <2>4. QED
    BY <1>1, <2>1, <2>2, <2>3 DEF a
<1>8. /\ pc'[w] = "opened" /\ pass'[w].msg = m /\ cfg' = cfg
      /\ pass'[w].made = pass[w].made /\ pass'[w].deadline = pass[w].deadline
      /\ pass'[w].key = envelope[m].key /\ pass'[w].body = envelope'[m].body
  <2>1. pass'[w] = [pass[w] EXCEPT !.key = envelope[m].key, !.body = envelope'[m].body]
    BY <1>1 DEF Reserve
  <2>2. QED
    BY <1>1, <2>1 DEF Reserve, PassRecord
<1>9. HasEnvelope(m)
  BY DEF Reserve
<1>10. /\ job[m].state = "CLAIMED" /\ job[m].by = w /\ job[m].made = pass[w].made
  BY DEF Reservable, HoldsFor, Mine
<1>11. /\ \A n \in Messages \ {m} : job'[n] = job[n]
       /\ job'[m] = Reserved(m, Number(w))
  BY <1>1 DEF Reserve
<1>12. /\ job'[m].state = "CLAIMED" /\ job'[m].by = w /\ job'[m].made = Number(w)
       /\ job'[m].created = job[m].created
  <2>1. job[m] \in JobRecord
    BY <1>1
  <2>2. QED
    BY <1>10, <1>11, <2>1 DEF Reserved, JobRecord, Number
<1>13. QED
  BY <1>2, <1>5, <1>6, <1>7, <1>8, <1>9, <1>10, <1>11, <1>12

LEMMA SettleEffects ==
  ASSUME IInv, NEW w \in Workers, NEW m \in Messages, m = pass[w].msg, Settle(w)
  PROVE  /\ \A n \in Messages \ {m} : /\ envelope'[n] = envelope[n]
                                      /\ attempt'[n] = attempt[n]
                                      /\ job'[n] = job[n]
         /\ SameMail(m) /\ envelope'[m].body = envelope[m].body
         /\ Number(w) \in 1..MaxAttempts /\ job[m].made = Number(w)
         /\ job[m].state = "CLAIMED" /\ job[m].by = w
         /\ attempt'[m][Number(w)].at = attempt[m][Number(w)].at
         /\ attempt'[m][Number(w)].kind = AttemptKind(pass[w].reply)
         /\ \A n \in 1..MaxAttempts \ {Number(w)} : attempt'[m][n] = attempt[m][n]
         /\ job'[m].made = job[m].made
         /\ job'[m].state = "SENT" <=> pass[w].reply = "ACCEPTED"
         /\ job'[m].state # "ABSENT" /\ job'[m].created = job[m].created
         /\ job'[m].state # "CLAIMED" /\ job'[m].by = None
         /\ pass[w].reply = "ACCEPTED" =>
              /\ envelope'[m].pid = pass[w].key
              /\ suppressed' = Reconciled(pass[w].key, envelope', events)
         /\ pass[w].reply # "ACCEPTED" => envelope' = envelope /\ suppressed' = suppressed
         /\ events' = events /\ pc'[w] = "idle"
<1> USE DEF IInv
<1>1. /\ envelope \in [Messages -> EnvelopeRecord] /\ job \in [Messages -> JobRecord]
      /\ attempt \in [Messages -> [1..MaxAttempts -> AttemptRecord]]
      /\ pc \in [Workers -> Stages] /\ pass \in [Workers -> PassRecord]
  BY DEF TypeOK, DatabaseOK, ProcessOK
<1>2. job[m].state = "CLAIMED" /\ job[m].by = w /\ job[m].made = Number(w)
  BY DEF Settle, HoldsFor, Mine
<1>3. Number(w) \in 1..MaxAttempts
  BY <1>1, <1>2, DurationTypes DEF Number, PassRecord, JobRecord
<1>4. /\ \A n \in Messages \ {m} : job'[n] = job[n]
      /\ job'[m].made = job[m].made /\ job'[m].created = job[m].created
      /\ job'[m].state = "SENT" <=> pass[w].reply = "ACCEPTED"
      /\ job'[m].state # "ABSENT" /\ job'[m].state # "CLAIMED" /\ job'[m].by = None
  <2>1. PICK d \in IF pass[w].reply = "RETRYABLE" THEN RetryDelays ELSE {0} :
          job' = [job EXCEPT ![m] = AfterAttempt(w, m, pass[w].reply, Smaller(d, Hour))]
    BY DEF Settle
  <2> DEFINE s == Smaller(d, Hour)
             next == Larger(now + Backoff(Number(w)), now + s)
             x == AfterAttempt(w, m, pass[w].reply, s)
             r == Released(m, "READY")
  <2>2. \A st \in {"SENT", "GAVE_UP", "EXHAUSTED", "READY"} :
          /\ Released(m, st).made = job[m].made /\ Released(m, st).state = st
          /\ Released(m, st).by = None /\ Released(m, st).created = job[m].created
    BY <1>1 DEF Released, JobRecord
  <2>3. r \in JobRecord
    BY <1>1, ReleasedType DEF Claims
  <2>4. LET y == [r EXCEPT !.notBefore = next]
        IN y.made = r.made /\ y.state = r.state /\ y.by = r.by /\ y.created = r.created
    <3> HIDE DEF next, r
    <3>1. QED
      BY <2>3 DEF JobRecord
  <2>5. /\ x.made = job[m].made /\ x.created = job[m].created
        /\ x.state = "SENT" <=> pass[w].reply = "ACCEPTED"
        /\ x.state # "ABSENT" /\ x.state # "CLAIMED" /\ x.by = None
    <3>1. /\ r.made = job[m].made /\ r.state = "READY" /\ r.by = None
          /\ r.created = job[m].created
      BY <2>2
    <3>2. \/ pass[w].reply = "ACCEPTED" /\ x = Released(m, "SENT")
          \/ pass[w].reply # "ACCEPTED" /\ x = Released(m, "GAVE_UP")
          \/ pass[w].reply # "ACCEPTED" /\ x = Released(m, "EXHAUSTED")
          \/ pass[w].reply # "ACCEPTED" /\ x = [r EXCEPT !.notBefore = next]
      BY DEF AfterAttempt
    <3> HIDE DEF x, r, next
    <3>3. QED
      BY <2>2, <2>4, <3>1, <3>2
  <2> HIDE DEF x
  <2>6. job' = [job EXCEPT ![m] = x]
    BY <2>1 DEF x
  <2>7. QED
    BY <1>1, <2>5, <2>6
<1>5. /\ \A n \in Messages \ {m} : attempt'[n] = attempt[n]
      /\ attempt'[m][Number(w)].at = attempt[m][Number(w)].at
      /\ attempt'[m][Number(w)].kind = AttemptKind(pass[w].reply)
      /\ \A n \in 1..MaxAttempts \ {Number(w)} : attempt'[m][n] = attempt[m][n]
  <2> DEFINE i == Number(w)
             a == [attempt[m][i] EXCEPT !.kind = AttemptKind(pass[w].reply)]
  <2>1. attempt' = [attempt EXCEPT ![m] = [attempt[m] EXCEPT ![i] = a]]
    BY <1>1 DEF Settle
  <2>2. attempt[m][i] \in AttemptRecord
    BY <1>1, <1>3
  <2>3. a.at = attempt[m][i].at /\ a.kind = AttemptKind(pass[w].reply)
    BY <2>2 DEF AttemptRecord
  <2> HIDE DEF a, i
  <2>4. attempt'[m] = [attempt[m] EXCEPT ![i] = a]
    BY <1>1, <2>1
  <2>5. i \in 1..MaxAttempts
    BY <1>3 DEF i
  <2>6. attempt'[m][i] = a
    BY <1>1, <2>4, <2>5
  <2>7. /\ \A n \in Messages \ {m} : attempt'[n] = attempt[n]
        /\ \A n \in 1..MaxAttempts \ {i} : attempt'[m][n] = attempt[m][n]
    BY <1>1, <2>1, <2>4
  <2>8. QED
    BY <2>3, <2>6, <2>7 DEF i
<1>6. /\ \A n \in Messages \ {m} : envelope'[n] = envelope[n]
      /\ SameMail(m) /\ envelope'[m].body = envelope[m].body
      /\ pass[w].reply = "ACCEPTED" =>
           /\ envelope'[m].pid = pass[w].key
           /\ suppressed' = Reconciled(pass[w].key, envelope', events)
      /\ pass[w].reply # "ACCEPTED" => envelope' = envelope /\ suppressed' = suppressed
  <2>1. envelope[m] \in EnvelopeRecord
    BY <1>1
  <2>2. CASE pass[w].reply = "ACCEPTED"
    <3>1. envelope' = [envelope EXCEPT ![m].pid = pass[w].key]
      BY <2>2 DEF Settle
    <3>2. envelope'[m] = [envelope[m] EXCEPT !.pid = pass[w].key]
      BY <1>1, <3>1
    <3>3. SameMail(m) /\ envelope'[m].body = envelope[m].body /\ envelope'[m].pid = pass[w].key
      BY <2>1, <3>2 DEF SameMail, EnvelopeRecord
    <3>4. suppressed' = Reconciled(pass[w].key, envelope', events)
      BY <2>2 DEF Settle
    <3>5. QED
      BY <1>1, <2>2, <3>1, <3>3, <3>4
  <2>3. CASE pass[w].reply # "ACCEPTED"
    BY <2>3 DEF Settle, SameMail
  <2>4. QED
    BY <2>2, <2>3
<1>7. events' = events /\ pc'[w] = "idle"
  BY <1>1 DEF Settle, Finish
<1>8. QED
  BY <1>2, <1>3, <1>4, <1>5, <1>6, <1>7
-----------------------------------------------------------------------------
(* What any step does to the rows.                                         *)

\* The two ways in which a pass issues an envelope.
IssuesRegular(w, m) ==
  LET e == EpochFor(cfg[w])
  IN /\ ClaimRegular(w) /\ e # NoEpoch /\ epoch' = [epoch EXCEPT ![cfg[w].act] = e]
     /\ m \in Candidates(cfg[w], e) /\ Evidence(m, e, TRUE) /\ ~NewLimited(m)
     /\ Issued(w, m, "regular", now, now + Hour)
IssuesControlled(w, m) ==
  /\ ClaimControlled(w) /\ epoch' = epoch
  /\ m \in Fresh(cfg[w]) /\ Bound(cfg[w]) = {}
  /\ \A n \in Messages : HasEnvelope(n) => envelope[n].expires <= cfg[w].starts
  /\ Issued(w, m, "controlled", cfg[w].starts, cfg[w].ends)
Issues(w, m) ==
  /\ ~HasEnvelope(m) /\ \A n \in Messages \ {m} : envelope'[n] = envelope[n]
  /\ Claimable(m) /\ job'[m].state = "CLAIMED" /\ job'[m].created = job[m].created
  /\ IssuesRegular(w, m) \/ IssuesControlled(w, m)
AllSame == minted' = minted /\ \A m \in Messages : SameMail(m)

LEMMA UnchangedSame == envelope' = envelope /\ minted' = minted => AllSame
BY DEF AllSame, SameMail

LEMMA AdmitsEnvelopes ==
  ASSUME IInv, NEW w \in Workers, Admits(w)
  PROVE  UNCHANGED <<envelope, minted>> \/ \E m \in Messages : Issues(w, m)
<1> USE DEF IInv
<1>1. ASSUME NEW m \in Messages, HasEnvelope(m), NEW mode, NEW starts, NEW expires,
             Take(w, m, mode, starts, expires)
      PROVE  UNCHANGED <<envelope, minted>>
  BY <1>1 DEF Take
<1>2. CASE ClaimRegular(w)
  <2> DEFINE e == EpochFor(cfg[w])
             S == Candidates(cfg[w], e)
  <2>1. ASSUME NEW m \in Messages, ~HasEnvelope(m), m \in Heads(S), AdmitHead(w, m, e),
               Take(w, m, "regular", now, now + Hour),
               Claimable(m), ~NewLimited(m), Evidence(m, e, ~HasEnvelope(m))
        PROVE  Issues(w, m)
    <3>1. e # NoEpoch /\ epoch' = [epoch EXCEPT ![cfg[w].act] = e] /\ m \in S
      BY <1>2, <2>1 DEF ClaimRegular, Heads
    <3>2. Evidence(m, e, TRUE)
      BY <2>1 DEF Evidence
    <3>3. /\ Issued(w, m, "regular", now, now + Hour)
          /\ \A n \in Messages \ {m} : envelope'[n] = envelope[n]
          /\ job'[m].state = "CLAIMED" /\ job'[m].created = job[m].created
      BY <2>1, TakeEffects
    <3>4. IssuesRegular(w, m)
      BY <1>2, <2>1, <3>1, <3>2, <3>3 DEF IssuesRegular
    <3>5. QED
      BY <2>1, <3>3, <3>4 DEF Issues
  <2>2. \/ UNCHANGED <<envelope, minted>>
        \/ \E m \in Heads(S) : AdmitHead(w, m, e)
    BY <1>2 DEF ClaimRegular
  <2>3. ASSUME NEW m \in Heads(S), AdmitHead(w, m, e)
        PROVE  UNCHANGED <<envelope, minted>> \/ \E n \in Messages : Issues(w, n)
    <3>1. m \in Messages
      BY DEF Heads, Candidates
    <3>2. \/ UNCHANGED <<envelope, minted>>
          \/ /\ Take(w, m, "regular", now, now + Hour)
             /\ Claimable(m) /\ ~NewLimited(m) /\ Evidence(m, e, ~HasEnvelope(m))
      BY <2>3 DEF AdmitHead
    <3>3. QED
      BY <1>1, <2>1, <2>3, <3>1, <3>2
  <2>4. QED
    BY <2>2, <2>3
<1>3. CASE ClaimControlled(w)
  <2> DEFINE c == cfg[w]
  <2>1. ASSUME NEW m \in Heads(Fresh(c)), Bound(c) = {}, Claimable(m),
               \A n \in Messages : HasEnvelope(n) => envelope[n].expires <= c.starts,
               Take(w, m, "controlled", c.starts, c.ends)
        PROVE  Issues(w, m) /\ m \in Messages
    <3>1. m \in Messages /\ m \in Fresh(c) /\ ~HasEnvelope(m)
      BY DEF Heads, Fresh
    <3>2. /\ Issued(w, m, "controlled", c.starts, c.ends)
          /\ \A n \in Messages \ {m} : envelope'[n] = envelope[n]
          /\ job'[m].state = "CLAIMED" /\ job'[m].created = job[m].created
      BY <2>1, <3>1, TakeEffects
    <3>3. IssuesControlled(w, m)
      BY <1>3, <2>1, <3>1, <3>2 DEF IssuesControlled, ClaimControlled
    <3>4. QED
      BY <2>1, <3>1, <3>2, <3>3 DEF Issues
  <2>2. ASSUME NEW m \in Bound(c)
        PROVE  m \in Messages /\ HasEnvelope(m)
    BY DEF Bound
  <2>3. QED
    BY <1>1, <1>3, <2>1, <2>2 DEF ClaimControlled
<1>4. QED
  BY <1>2, <1>3 DEF Admits

\* A step keeps every envelope's mail, or issues exactly one.
LEMMA EnvelopeSteps ==
  ASSUME IInv, [Next]_vars
  PROVE  AllSame \/ \E w \in Workers, m \in Messages : Issues(w, m)
<1> USE DEF IInv
<1>1. CASE \E w \in Workers : Admits(w)
  BY <1>1, AdmitsEnvelopes, UnchangedSame
<1>2. CASE envelope' = envelope /\ minted' = minted
  BY <1>2, UnchangedSame
<1>3. ASSUME NEW w \in Workers, Open(w), ~(envelope' = envelope) PROVE AllSame
  <2>1. PICK m \in Messages : m = pass[w].msg
    BY <1>3 DEF Open, PassInv, Holding, Stages
  <2>2. Reservable(w) /\ Reserve(w) /\ pc[w] = "opening" /\ minted' = minted
    BY <1>3 DEF Open
  <2>3. SameMail(m) /\ \A n \in Messages \ {m} : envelope'[n] = envelope[n]
    BY <2>1, <2>2, ReserveEffects
  <2>4. QED
    BY <2>2, <2>3 DEF AllSame, SameMail
<1>4. ASSUME NEW w \in Workers, Settle(w) PROVE AllSame
  <2>1. PICK m \in Messages : m = pass[w].msg
    BY <1>4 DEF Settle, PassInv, Holding, Stages
  <2>2. SameMail(m) /\ \A n \in Messages \ {m} : envelope'[n] = envelope[n]
    BY <1>4, <2>1, SettleEffects
  <2>3. minted' = minted
    BY <1>4 DEF Settle
  <2>4. QED
    BY <2>2, <2>3 DEF AllSame, SameMail
<1>5. QED
  BY <1>1, <1>2, <1>3, <1>4, Writers DEF Writes

\* An envelope, once issued, keeps its mail.
LEMMA MailKept ==
  ASSUME IInv, [Next]_vars, NEW m \in Messages, HasEnvelope(m)
  PROVE  SameMail(m) /\ HasEnvelope(m)'
<1>1. CASE AllSame
  BY <1>1 DEF AllSame, SameMail, HasEnvelope
<1>2. ASSUME NEW w \in Workers, NEW n \in Messages, Issues(w, n)
      PROVE  SameMail(m)
  BY <1>2 DEF Issues, SameMail
<1>3. SameMail(m)
  BY <1>1, <1>2, EnvelopeSteps DEF AllSame
<1>4. QED
  BY <1>3 DEF SameMail, HasEnvelope

\* A request is new only in the step of the pass that hands it off.
LEMMA NewRequest ==
  ASSUME TypeOK, [Next]_vars, NEW r \in sent', r \notin sent
  PROVE  \E w \in Workers : /\ pc[w] = "cleared" /\ Live(w) /\ pc'[w] = "sending"
                            /\ r = Request(w) /\ UNCHANGED <<database, now>>
<1>1. PICK w \in Workers : Send(w)
  BY Writers DEF Writes
<1>2. CASE Runnable(cfg[w])
  <2>1. /\ pc[w] = "cleared" /\ Live(w) /\ sent' = sent \cup {Request(w)}
        /\ pc' = [pc EXCEPT ![w] = "sending"] /\ UNCHANGED <<database, now>>
    BY <1>1, <1>2 DEF Send
  <2>2. r = Request(w) /\ pc'[w] = "sending"
    BY <2>1 DEF TypeOK, ProcessOK
  <2>3. QED
    BY <2>1, <2>2
<1>3. CASE ~Runnable(cfg[w])
  BY <1>1, <1>3 DEF Send
<1>4. QED
  BY <1>2, <1>3
-----------------------------------------------------------------------------
(* A retry is the same mail under the same key.                            *)

LEMMA MailStep ==
  ASSUME IInv, MailInv, [Next]_vars
  PROVE  MailInv'
<1> USE DEF IInv
<1>1. /\ \A m \in Messages : HasEnvelope(m)' => envelope'[m].key <= minted'
      /\ \A m, n \in Messages :
           HasEnvelope(m)' /\ envelope'[m].key = envelope'[n].key => m = n
  <2>1. /\ minted \in Nat /\ \A m \in Messages : envelope[m].key \in Nat
    BY DEF TypeOK, DatabaseOK, EnvelopeRecord
  <2>2. CASE AllSame
    BY <2>2 DEF AllSame, SameMail, MailInv, HasEnvelope
  <2>3. ASSUME NEW w \in Workers, NEW m \in Messages, Issues(w, m)
        PROVE  /\ minted' = minted + 1 /\ envelope'[m].key = minted + 1
               /\ \A n \in Messages \ {m} : envelope'[n].key = envelope[n].key
    BY <2>3 DEF Issues, IssuesRegular, IssuesControlled, Issued
  <2>4. QED
    BY <2>1, <2>2, <2>3, EnvelopeSteps DEF MailInv, HasEnvelope
<1>2. ASSUME NEW w \in Workers, pc'[w] \in Spent
      PROVE  LET v == envelope'[pass'[w].msg]
             IN /\ v.key > 0 /\ v.body # None
                /\ pass'[w].key = v.key /\ pass'[w].body = v.body
                /\ pc'[w] \notin {"opened", "vetoing"} => cfg'[w].rcpt = v.rcpt
  <2> DEFINE Goal == LET v == envelope'[pass'[w].msg]
                     IN /\ v.key > 0 /\ v.body # None
                        /\ pass'[w].key = v.key /\ pass'[w].body = v.body
                        /\ pc'[w] \notin {"opened", "vetoing"} => cfg'[w].rcpt = v.rcpt
  <2>1. pass[w] \in PassRecord /\ \A m \in Messages : envelope[m].key \in Nat
    BY DEF TypeOK, DatabaseOK, ProcessOK, EnvelopeRecord
  <2>2. ASSUME pc[w] \in Spent, pass'[w].msg = pass[w].msg, pass'[w].key = pass[w].key,
               pass'[w].body = pass[w].body, cfg'[w] = cfg[w],
               \/ pc'[w] \in {"opened", "vetoing"} \/ pc[w] \notin {"opened", "vetoing"}
               \/ FinalGate(w)
        PROVE  Goal
    <3>1. PICK m \in Messages : m = pass[w].msg
      BY <2>2 DEF PassInv, Holding, Spent, Stages
    <3>2. HasEnvelope(m) /\ envelope[m].body # None
          /\ pass[w].key = envelope[m].key /\ pass[w].body = envelope[m].body
      BY <2>2, <3>1 DEF MailInv, HasEnvelope
    <3>3. SameMail(m)
      BY <3>2, MailKept
    <3>4. pc'[w] \notin {"opened", "vetoing"} => cfg[w].rcpt = envelope[m].rcpt
      BY <2>2, <3>1 DEF MailInv, FinalGate
    <3>5. QED
      BY <2>2, <3>1, <3>2, <3>3, <3>4 DEF SameMail, HasEnvelope
  <2>3. CASE Keeps(w)
    BY <1>2, <2>2, <2>3 DEF Keeps
  <2>4. CASE Moves(w)
    <3>1. pc[w] \in Spent
      BY <1>2, <2>4 DEF Moves, Advance, Spent
    <3>2. \/ pc'[w] \in {"opened", "vetoing"} \/ FinalGate(w)
      BY <1>2, <2>4 DEF Moves, Advance, Spent
    <3>3. QED
      BY <2>2, <2>4, <3>1, <3>2 DEF Moves
  <2>5. CASE Reserves(w)
    <3>1. PICK m \in Messages : m = pass[w].msg
      BY <2>5 DEF Reserves, PassInv, Holding, Stages
    <3>2. /\ HasEnvelope(m) /\ SameMail(m) /\ envelope'[m].body # None
          /\ pass'[w].msg = m /\ pass'[w].key = envelope[m].key
          /\ pass'[w].body = envelope'[m].body /\ pc'[w] = "opened"
      BY <2>5, <3>1, ReserveEffects DEF Reserves
    <3>3. QED
      BY <3>2 DEF SameMail, HasEnvelope
  <2>6. CASE HandsOff(w) /\ Send(w)
    <3>1. /\ pass'[w].msg = pass[w].msg /\ pass'[w].key = pass[w].key
          /\ pass'[w].body = pass[w].body /\ pc[w] = "cleared" /\ cfg'[w] = cfg[w]
      BY <2>1, <2>6 DEF HandsOff, Send, Step, TypeOK, ProcessOK, PassRecord
    <3>2. QED
      BY <2>2, <3>1 DEF Spent
  <2>7. ASSUME NEW reply \in Replies, Answer(w, reply) PROVE Goal
    <3>1. /\ pass'[w].msg = pass[w].msg /\ pass'[w].key = pass[w].key
          /\ pass'[w].body = pass[w].body /\ pc[w] = "sending" /\ cfg'[w] = cfg[w]
      BY <2>1, <2>7 DEF Answer, TypeOK, ProcessOK, PassRecord
    <3>2. QED
      BY <2>2, <3>1 DEF Spent
  <2>8. CASE pc'[w] = "idle" \/ Begin(w) \/ TakesJob(w)
    <3>1. pc'[w] \in {"idle", "begun", "claimed"}
      BY <2>8 DEF Begin, TakesJob, Take, TypeOK, ProcessOK
    <3>2. QED
      BY <1>2, <3>1 DEF Spent
  <2>9. QED
    BY <2>3, <2>4, <2>5, <2>6, <2>7, <2>8, EveryPass DEF PassStep
<1>3. ASSUME NEW r \in sent'
      PROVE  LET v == envelope'[r.msg]
             IN /\ v.key > 0 /\ v.body # None
                /\ r.key = v.key /\ r.body = v.body /\ r.to = v.rcpt
  <2>1. CASE r \in sent
    <3>1. PICK m \in Messages : m = r.msg
      BY <2>1 DEF TypeOK, ProviderOK, RequestRecord
    <3>2. /\ HasEnvelope(m) /\ envelope[m].body # None /\ r.key = envelope[m].key
          /\ r.body = envelope[m].body /\ r.to = envelope[m].rcpt
      BY <2>1, <3>1 DEF MailInv, HasEnvelope
    <3>3. SameMail(m)
      BY <3>2, MailKept
    <3>4. QED
      BY <3>1, <3>2, <3>3 DEF SameMail, HasEnvelope
  <2>2. CASE r \notin sent
    <3>1. PICK w \in Workers : pc[w] = "cleared" /\ r = Request(w) /\ UNCHANGED database
      BY <2>2, NewRequest
    <3>2. /\ r.msg = pass[w].msg /\ r.key = pass[w].key /\ r.body = pass[w].body
          /\ r.to = cfg[w].rcpt /\ envelope' = envelope
      BY <3>1 DEF Request, database
    <3>3. QED
      BY <3>1, <3>2 DEF MailInv, Spent
  <2>3. QED
    BY <2>1, <2>2
<1>4. QED
  BY <1>1, <1>2, <1>3 DEF MailInv

LEMMA MailInit == Init => MailInv
BY DEF Init, MailInv, HasEnvelope, NoEnvelope, Spent

LEMMA MailInvariance == Spec => []MailInv
BY MailInit, MailStep, Invariance, PTL DEF Spec

\* Whatever is retried, by any process after any crash or unknown outcome, is the
\* very same mail to the same recipient under the same idempotency key, and no two
\* messages share a key.
THEOREM MailFrozen == Spec => []FrozenMail
<1>1. IInv /\ MailInv => FrozenMail
  <2>1. SUFFICES ASSUME IInv, MailInv, NEW r \in sent, NEW s \in sent
        PROVE  /\ r.msg = s.msg => r.key = s.key /\ r.body = s.body /\ r.to = s.to
               /\ r.key = s.key => r.msg = s.msg
    BY DEF FrozenMail
  <2>2. r.msg \in Messages /\ s.msg \in Messages
    BY <2>1 DEF IInv, TypeOK, ProviderOK, RequestRecord
  <2>3. QED
    BY <2>1, <2>2 DEF MailInv, HasEnvelope
<1>2. QED
  BY <1>1, Invariance, MailInvariance, PTL
-----------------------------------------------------------------------------
(* What any step does to the jobs.                                         *)

\* A job keeps its creation; a claim comes with the pass that takes it and, while
\* it is live, changes with the pass that holds it unless the operator cancels it;
\* only a settlement calls it sent.
Fenced(m) ==
  /\ job[m].state # "ABSENT" =>
       job'[m].created = job[m].created /\ job'[m].state # "ABSENT"
  /\ \A v \in Workers :
       pc'[v] = pc[v] /\ job'[m].state = "CLAIMED" /\ job'[m].by = v =>
         job[m].state = "CLAIMED" /\ job[m].by = v
  /\ Leased(m) /\ job'[m] # job[m] =>
       job'[m].state = "CANCELLED" \/ pc'[job[m].by] # pc[job[m].by]
  /\ job'[m].state = "SENT" =>
       job[m].state = "SENT" \/ \E w \in Workers : Settle(w) /\ pass[w].msg = m

LEMMA ReleasedFields ==
  ASSUME TypeOK, NEW m \in Messages, NEW s
  PROVE  LET r == Released(m, s)
         IN /\ r.state = s /\ r.by = None /\ r.created = job[m].created
            /\ r.made = job[m].made
BY JobTypes DEF Released, JobRecord

LEMMA NotLeased ==
  ASSUME TypeOK, NEW m \in Messages, job[m].until <= now
  PROVE  ~Leased(m)
BY JobTypes, NowType DEF Leased, TypeOK

\* A job given back, stopped, deferred or cancelled.
LEMMA GivenBack ==
  ASSUME TypeOK, NEW m \in Messages, job'[m].by = None,
         job'[m].created = job[m].created, job'[m].state # "ABSENT",
         \/ job'[m].state = "CANCELLED" \/ ~Leased(m)
         \/ \E w \in Workers : job[m].by = w /\ pc'[w] # pc[w],
         job'[m].state = "SENT" => \E w \in Workers : Settle(w) /\ pass[w].msg = m
  PROVE  Fenced(m)
BY NoneAssumption DEF Fenced

LEMMA StopFences ==
  ASSUME TypeOK, NEW m \in Messages, NEW w, StopJob(m, w),
         Leased(m) => job[m].by # w \/ (w \in Workers /\ pc'[w] # pc[w]),
         w = None => ~Leased(m)
  PROVE  Fenced(m)
<1> DEFINE r == Released(m, "WITHDRAWN")
<1>1. CASE Takes(m, w)
  <2>1. job' = [job EXCEPT ![m] = r]
    BY <1>1 DEF StopJob
  <2>2. r.state = "WITHDRAWN" /\ r.by = None /\ r.created = job[m].created
    BY ReleasedFields
  <2> HIDE DEF r
  <2>3. job'[m] = r
    BY <2>1 DEF TypeOK, DatabaseOK
  <2>4. ~Leased(m) \/ \E v \in Workers : job[m].by = v /\ pc'[v] # pc[v]
    BY <1>1, NotLeased DEF Takes
  <2>5. QED
    BY <2>2, <2>3, <2>4, GivenBack
<1>2. CASE ~Takes(m, w)
  BY <1>2 DEF StopJob, Fenced
<1>3. QED
  BY <1>1, <1>2

LEMMA DeferFences ==
  ASSUME TypeOK, NEW m \in Messages, NEW w, DeferJob(m, w),
         Leased(m) => job[m].by # w \/ (w \in Workers /\ pc'[w] # pc[w]),
         w = None => ~Leased(m)
  PROVE  Fenced(m)
<1> DEFINE r == Released(m, "READY")
           d == [r EXCEPT !.notBefore = Larger(@, now + DeferDelay)]
<1>1. CASE Takes(m, w)
  <2>1. job' = [job EXCEPT ![m] = d]
    BY <1>1 DEF DeferJob
  <2>2. r \in JobRecord
    BY ReleasedType, JobTypes DEF Claims
  <2>3. r.state = "READY" /\ r.by = None /\ r.created = job[m].created
    BY ReleasedFields
  <2>4. d.state = "READY" /\ d.by = None /\ d.created = job[m].created
    <3> HIDE DEF r
    <3>1. QED
      BY <2>2, <2>3 DEF JobRecord
  <2> HIDE DEF d
  <2>5. job'[m] = d
    BY <2>1 DEF TypeOK, DatabaseOK
  <2>6. ~Leased(m) \/ \E v \in Workers : job[m].by = v /\ pc'[v] # pc[v]
    BY <1>1, NotLeased DEF Takes
  <2>7. QED
    BY <2>4, <2>5, <2>6, GivenBack
<1>2. CASE ~Takes(m, w)
  BY <1>2 DEF DeferJob, Fenced
<1>3. QED
  BY <1>1, <1>2

LEMMA TakeFences ==
  ASSUME TypeOK, NEW w \in Workers, NEW m \in Messages, NEW mode, NEW starts,
         NEW expires, Take(w, m, mode, starts, expires), Claimable(m), pc[w] = "begun"
  PROVE  \A n \in Messages : Fenced(n)
<1>1. ~Leased(m)
  BY NotLeased DEF Claimable, Unclaimed
<1>2. pc'[w] # pc[w] /\ job'[m].state = "CLAIMED" /\ job'[m].by = w
      /\ job'[m].created = job[m].created
      /\ \A n \in Messages \ {m} : job'[n] = job[n]
  BY TakeEffects
<1>3. QED
  BY <1>1, <1>2 DEF Fenced

LEMMA AdmitsFences ==
  ASSUME IInv, NEW w \in Workers, Admits(w), NEW n \in Messages
  PROVE  Fenced(n)
<1> USE DEF IInv
<1>1. CASE job' = job
  BY <1>1 DEF Fenced
<1>2. ASSUME NEW m \in Messages, Unclaimed(m) PROVE ~Leased(m)
  BY <1>2, NotLeased DEF Unclaimed
<1>3. CASE ClaimRegular(w)
  <2> DEFINE e == EpochFor(cfg[w])
  <2>1. ASSUME NEW m \in Heads(Candidates(cfg[w], e)), AdmitHead(w, m, e)
        PROVE  Fenced(n)
    <3>1. m \in Messages /\ ~Leased(m) /\ pc[w] = "begun"
      BY <1>2, <1>3 DEF Heads, Candidates, ClaimRegular
    <3>2. CASE StopJob(m, None)
      <4>1. Fenced(m)
        BY <3>1, <3>2, StopFences
      <4>2. \A k \in Messages \ {m} : job'[k] = job[k]
        BY <3>1, <3>2, StopKeeps
      <4>3. QED
        BY <4>1, <4>2 DEF Fenced
    <3>3. CASE DeferJob(m, None)
      <4>1. Fenced(m)
        BY <3>1, <3>3, DeferFences
      <4>2. \A k \in Messages \ {m} : job'[k] = job[k]
        BY <3>1, <3>3, DeferKeeps
      <4>3. QED
        BY <4>1, <4>2 DEF Fenced
    <3>4. CASE Claimable(m) /\ Take(w, m, "regular", now, now + Hour)
      BY <3>1, <3>4, TakeFences
    <3>5. QED
      BY <2>1, <3>2, <3>3, <3>4 DEF AdmitHead
  <2>2. QED
    BY <1>1, <1>3, <2>1 DEF ClaimRegular
<1>4. CASE ClaimControlled(w)
  <2>1. ASSUME NEW m \in Messages, Claimable(m),
               Take(w, m, "controlled", cfg[w].starts, cfg[w].ends)
        PROVE  Fenced(n)
    BY <1>4, <2>1, TakeFences DEF ClaimControlled
  <2>2. ASSUME NEW m \in Messages, Unclaimed(m),
               job' = [job EXCEPT ![m] = Released(m, "EXHAUSTED")]
        PROVE  Fenced(n)
    <3> DEFINE r == Released(m, "EXHAUSTED")
    <3>1. r.state = "EXHAUSTED" /\ r.by = None /\ r.created = job[m].created
      BY ReleasedFields
    <3> HIDE DEF r
    <3>2. job'[m] = r /\ \A k \in Messages \ {m} : job'[k] = job[k]
      BY <2>2 DEF r, TypeOK, DatabaseOK
    <3>3. Fenced(m)
      BY <1>2, <2>2, <3>1, <3>2, GivenBack
    <3>4. QED
      BY <3>2, <3>3 DEF Fenced
  <2>3. QED
    BY <1>4, <2>1, <2>2 DEF ClaimControlled, Heads, Fresh, Bound
<1>5. QED
  BY <1>3, <1>4 DEF Admits

LEMMA OpenFences ==
  ASSUME IInv, NEW w \in Workers, Open(w), NEW n \in Messages
  PROVE  Fenced(n)
<1> USE DEF IInv
<1>1. PICK m \in Messages : m = pass[w].msg
  BY DEF Open, PassInv, Holding, Stages
<1>2. ASSUME Finish(w) PROVE pc'[w] # pc[w]
  BY <1>2 DEF Open, Finish, TypeOK, ProcessOK
<1>3. CASE StopJob(m, w) /\ Finish(w)
  <2>1. Fenced(m)
    BY <1>2, <1>3, StopFences, NoneAssumption
  <2>2. \A k \in Messages \ {m} : job'[k] = job[k]
    BY <1>3, StopKeeps
  <2>3. QED
    BY <2>1, <2>2 DEF Fenced
<1>4. CASE DeferJob(m, w) /\ Finish(w)
  <2>1. Fenced(m)
    BY <1>2, <1>4, DeferFences, NoneAssumption
  <2>2. \A k \in Messages \ {m} : job'[k] = job[k]
    BY <1>4, DeferKeeps
  <2>3. QED
    BY <2>1, <2>2 DEF Fenced
<1>5. CASE job' = job
  BY <1>5 DEF Fenced
<1>6. CASE Reservable(w) /\ Reserve(w)
  <2>1. /\ pc[w] = "opening" /\ pc'[w] = "opened" /\ job[m].by = w /\ job'[m].by = w
        /\ job[m].state = "CLAIMED" /\ job'[m].state = "CLAIMED"
        /\ job'[m].created = job[m].created
        /\ \A k \in Messages \ {m} : job'[k] = job[k]
    BY <1>1, <1>6, ReserveEffects DEF Open
  <2>2. QED
    BY <2>1 DEF Fenced
<1>7. QED
  BY <1>1, <1>3, <1>4, <1>5, <1>6 DEF Open

LEMMA EveryJob ==
  ASSUME IInv, [Next]_vars, NEW n \in Messages
  PROVE  Fenced(n)
<1> USE DEF IInv
<1>1. CASE job' = job
  BY <1>1 DEF Fenced
<1>2. ASSUME NEW m \in Messages, Enqueue(m) PROVE Fenced(n)
  <2>1. /\ job[m].state = "ABSENT" /\ job'[m] = NewJob
        /\ \A k \in Messages \ {m} : job'[k] = job[k]
    BY <1>2 DEF Enqueue, TypeOK, DatabaseOK
  <2>2. QED
    BY <2>1 DEF Fenced, NewJob, Leased
<1>3. ASSUME NEW b \in Nat, Cancel(b) PROVE Fenced(n)
  <2>1. job'[n] = job[n] \/ job'[n] = Released(n, "CANCELLED")
    BY <1>3 DEF Cancel
  <2>2. QED
    BY <2>1, ReleasedFields, GivenBack DEF Fenced
<1>4. ASSUME NEW w \in Workers, Withdraw(w) PROVE Fenced(n)
  <2>1. PICK m \in Messages : m = pass[w].msg
    BY <1>4 DEF Withdraw, PassInv, Holding, Stages
  <2> DEFINE r == Released(m, "WITHDRAWN")
  <2>2. r.state = "WITHDRAWN" /\ r.by = None /\ r.created = job[m].created
    BY ReleasedFields
  <2>3. job[m].by = w /\ pc[w] = "withdrawing" /\ pc'[w] = "idle"
    BY <1>4, <2>1 DEF Withdraw, HoldsFor, Mine, Finish, TypeOK, ProcessOK
  <2> HIDE DEF r
  <2>4. job'[m] = r /\ \A k \in Messages \ {m} : job'[k] = job[k]
    BY <1>4, <2>1 DEF r, Withdraw, TypeOK, DatabaseOK
  <2>5. Fenced(m)
    BY <2>2, <2>3, <2>4, GivenBack
  <2>6. QED
    BY <2>4, <2>5 DEF Fenced
<1>5. ASSUME NEW w \in Workers, Settle(w) PROVE Fenced(n)
  <2>1. PICK m \in Messages : m = pass[w].msg
    BY <1>5 DEF Settle, PassInv, Holding, Stages
  <2>2. /\ job'[m].by = None /\ job'[m].state # "ABSENT"
        /\ job'[m].created = job[m].created /\ job[m].by = w /\ pc'[w] = "idle"
        /\ \A k \in Messages \ {m} : job'[k] = job[k]
    BY <1>5, <2>1, SettleEffects
  <2>3. pc[w] # pc'[w]
    BY <1>5, <2>2 DEF Settle
  <2>4. Fenced(m)
    BY <1>5, <2>1, <2>2, <2>3, GivenBack
  <2>5. QED
    BY <2>2, <2>4 DEF Fenced
<1>6. QED
  BY <1>1, <1>2, <1>3, <1>4, <1>5, AdmitsFences, OpenFences, Writers DEF Writes

\* A finished job stays as it is, and no job loses a reservation.
LEMMA EveryEnd ==
  ASSUME IInv, [Next]_vars, NEW m \in Messages
  PROVE  /\ job[m].state \in Terminal => job'[m] = job[m]
         /\ job'[m].made >= job[m].made
<1>1. job[m].made \in Nat
  BY JobTypes DEF IInv
<1>2. ASSUME NEW w \in Workers, Reserves(w)
      PROVE  \/ job'[m] = job[m]
             \/ job[m].state = "CLAIMED" /\ job'[m].made = job[m].made + 1
  BY <1>2, ReserveMoves DEF Reserves
<1>3. QED
  BY <1>1, <1>2, StepKinds DEF HandsOff, Returns, Bookkeeping, Kept, Moved, Terminal

\* A live claim is only ever changed by a step of the pass that holds it, or by the
\* operator's stop: a worker that lost its claim cannot settle, withdraw or defer.
THEOREM ClaimsFenced == Spec => ClaimFence
<1> DEFINE Fence ==
      \A m \in Messages : Leased(m) /\ job'[m] # job[m] =>
        job'[m].state = "CANCELLED" \/ pc'[job[m].by] # pc[job[m].by]
<1>1. IInv /\ [Next]_vars => [Fence]_vars
  BY EveryJob DEF Fenced
<1>2. QED
  BY <1>1, Invariance, PTL DEF Spec, ClaimFence
-----------------------------------------------------------------------------
(* Nothing that left is called unsent.                                     *)

\* What the operator was told of a message stays true of its job.
LEMMA StopStep ==
  ASSUME IInv, StopInv, [Next]_vars
  PROVE  StopInv'
<1> USE DEF IInv
<1>1. ASSUME NEW m \in Messages, report'[m] = "STOPPED_BEFORE_ANY_ATTEMPT"
      PROVE  job'[m].state = "CANCELLED" /\ job'[m].made = 0
  <2>1. CASE report[m] = "STOPPED_BEFORE_ANY_ATTEMPT"
    BY <2>1, EveryEnd DEF StopInv, Terminal
  <2>2. CASE report[m] # "STOPPED_BEFORE_ANY_ATTEMPT"
    <3>1. PICK b \in Nat : Cancel(b)
      BY <1>1, <2>2, Writers DEF Writes
    <3>2. m \in Stoppable(b) /\ Verdict(m) = "STOPPED_BEFORE_ANY_ATTEMPT"
          /\ job'[m] = Released(m, "CANCELLED")
      BY <1>1, <2>2, <3>1 DEF Cancel
    <3>3. ~(job[m].made > 0) /\ job[m].made \in Nat
      BY <3>2, JobTypes DEF Verdict
    <3>4. QED
      BY <3>2, <3>3, ReleasedFields
  <2>3. QED
    BY <2>1, <2>2
<1>2. ASSUME NEW r \in sent', r \notin sent PROVE r.no > 0
  <2>1. PICK w \in Workers : r = Request(w)
    BY <1>2, NewRequest
  <2>2. r.no = pass[w].made + 1 /\ pass[w].made \in Nat
    BY <2>1, PassTypes DEF Request, Number
  <2>3. QED
    BY <2>2
<1>3. QED
  BY <1>1, <1>2 DEF StopInv

LEMMA StopInit == Init => StopInv
BY DEF Init, StopInv

LEMMA StopInvariance == Spec => []StopInv
BY StopInit, StopStep, Invariance, PTL DEF Spec

\* While a pass lives, its job is its own, or cancelled.
LEMMA LiveHeld ==
  ASSUME IInv, NEW w \in Workers, pc[w] \in Holding, Live(w)
  PROVE  LET m == pass[w].msg
         IN /\ m \in Messages
            /\ \/ job[m].state = "CLAIMED" /\ job[m].by = w
               \/ job[m].state = "CANCELLED"
            /\ pc[w] \in {"claimed", "opening"} => job[m].made = pass[w].made
            /\ pc[w] \in Spent => job[m].made = Number(w)
<1>1. /\ pass[w].msg \in Messages /\ Held(w)
      /\ now \in Nat /\ pass[w].deadline \in Nat /\ now < pass[w].deadline
  BY PassTypes DEF IInv, PassInv, ClaimInv, Live
<1>2. QED
  BY <1>1 DEF Held

\* Only the pass that withdraws marks its own reservation as not sent.
LEMMA MarkedBy ==
  ASSUME IInv, [Next]_vars, NEW m \in Messages, NEW n \in 1..MaxAttempts,
         attempt'[m][n].kind = "NOT_SENT", attempt[m][n].kind # "NOT_SENT"
  PROVE  \E w \in Workers : Withdraw(w) /\ pass[w].msg = m /\ Number(w) = n
<1> USE DEF IInv
<1>1. ASSUME NEW w \in Workers, Open(w) PROVE FALSE
  <2>1. Reservable(w) /\ Reserve(w) /\ pc[w] = "opening"
    BY <1>1 DEF Open
  <2>2. pass[w].msg \in Messages
    BY <2>1 DEF PassInv, Holding, Stages
  <2>3. attempt'[m][n] = attempt[m][n] \/ attempt'[m][n].kind = "OPEN"
    BY <2>1, <2>2, ReserveEffects
  <2>4. QED
    BY <2>3
<1>2. ASSUME NEW w \in Workers, Settle(w) PROVE FALSE
  <2>1. pass[w].msg \in Messages
    BY <1>2 DEF Settle, PassInv, Holding, Stages
  <2>2. attempt'[m][n] = attempt[m][n] \/ attempt'[m][n].kind = AttemptKind(pass[w].reply)
    BY <1>2, <2>1, SettleEffects
  <2>3. QED
    BY <2>2 DEF AttemptKind
<1>3. ASSUME NEW w \in Workers, Withdraw(w) PROVE pass[w].msg = m /\ Number(w) = n
  <2>1. /\ pass[w].msg \in Messages
        /\ attempt' = [attempt EXCEPT ![pass[w].msg] = MarkNotSent(pass[w].msg, Number(w))]
    BY <1>3 DEF Withdraw, PassInv, Holding, Stages
  <2>2. m = pass[w].msg /\ attempt'[m][n] = MarkNotSent(m, Number(w))[n]
    BY <2>1 DEF TypeOK, DatabaseOK
  <2>3. QED
    BY <2>2 DEF MarkNotSent
<1>4. PICK w \in Workers : Open(w) \/ Withdraw(w) \/ Settle(w)
  BY Writers DEF Writes
<1>5. QED
  BY <1>1, <1>2, <1>3, <1>4

LEMMA VetoStep ==
  ASSUME IInv, StopInv, VetoInv, [Next]_vars
  PROVE  VetoInv'
<1> USE DEF IInv
<1>1. now \in Nat /\ now' \in Nat /\ now <= now'
  BY Clock
<1>2. ASSUME NEW w \in Workers, pc'[w] = "withdrawing", Live(w)', Mine(w)',
             NEW r \in sent', r.msg = pass'[w].msg
      PROVE  r.no # Number(w)'
  <2>1. CASE Keeps(w)
    <3>1. pc[w] = "withdrawing" /\ pass'[w] = pass[w] /\ Number(w)' = Number(w)
      BY <1>2, <2>1 DEF Keeps, Number
    <3>2. Live(w)
      BY <1>1, <1>2, <3>1, PassTypes DEF Live
    <3>3. pass[w].msg \in Messages
      BY <3>1 DEF PassInv, Holding, Stages
    <3>4. Mine(w)
      BY <1>2, <3>1, <3>3, EveryJob DEF Fenced, Mine
    <3>5. CASE r \in sent
      BY <1>2, <3>1, <3>2, <3>4, <3>5 DEF VetoInv
    <3>6. CASE r \notin sent
      <4>1. PICK u \in Workers : pc[u] = "cleared" /\ Live(u) /\ r = Request(u)
        BY <3>6, NewRequest
      <4>2. pass[u].msg = pass[w].msg /\ u # w
        BY <1>2, <3>1, <4>1 DEF Request
      <4>3. QED
        BY <3>4, <4>1, <4>2, LiveHeld DEF Mine, Holding, Stages
    <3>7. QED
      BY <3>5, <3>6
  <2>2. CASE Moves(w)
    <3>1. /\ pc[w] \in {"claimed", "opening"} \cup Unsent /\ Live(w)
          /\ pass'[w] = pass[w] /\ Number(w)' = Number(w) /\ r \in sent
      BY <1>2, <2>2 DEF Moves, Advance, Unsent, Number
    <3>2. CASE pc[w] \in Unsent
      BY <1>2, <3>1, <3>2 DEF SpentInv, Unsent, Spent
    <3>3. CASE pc[w] \in {"claimed", "opening"}
      <4>1. job[pass[w].msg].made = pass[w].made
        BY <3>1, <3>3, LiveHeld DEF Holding, Stages
      <4>2. r.no <= pass[w].made /\ r.no \in Nat /\ pass[w].made \in Nat
        BY <1>2, <3>1, <4>1, PassTypes DEF RowsInv, TypeOK, ProviderOK, RequestRecord
      <4>3. QED
        BY <3>1, <4>2 DEF Number
    <3>4. QED
      BY <3>1, <3>2, <3>3
  <2>3. pc'[w] # "withdrawing" \/ Keeps(w) \/ Moves(w)
    BY EveryPass DEF PassStep, Begin, TakesJob, Take, Reserves, Reserve, HandsOff, Answer,
       TypeOK, ProcessOK
  <2>4. QED
    BY <1>2, <2>1, <2>2, <2>3
<1>3. ASSUME NEW w \in Workers, pc'[w] \in Unsent, Live(w)'
      PROVE  attempt'[pass'[w].msg][Number(w)'].kind # "NOT_SENT"
  <2>1. ASSUME pc[w] \in Unsent, pass'[w] = pass[w], Live(w)
        PROVE  attempt'[pass'[w].msg][Number(w)'].kind # "NOT_SENT"
    <3>1. PICK m \in Messages : m = pass[w].msg
      BY <2>1 DEF PassInv, Holding, Unsent, Stages
    <3>2. Number(w)' = Number(w) /\ job[m].made = Number(w)
          /\ (job[m].state = "CLAIMED" => job[m].by = w)
      BY <2>1, <3>1, LiveHeld DEF Number, Holding, Unsent, Stages, Spent
    <3>3. PICK n \in 1..MaxAttempts : n = Number(w)
      BY <3>2, JobTypes, PassTypes DEF Number
    <3>4. attempt[m][n].kind # "NOT_SENT"
      BY <2>1, <3>1, <3>3 DEF VetoInv
    <3>5. ASSUME NEW u \in Workers, Withdraw(u), pass[u].msg = m PROVE FALSE
      <4>1. pc[u] = "withdrawing" /\ job[m].state = "CLAIMED" /\ job[m].by = u
        BY <3>5 DEF Withdraw, HoldsFor, Mine
      <4>2. QED
        BY <2>1, <3>2, <4>1 DEF Unsent
    <3>6. QED
      BY <2>1, <3>1, <3>2, <3>3, <3>4, <3>5, MarkedBy
  <2>2. CASE Keeps(w)
    <3>1. Live(w)
      BY <1>1, <1>3, <2>2, PassTypes DEF Keeps, Live
    <3>2. QED
      BY <1>3, <2>1, <2>2, <3>1 DEF Keeps
  <2>3. CASE Moves(w)
    BY <1>3, <2>1, <2>3 DEF Moves, Advance, Unsent
  <2>4. CASE Reserves(w)
    <3>1. pass[w].msg \in Messages
      BY <2>4 DEF Reserves, PassInv, Holding, Stages
    <3>2. attempt'[pass'[w].msg][Number(w)].kind = "OPEN" /\ Number(w)' = Number(w)
      BY <2>4, <3>1, ReserveEffects DEF Reserves, Number
    <3>3. QED
      BY <3>2
  <2>5. pc'[w] \notin Unsent \/ Keeps(w) \/ Moves(w) \/ Reserves(w)
    BY EveryPass DEF PassStep, Begin, TakesJob, Take, HandsOff, Answer, TypeOK, ProcessOK,
       Unsent
  <2>6. QED
    BY <1>3, <2>2, <2>3, <2>4, <2>5
<1>4. ASSUME NEW r \in sent' PROVE attempt'[r.msg][r.no].kind # "NOT_SENT"
  <2>1. CASE r \in sent
    <3>1. PICK m \in Messages : m = r.msg
      BY <2>1 DEF TypeOK, ProviderOK, RequestRecord
    <3>2. r.no \in Nat /\ r.no > 0 /\ r.no <= job[m].made
      BY <2>1, <3>1 DEF StopInv, RowsInv, TypeOK, ProviderOK, RequestRecord
    <3>3. r.no \in 1..MaxAttempts
      BY <3>2, JobTypes, DurationTypes
    <3>4. attempt[m][r.no].kind # "NOT_SENT"
      BY <2>1, <3>1 DEF VetoInv, VetoTruthful
    <3>5. ASSUME NEW w \in Workers, Withdraw(w), pass[w].msg = m, Number(w) = r.no
          PROVE  FALSE
      <4>1. pc[w] = "withdrawing" /\ Live(w) /\ Mine(w)
        BY <3>5 DEF Withdraw, HoldsFor
      <4>2. QED
        BY <2>1, <3>1, <3>5, <4>1 DEF VetoInv
    <3>6. QED
      BY <3>1, <3>3, <3>4, <3>5, MarkedBy
  <2>2. CASE r \notin sent
    <3>1. PICK w \in Workers : /\ pc[w] = "cleared" /\ Live(w) /\ r = Request(w)
                               /\ UNCHANGED database
      BY <2>2, NewRequest
    <3>2. r.msg = pass[w].msg /\ r.no = Number(w) /\ attempt' = attempt
      BY <3>1 DEF Request, database
    <3>3. QED
      BY <3>1, <3>2 DEF VetoInv, Unsent
  <2>3. QED
    BY <2>1, <2>2
<1>5. QED
  BY <1>2, <1>3, <1>4 DEF VetoInv, VetoTruthful

LEMMA VetoInit == Init => VetoInv
BY DEF Init, VetoInv, VetoTruthful, Unsent

LEMMA VetoInvariance == Spec => []VetoInv
BY VetoInit, VetoStep, Invariance, StopInvariance, PTL DEF Spec

\* Neither the rows nor the operator's report call unsent what has left: no request
\* carries a reservation marked NOT_SENT_LOCAL_VETO, and none is of a message of
\* which the operator was told that it was stopped before any attempt.
THEOREM UnsentIsUnsent == Spec => []UnsentTruthful
<1>1. IInv /\ StopInv /\ VetoInv => UnsentTruthful
  <2>1. SUFFICES ASSUME IInv, StopInv, VetoInv, NEW r \in sent
        PROVE  report[r.msg] # "STOPPED_BEFORE_ANY_ATTEMPT"
    BY DEF UnsentTruthful, StopTruthful, VetoInv
  <2>2. r.msg \in Messages /\ r.no \in Nat /\ r.no > 0 /\ r.no <= job[r.msg].made
    BY <2>1 DEF IInv, TypeOK, ProviderOK, RequestRecord, RowsInv, StopInv
  <2>3. QED
    BY <2>1, <2>2 DEF StopInv
<1>2. QED
  BY <1>1, Invariance, StopInvariance, VetoInvariance, PTL
-----------------------------------------------------------------------------
(* Answers and events agree.                                               *)

\* AcceptedTogether, message by message.
Won(m) ==
  IF job[m].state = "SENT"
  THEN /\ envelope[m].pid = envelope[m].key /\ envelope[m].pid \in accepted
       /\ job[m].made \in 1..MaxAttempts
       /\ \A n \in 1..MaxAttempts : attempt[m][n].kind = "ACCEPTED" <=> n = job[m].made
  ELSE envelope[m].pid = 0 /\ \A n \in 1..MaxAttempts : attempt[m][n].kind # "ACCEPTED"

LEMMA WonTogether == AcceptedTogether <=> \A m \in Messages : Won(m)
<1>1. ASSUME NEW m \in Messages, AcceptedTogether PROVE Won(m)
  <2> DEFINE won == {n \in 1..MaxAttempts : attempt[m][n].kind = "ACCEPTED"}
  <2>1. CASE job[m].state = "SENT"
    <3>1. /\ envelope[m].pid = envelope[m].key /\ envelope[m].pid \in accepted
          /\ won = {job[m].made}
      BY <1>1, <2>1 DEF AcceptedTogether
    <3>2. QED
      BY <2>1, <3>1 DEF Won
  <2>2. CASE job[m].state # "SENT"
    <3>1. envelope[m].pid = 0 /\ won = {}
      BY <1>1, <2>2 DEF AcceptedTogether
    <3>2. QED
      BY <2>2, <3>1 DEF Won
  <2>3. QED
    BY <2>1, <2>2
<1>2. ASSUME \A m \in Messages : Won(m) PROVE AcceptedTogether
  BY <1>2 DEF AcceptedTogether, Won
<1>3. QED
  BY <1>1, <1>2

\* Without a settlement nothing of a message's outcome changes.
LEMMA OutcomeKept ==
  ASSUME IInv, [Next]_vars, NEW m \in Messages, Won(m),
         ~ \E w \in Workers : Settle(w) /\ pass[w].msg = m
  PROVE  Won(m)'
<1> USE DEF IInv
<1>1. job'[m].state = "SENT" <=> job[m].state = "SENT"
  BY EveryJob, EveryEnd DEF Fenced, Terminal
<1>2. job[m].state = "SENT" => job'[m].made = job[m].made
  BY EveryEnd DEF Terminal
<1>3. accepted \subseteq accepted'
  BY Writers DEF Writes
<1> DEFINE PidKept ==
      /\ job[m].state = "SENT" =>
           envelope'[m].pid = envelope[m].pid /\ envelope'[m].key = envelope[m].key
      /\ job[m].state # "SENT" => envelope'[m].pid = 0
<1>4. PidKept
  <2>1. CASE envelope' = envelope
    BY <2>1 DEF Won
  <2>2. ASSUME NEW w \in Workers, Admits(w) PROVE PidKept
    <3>1. ASSUME NEW n \in Messages, Issues(w, n) PROVE PidKept
      <4>1. n # m => envelope'[m] = envelope[m]
        BY <3>1 DEF Issues
      <4>2. n = m => envelope'[m].pid = 0 /\ job[m].state # "SENT"
        BY <3>1 DEF Issues, IssuesRegular, IssuesControlled, Issued, Claimable, Unclaimed,
           Claims
      <4>3. QED
        BY <4>1, <4>2 DEF Won
    <3>2. QED
      BY <2>1, <2>2, <3>1, AdmitsEnvelopes
  <2>3. ASSUME NEW w \in Workers, Open(w), ~(envelope' = envelope)
        PROVE  PidKept
    <3>1. Reservable(w) /\ Reserve(w) /\ pc[w] = "opening"
      BY <2>3 DEF Open
    <3>2. pass[w].msg \in Messages
      BY <3>1 DEF PassInv, Holding, Stages
    <3>3. envelope'[m].pid = envelope[m].pid /\ envelope'[m].key = envelope[m].key
      BY <3>1, <3>2, ReserveEffects DEF SameMail
    <3>4. QED
      BY <3>3 DEF Won
  <2>4. ASSUME NEW w \in Workers, Settle(w) PROVE PidKept
    <3>1. pass[w].msg \in Messages /\ pass[w].msg # m
      BY <2>4 DEF Settle, PassInv, Holding, Stages
    <3>2. envelope'[m] = envelope[m]
      BY <2>4, <3>1, SettleEffects
    <3>3. QED
      BY <3>2 DEF Won
  <2>5. QED
    BY <2>1, <2>2, <2>3, <2>4, Writers DEF Writes
<1>5. ASSUME NEW n \in 1..MaxAttempts
      PROVE  attempt'[m][n].kind = "ACCEPTED" <=> attempt[m][n].kind = "ACCEPTED"
  <2> DEFINE Same == attempt'[m][n].kind = "ACCEPTED" <=> attempt[m][n].kind = "ACCEPTED"
  <2>1. ASSUME NEW w \in Workers, Open(w), ~(attempt' = attempt) PROVE Same
    <3>1. Reservable(w) /\ Reserve(w) /\ pc[w] = "opening"
      BY <2>1 DEF Open
    <3>2. pass[w].msg \in Messages
      BY <3>1 DEF PassInv, Holding, Stages
    <3>3. attempt[pass[w].msg][Number(w)].kind = "NONE"
      BY <3>1 DEF Reservable, NoAttempt
    <3>4. \/ attempt'[m][n] = attempt[m][n]
          \/ /\ attempt'[m][n].kind = "OPEN" /\ m = pass[w].msg /\ n = Number(w)
      BY <3>1, <3>2, ReserveEffects
    <3>5. QED
      BY <3>3, <3>4
  <2>2. ASSUME NEW w \in Workers, Settle(w) PROVE Same
    <3>1. pass[w].msg \in Messages /\ pass[w].msg # m
      BY <2>2 DEF Settle, PassInv, Holding, Stages
    <3>2. attempt'[m] = attempt[m]
      BY <2>2, <3>1, SettleEffects
    <3>3. QED
      BY <3>2
  <2>3. ASSUME NEW w \in Workers, Withdraw(w) PROVE Same
    <3> DEFINE k == pass[w].msg
               marks == MarkNotSent(k, Number(w))
    <3>1. k \in Messages /\ attempt' = [attempt EXCEPT ![k] = marks]
      BY <2>3 DEF Withdraw, PassInv, Holding, Stages
    <3>2. attempt[k] \in [1..MaxAttempts -> AttemptRecord]
      BY <3>1 DEF TypeOK, DatabaseOK
    <3>3. \A a \in AttemptRecord : [a EXCEPT !.kind = "NOT_SENT"].kind = "NOT_SENT"
      BY DEF AttemptRecord
    <3>4. marks[n] = attempt[k][n] \/ (marks[n].kind = "NOT_SENT" /\ attempt[k][n].kind # "ACCEPTED")
      BY <3>2, <3>3 DEF MarkNotSent
    <3> HIDE DEF marks
    <3>5. attempt'[m] = attempt[m] \/ (m = k /\ attempt'[m] = marks)
      BY <3>1 DEF TypeOK, DatabaseOK
    <3>6. QED
      BY <3>4, <3>5
  <2>4. QED
    BY <2>1, <2>2, <2>3, Writers DEF Writes
<1>6. QED
  BY <1>1, <1>2, <1>3, <1>4, <1>5 DEF Won

LEMMA OutcomeStep ==
  ASSUME IInv, MailInv, OutcomeInv, [Next]_vars
  PROVE  OutcomeInv'
<1> USE DEF IInv
<1>1. ASSUME NEW w \in Workers, pc'[w] = "answered", pass'[w].reply = "ACCEPTED"
      PROVE  pass'[w].key \in accepted'
  <2>1. accepted \subseteq accepted'
    BY Writers DEF Writes
  <2>2. CASE Keeps(w)
    BY <1>1, <2>1, <2>2 DEF Keeps, OutcomeInv
  <2>3. ASSUME NEW reply \in Replies, Answer(w, reply) PROVE pass'[w].key \in accepted'
    <3>1. pass[w] \in PassRecord /\ pass'[w] = [pass[w] EXCEPT !.reply = reply]
      BY <2>3 DEF Answer, TypeOK, ProcessOK
    <3>2. pass'[w].reply = reply /\ pass'[w].key = pass[w].key
      BY <3>1 DEF PassRecord
    <3>3. QED
      BY <1>1, <2>1, <2>3, <3>2 DEF Answer
  <2>4. Keeps(w) \/ \E reply \in Replies : Answer(w, reply)
    BY <1>1, EveryPass DEF PassStep, Begin, TakesJob, Take, Moves, Reserves, Reserve,
       HandsOff, TypeOK, ProcessOK
  <2>5. QED
    BY <2>2, <2>3, <2>4
<1>2. ASSUME NEW w \in Workers, Settle(w), NEW m \in Messages, m = pass[w].msg
      PROVE  Won(m)'
  <2>1. job[m].state = "CLAIMED" /\ Number(w) \in 1..MaxAttempts /\ job[m].made = Number(w)
    BY <1>2, SettleEffects
  <2>2. envelope[m].pid = 0 /\ \A n \in 1..MaxAttempts : attempt[m][n].kind # "ACCEPTED"
    BY <2>1, WonTogether DEF OutcomeInv, OutcomesAgree, Won
  <2>3. pc[w] = "answered" /\ pass[w].key = envelope[m].key
    BY <1>2 DEF Settle, MailInv, Spent
  <2>4. CASE pass[w].reply = "ACCEPTED"
    <3>1. /\ job'[m].state = "SENT" /\ job'[m].made = Number(w)
          /\ envelope'[m].pid = envelope[m].key /\ envelope'[m].key = envelope[m].key
          /\ attempt'[m][Number(w)].kind = "ACCEPTED"
          /\ \A n \in 1..MaxAttempts \ {Number(w)} : attempt'[m][n] = attempt[m][n]
      BY <1>2, <2>1, <2>3, <2>4, SettleEffects DEF AttemptKind, SameMail
    <3>2. pass[w].key \in accepted /\ accepted \subseteq accepted'
      BY <2>3, <2>4, Writers DEF OutcomeInv, Writes
    <3>3. QED
      BY <2>1, <2>2, <2>3, <3>1, <3>2 DEF Won
  <2>5. CASE pass[w].reply # "ACCEPTED"
    <3>1. /\ job'[m].state # "SENT" /\ envelope' = envelope
          /\ attempt'[m][Number(w)].kind = AttemptKind(pass[w].reply)
          /\ \A n \in 1..MaxAttempts \ {Number(w)} : attempt'[m][n] = attempt[m][n]
      BY <1>2, <2>5, SettleEffects
    <3>2. AttemptKind(pass[w].reply) # "ACCEPTED"
      BY <2>5 DEF AttemptKind
    <3>3. QED
      BY <2>2, <3>1, <3>2 DEF Won
  <2>6. QED
    BY <2>4, <2>5
<1>3. AcceptedTogether'
  <2>1. \A m \in Messages : Won(m)'
    BY <1>2, WonTogether, OutcomeKept DEF OutcomeInv, OutcomesAgree
  <2>2. ((\A m \in Messages : Won(m)) => AcceptedTogether)'
    BY WonTogether, PTL
  <2>3. QED
    BY <2>1, <2>2
<1>4. ASSUME NEW m \in Messages, envelope'[m].pid > 0, envelope'[m].pid \in events'
      PROVE  envelope'[m].rcpt \in suppressed'
  <2> DEFINE Goal == envelope'[m].rcpt \in suppressed'
  <2>1. ASSUME NEW w \in Workers, Settle(w) PROVE Goal
    <3>1. PICK k \in Messages : k = pass[w].msg
      BY <2>1 DEF Settle, PassInv, Holding, Stages
    <3>2. \A n \in Messages \ {k} : envelope'[n] = envelope[n]
      BY <2>1, <3>1, SettleEffects
    <3>3. events' = events /\ suppressed \subseteq suppressed'
      BY <2>1, <3>1, SettleEffects DEF Reconciled
    <3>4. CASE m # k \/ pass[w].reply # "ACCEPTED"
      <4>1. envelope'[m] = envelope[m]
        BY <2>1, <3>1, <3>2, <3>4, SettleEffects
      <4>2. QED
        BY <1>4, <3>3, <4>1 DEF OutcomeInv, OutcomesAgree, EventsReconciled
    <3>5. CASE m = k /\ pass[w].reply = "ACCEPTED"
      <4>1. /\ envelope'[m].pid = pass[w].key
            /\ suppressed' = Reconciled(pass[w].key, envelope', events)
        BY <2>1, <3>1, <3>5, SettleEffects
      <4>2. QED
        BY <1>4, <3>3, <4>1 DEF Reconciled
    <3>6. QED
      BY <3>4, <3>5
  <2>2. ASSUME NEW k \in accepted, RecordEvent(k) PROVE Goal
    <3>1. /\ envelope' = envelope /\ events' = events \cup {k}
          /\ suppressed' = Reconciled(k, envelope, events')
      BY <2>2 DEF RecordEvent
    <3>2. CASE envelope[m].pid = k
      BY <3>1, <3>2 DEF Reconciled
    <3>3. CASE envelope[m].pid # k
      <4>1. envelope[m].rcpt \in suppressed
        BY <1>4, <3>1, <3>3 DEF OutcomeInv, OutcomesAgree, EventsReconciled
      <4>2. QED
        BY <3>1, <4>1 DEF Reconciled
    <3>4. QED
      BY <3>2, <3>3
  <2>3. CASE UNCHANGED <<events, suppressed>> /\ ~ \E w \in Workers : Settle(w)
    <3>1. CASE envelope'[m].pid = envelope[m].pid /\ envelope'[m].rcpt = envelope[m].rcpt
      BY <1>4, <2>3, <3>1 DEF OutcomeInv, OutcomesAgree, EventsReconciled
    <3>2. CASE envelope' = envelope
      BY <3>1, <3>2
    <3>3. ASSUME NEW w \in Workers, Admits(w) PROVE Goal
      <4>1. ASSUME NEW n \in Messages, Issues(w, n) PROVE Goal
        <5>1. n # m => envelope'[m] = envelope[m]
          BY <4>1 DEF Issues
        <5>2. n = m => envelope'[m].pid = 0
          BY <4>1 DEF Issues, IssuesRegular, IssuesControlled, Issued
        <5>3. QED
          BY <1>4, <3>1, <5>1, <5>2
      <4>2. QED
        BY <3>2, <3>3, <4>1, AdmitsEnvelopes
    <3>4. ASSUME NEW w \in Workers, Open(w), ~(envelope' = envelope) PROVE Goal
      <4>1. Reservable(w) /\ Reserve(w) /\ pc[w] = "opening"
        BY <3>4 DEF Open
      <4>2. pass[w].msg \in Messages
        BY <4>1 DEF PassInv, Holding, Stages
      <4>3. envelope'[m].pid = envelope[m].pid /\ envelope'[m].rcpt = envelope[m].rcpt
        BY <4>1, <4>2, ReserveEffects DEF SameMail
      <4>4. QED
        BY <3>1, <4>3
    <3>5. QED
      BY <2>3, <3>2, <3>3, <3>4, Writers DEF Writes
  <2>4. QED
    BY <2>1, <2>2, <2>3, Writers DEF Writes
<1>5. QED
  BY <1>1, <1>3, <1>4 DEF OutcomeInv, OutcomesAgree, EventsReconciled

LEMMA OutcomeInit == Init => OutcomeInv
BY DEF Init, OutcomeInv, OutcomesAgree, AcceptedTogether, EventsReconciled, NoJob,
       NoEnvelope, NoAttempt

LEMMA OutcomeInvariance == Spec => []OutcomeInv
BY OutcomeInit, OutcomeStep, Invariance, MailInvariance, PTL DEF Spec

\* The provider's answers and events, in whatever order they commit, leave the job,
\* its envelope, its attempts and the suppressions in agreement.
THEOREM OutcomesAlwaysAgree == Spec => []OutcomesAgree
<1>1. OutcomeInv => OutcomesAgree
  BY DEF OutcomeInv
<1>2. QED
  BY <1>1, OutcomeInvariance, PTL
-----------------------------------------------------------------------------
(* Epochs and windows lie apart.                                           *)

LEMMA EpochTypes ==
  ASSUME TypeOK, NEW a \in Activations
  PROVE  epoch[a].cutoff \in Nat /\ epoch[a].closed \in Nat
BY DEF TypeOK, DatabaseOK, EpochRecord

LEMMA EnvelopeTypes ==
  ASSUME TypeOK, NEW m \in Messages
  PROVE  /\ envelope[m].key \in Nat /\ envelope[m].starts \in Nat
         /\ envelope[m].created \in Nat /\ envelope[m].expires \in Nat
         /\ envelope[m].act \in Activations \cup {None} /\ envelope[m].mode \in Modes
BY DEF TypeOK, DatabaseOK, EnvelopeRecord

LEMMA CfgTypes ==
  ASSUME TypeOK, NEW w \in Workers
  PROVE  /\ cfg[w].mode \in Modes /\ cfg[w].act \in Activations
         /\ cfg[w].rcpt \in Addresses /\ cfg[w].starts \in Nat /\ cfg[w].ends \in Nat
BY ConfigType DEF TypeOK, ProcessOK

\* The pass of w registers the epoch a, or finds it open.
Registered(w, a) ==
  /\ ~Known(a) /\ ~EpochConflict(cfg[w])
  /\ epoch'[a].cutoff = now /\ epoch'[a].closed = 0
  /\ \A b \in Activations \ {a} : epoch'[b] = epoch[b]

LEMMA AdmittingEpoch ==
  ASSUME IInv, EpochInv, NEW w \in Workers, ClaimRegular(w), NEW a, a = cfg[w].act
  PROVE  /\ a \in Activations /\ epoch'[a] = EpochFor(cfg[w])
         /\ \/ epoch' = epoch /\ OpenEpoch(a)
            \/ Registered(w, a)
<1> USE DEF IInv
<1> DEFINE c == cfg[w]
           e == EpochFor(c)
<1>1. a \in Activations /\ c.starts \in Nat /\ now \in Nat
  BY CfgTypes, NowType DEF TypeOK
<1>2. epoch' = [epoch EXCEPT ![a] = e] /\ e # NoEpoch /\ pc[w] = "begun"
  BY DEF ClaimRegular
<1>3. epoch \in [Activations -> EpochRecord]
  BY DEF TypeOK, DatabaseOK
<1>4. epoch'[a] = e /\ \A b \in Activations \ {a} : epoch'[b] = epoch[b]
  BY <1>1, <1>2, <1>3
<1>5. CASE Known(a)
  <2>1. e = epoch[a] /\ OpenEpoch(a)
    BY <1>2, <1>5 DEF EpochFor
  <2>2. epoch' = epoch
    BY <1>1, <1>2, <1>3, <2>1
  <2>3. QED
    BY <1>1, <1>4, <2>1, <2>2
<1>6. CASE ~Known(a)
  <2>1. /\ ~EpochConflict(c)
        /\ e = [cutoff |-> Larger(c.starts, now), declared |-> c.starts,
                rcpt |-> c.rcpt, closed |-> 0]
    BY <1>2, <1>6 DEF EpochFor
  <2>2. c.starts <= now
    BY <1>2 DEF EpochInv
  <2>3. e.cutoff = now /\ e.closed = 0
    BY <1>1, <2>1, <2>2 DEF Larger
  <2>4. QED
    BY <1>1, <1>4, <1>6, <2>1, <2>3 DEF Registered
<1>7. QED
  BY <1>5, <1>6

\* The pass of w closes the epoch a.
Closes(w, a) ==
  /\ OpenEpoch(a) /\ epoch'[a].closed = now
  /\ epoch'[a].cutoff = epoch[a].cutoff
  /\ \A b \in Activations \ {a} : epoch'[b] = epoch[b]

LEMMA EpochSteps ==
  ASSUME IInv, EpochInv, [Next]_vars
  PROVE  \/ epoch' = epoch
         \/ \E w \in Workers, a \in Activations : Closes(w, a)
         \/ \E w \in Workers : ClaimRegular(w) /\ Registered(w, cfg[w].act)
<1> USE DEF IInv
<1>1. ASSUME NEW w \in Workers, CloseEpoch(w) PROVE \E a \in Activations : Closes(w, a)
  <2>1. PICK a \in Activations : a = cfg[w].act
    BY CfgTypes
  <2>2. OpenEpoch(a) /\ epoch' = [epoch EXCEPT ![a].closed = now]
    BY <1>1, <2>1 DEF CloseEpoch
  <2>3. Closes(w, a)
    BY <2>1, <2>2 DEF Closes, TypeOK, DatabaseOK, EpochRecord
  <2>4. QED
    BY <2>3
<1>2. ASSUME NEW w \in Workers, ClaimRegular(w)
      PROVE  epoch' = epoch \/ Registered(w, cfg[w].act)
  BY <1>2, AdmittingEpoch
<1>3. QED
  BY <1>1, <1>2, Writers DEF Writes

\* An epoch that is known stays as it is, but for its closing.
LEMMA EpochKept ==
  ASSUME IInv, EpochInv, [Next]_vars, NEW a \in Activations, Known(a)
  PROVE  /\ Known(a)' /\ epoch'[a].cutoff = epoch[a].cutoff
         /\ \/ epoch'[a].closed = epoch[a].closed
            \/ OpenEpoch(a) /\ epoch'[a].closed = now
<1>1. ASSUME NEW w \in Workers, NEW b \in Activations, Closes(w, b)
      PROVE  /\ epoch'[a].cutoff = epoch[a].cutoff
             /\ \/ epoch'[a].closed = epoch[a].closed
                \/ OpenEpoch(a) /\ epoch'[a].closed = now
  BY <1>1 DEF Closes
<1>2. ASSUME NEW w \in Workers, Registered(w, cfg[w].act)
      PROVE  epoch'[a] = epoch[a]
  BY <1>2 DEF Registered
<1>3. QED
  BY <1>1, <1>2, EpochSteps DEF Known

\* A pass that claims a job holds mail of its own activation.
LEMMA ClaimedMail ==
  ASSUME IInv, EpochInv, NEW w \in Workers, Admits(w), pc'[w] = "claimed"
  PROVE  LET v == envelope'[pass'[w].msg]
         IN v.key > 0 /\ v.mode = cfg[w].mode /\ v.act = cfg[w].act
<1> USE DEF IInv
<1> DEFINE c == cfg[w]
           Goal == LET v == envelope'[pass'[w].msg]
                   IN v.key > 0 /\ v.mode = c.mode /\ v.act = c.act
<1>1. ~Finish(w)
  BY DEF Finish, TypeOK, ProcessOK
<1>2. ASSUME NEW m \in Messages, NEW mode, NEW starts, NEW expires,
             Take(w, m, mode, starts, expires), c.mode = mode,
             HasEnvelope(m) => envelope[m].mode = mode /\ envelope[m].act = c.act
      PROVE  Goal
  <2>1. /\ pass'[w].msg = m
        /\ HasEnvelope(m) => envelope' = envelope
        /\ ~HasEnvelope(m) => Issued(w, m, mode, starts, expires)
    BY <1>2, TakeEffects
  <2>2. minted \in Nat
    BY DEF TypeOK, DatabaseOK
  <2>3. QED
    BY <1>2, <2>1, <2>2 DEF Issued, HasEnvelope
<1>3. CASE ClaimRegular(w)
  <2>1. PICK m \in Heads(Candidates(c, EpochFor(c))) :
          Take(w, m, "regular", now, now + Hour)
    BY <1>1, <1>3 DEF ClaimRegular, AdmitHead
  <2>2. /\ m \in Messages /\ c.mode = "regular"
        /\ HasEnvelope(m) => envelope[m].mode = "regular" /\ envelope[m].act = c.act
    BY <1>3 DEF Heads, Candidates, ClaimRegular
  <2>3. QED
    BY <1>2, <2>1, <2>2
<1>4. CASE ClaimControlled(w)
  <2>1. c.mode = "controlled" /\ ~Known(c.act)
    BY <1>4 DEF ClaimControlled
  <2>2. ASSUME NEW m \in Heads(Fresh(c)), Take(w, m, "controlled", c.starts, c.ends)
        PROVE  Goal
    <3>1. m \in Messages /\ ~HasEnvelope(m)
      BY DEF Heads, Fresh
    <3>2. QED
      BY <1>2, <2>1, <2>2, <3>1
  <2>3. ASSUME NEW m \in Bound(c), Take(w, m, "controlled", c.starts, c.ends)
        PROVE  Goal
    <3>1. m \in Messages /\ HasEnvelope(m) /\ envelope[m].act = c.act
      BY DEF Bound
    <3>2. envelope[m].mode = "controlled"
      BY <2>1, <3>1 DEF EpochInv
    <3>3. QED
      BY <1>2, <2>1, <2>3, <3>1, <3>2
  <2>4. QED
    BY <1>1, <1>4, <2>2, <2>3 DEF ClaimControlled
<1>5. QED
  BY <1>3, <1>4 DEF Admits

\* A pass that has claimed and goes on keeps its job, deadline and settings.
LEMMA GoesOn ==
  ASSUME IInv, [Next]_vars, NEW w \in Workers, pc'[w] \in Holding
  PROVE  \/ Admits(w) /\ TakesJob(w) /\ pc'[w] = "claimed" /\ cfg'[w] = cfg[w]
         \/ /\ pc[w] \in Holding /\ cfg'[w] = cfg[w]
            /\ pass'[w].msg = pass[w].msg /\ pass'[w].made = pass[w].made
            /\ pass'[w].deadline = pass[w].deadline
<1> USE DEF IInv
<1>1. pass[w] \in PassRecord /\ pc \in [Workers -> Stages] /\ pass \in [Workers -> PassRecord]
  BY DEF TypeOK, ProcessOK
<1>2. CASE Keeps(w) \/ Moves(w)
  BY <1>2 DEF Keeps, Moves, Advance, Holding, Stages
<1>3. CASE Admits(w) /\ TakesJob(w)
  BY <1>1, <1>3 DEF TakesJob, Take
<1>4. CASE Reserves(w)
  <2>1. pc[w] = "opening"
    BY <1>4 DEF Reserves
  <2>2. pass[w].msg \in Messages
    BY <2>1 DEF PassInv, Holding, Stages
  <2>3. QED
    BY <1>4, <2>1, <2>2, ReserveEffects DEF Reserves, Holding, Stages
<1>5. CASE HandsOff(w) /\ Send(w)
  <2>1. pc[w] = "cleared" /\ pass' = [pass EXCEPT ![w].until = now + Timeout] /\ cfg' = cfg
    BY <1>5 DEF HandsOff, Send, Step
  <2>2. QED
    BY <1>1, <2>1 DEF PassRecord, Holding, Stages
<1>6. ASSUME NEW reply \in Replies, Answer(w, reply)
      PROVE  /\ pc[w] \in Holding /\ cfg'[w] = cfg[w]
             /\ pass'[w].msg = pass[w].msg /\ pass'[w].made = pass[w].made
             /\ pass'[w].deadline = pass[w].deadline
  BY <1>1, <1>6 DEF Answer, PassRecord, Holding, Stages
<1>7. pc'[w] # "idle" /\ ~Begin(w)
  BY <1>1 DEF Begin, Holding
<1>8. QED
  BY <1>2, <1>3, <1>4, <1>5, <1>6, <1>7, EveryPass DEF PassStep

\* The envelope of a step that issues one is the only new one.
LEMMA OldOrIssued ==
  ASSUME IInv, [Next]_vars, NEW m \in Messages, HasEnvelope(m)'
  PROVE  HasEnvelope(m) \/ \E w \in Workers : Issues(w, m)
<1>1. CASE AllSame
  BY <1>1 DEF AllSame, SameMail, HasEnvelope
<1>2. ASSUME NEW w \in Workers, NEW n \in Messages, Issues(w, n), n # m
      PROVE  HasEnvelope(m)
  BY <1>2 DEF Issues, HasEnvelope
<1>3. QED
  BY <1>1, <1>2, EnvelopeSteps

\* A pass that is under way keeps the settings it began with.
LEMMA SettingsKept ==
  ASSUME IInv, [Next]_vars, NEW w \in Workers, pc'[w] # "idle", ~Begin(w)
  PROVE  pc[w] # "idle" /\ cfg'[w] = cfg[w]
<1> USE DEF IInv
<1>1. CASE Keeps(w)
  BY <1>1 DEF Keeps
<1>2. CASE TakesJob(w)
  BY <1>2 DEF TakesJob, Take
<1>3. CASE Moves(w)
  BY <1>3 DEF Moves, Advance
<1>4. CASE Reserves(w)
  BY <1>4 DEF Reserves, Reserve
<1>5. CASE HandsOff(w) /\ Send(w)
  BY <1>5 DEF HandsOff, Send, Step
<1>6. ASSUME NEW reply \in Replies, Answer(w, reply)
      PROVE  pc[w] # "idle" /\ cfg'[w] = cfg[w]
  BY <1>6 DEF Answer
<1>7. QED
  BY <1>1, <1>2, <1>3, <1>4, <1>5, <1>6, EveryPass DEF PassStep

\* The epoch a after the step.
KnownNext(a) == epoch'[a].cutoff > 0
OpenNext(a)  == KnownNext(a) /\ epoch'[a].closed = 0

\* An envelope stays apart from the epochs that come after it ...
LEMMA EnvelopeKeptApart ==
  ASSUME IInv, EpochInv, [Next]_vars, NEW m \in Messages, HasEnvelope(m)
  PROVE  /\ job'[m].state # "ABSENT" /\ envelope'[m].act \in Activations
         /\ \/ envelope'[m].mode = "regular" /\ KnownNext(envelope'[m].act)
            \/ /\ envelope'[m].mode = "controlled" /\ ~KnownNext(envelope'[m].act)
               /\ \A a \in Activations :
                    OpenNext(a) => envelope'[m].expires <= epoch'[a].cutoff
<1> USE DEF IInv
<1> DEFINE x == envelope[m].act
<1>1. /\ envelope'[m].mode = envelope[m].mode /\ envelope'[m].act = x
      /\ envelope'[m].expires = envelope[m].expires
  BY MailKept DEF SameMail
<1>2. job'[m].state # "ABSENT" /\ x \in Activations
  BY EveryJob DEF Fenced, EpochInv
<1>3. CASE envelope[m].mode = "regular"
  <2>1. Known(x)
    BY <1>3 DEF EpochInv
  <2>2. KnownNext(x)
    BY <1>2, <2>1, EpochKept DEF Known, KnownNext
  <2>3. QED
    BY <1>1, <1>2, <1>3, <2>2 DEF Known, KnownNext
<1>4. CASE envelope[m].mode # "regular"
  <2>1. /\ envelope[m].mode = "controlled" /\ ~Known(x)
        /\ \A a \in Activations : OpenEpoch(a) => envelope[m].expires <= epoch[a].cutoff
    BY <1>4 DEF EpochInv
  <2>2. CASE epoch' = epoch
    BY <1>1, <1>2, <2>1, <2>2 DEF Known, OpenEpoch, KnownNext, OpenNext
  <2>3. ASSUME NEW w \in Workers, NEW a \in Activations, Closes(w, a)
        PROVE  /\ ~KnownNext(x)
               /\ \A b \in Activations : OpenNext(b) => envelope[m].expires <= epoch'[b].cutoff
    <3>1. Known(a) /\ now > 0
      BY <2>3, NowType DEF Closes, OpenEpoch, TypeOK
    <3>2. a # x /\ epoch'[x] = epoch[x]
      BY <1>2, <2>1, <2>3, <3>1 DEF Closes
    <3>3. \A b \in Activations : OpenNext(b) => b # a
      BY <2>3, <3>1 DEF Closes, OpenNext, OpenEpoch
    <3>4. QED
      BY <2>1, <2>3, <3>2, <3>3 DEF Closes, Known, OpenEpoch, KnownNext, OpenNext
  <2>4. ASSUME NEW w \in Workers, Registered(w, cfg[w].act)
        PROVE  /\ ~KnownNext(x)
               /\ \A b \in Activations : OpenNext(b) => envelope[m].expires <= epoch'[b].cutoff
    <3>1. x # cfg[w].act /\ ~(envelope[m].expires > now)
      BY <2>1, <2>4 DEF Registered, EpochConflict
    <3>2. envelope[m].expires <= now
      BY <3>1, EnvelopeTypes, NowType DEF TypeOK
    <3>3. epoch'[x] = epoch[x]
      BY <1>2, <2>4, <3>1 DEF Registered
    <3>4. QED
      BY <2>1, <2>4, <3>2, <3>3 DEF Registered, Known, OpenEpoch, KnownNext, OpenNext
  <2>5. QED
    BY <1>1, <1>2, <2>1, <2>2, <2>3, <2>4, EpochSteps DEF Known, KnownNext
<1>5. QED
  BY <1>3, <1>4

LEMMA EpochStep ==
  ASSUME IInv, EpochInv, [Next]_vars
  PROVE  EpochInv'
<1> USE DEF IInv
<1>1. now \in Nat /\ now' \in Nat /\ now <= now'
  BY Clock
<1>2. ASSUME NEW a \in Activations, Known(a)'
      PROVE  /\ epoch'[a].cutoff <= now'
             /\ ~OpenNext(a) => epoch'[a].cutoff <= epoch'[a].closed
                                  /\ epoch'[a].closed <= now'
  <2>1. CASE Known(a)
    <3>1. /\ epoch[a].cutoff <= now
          /\ ~OpenEpoch(a) => epoch[a].cutoff <= epoch[a].closed /\ epoch[a].closed <= now
      BY <2>1 DEF EpochInv
    <3>2. QED
      BY <1>1, <1>2, <2>1, <3>1, EpochKept, EpochTypes DEF OpenEpoch, Known, KnownNext, OpenNext
  <2>2. CASE ~Known(a)
    <3>1. ASSUME NEW w \in Workers, Registered(w, cfg[w].act) PROVE a = cfg[w].act
      BY <1>2, <2>2, <3>1 DEF Registered, Known
    <3>2. ASSUME NEW w \in Workers, NEW b \in Activations, Closes(w, b) PROVE FALSE
      BY <1>2, <2>2, <3>2 DEF Closes, OpenEpoch, Known
    <3>3. epoch'[a].cutoff = now /\ epoch'[a].closed = 0
      BY <1>2, <2>2, <3>1, <3>2, EpochSteps DEF Registered, Known
    <3>4. QED
      BY <1>1, <1>2, <3>3 DEF OpenNext, KnownNext, Known
  <2>3. QED
    BY <2>1, <2>2
<1>3. ASSUME NEW w \in Workers, pc'[w] # "idle" PROVE cfg'[w].starts <= now'
  <2>1. cfg[w].starts \in Nat
    BY CfgTypes
  <2>2. CASE Begin(w)
    BY <1>1, <2>2 DEF Begin, Runnable
  <2>3. CASE ~Begin(w)
    <3>1. pc[w] # "idle" /\ cfg'[w] = cfg[w]
      BY <1>3, <2>3, SettingsKept
    <3>2. QED
      BY <1>1, <2>1, <3>1 DEF EpochInv
  <2>4. QED
    BY <2>2, <2>3
<1>4. ASSUME NEW w \in Workers, pc'[w] \in Holding
      PROVE  LET v == envelope'[pass'[w].msg]
             IN v.key > 0 /\ v.mode = cfg'[w].mode /\ v.act = cfg'[w].act
  <2>1. CASE Admits(w) /\ pc'[w] = "claimed" /\ cfg'[w] = cfg[w]
    BY <2>1, ClaimedMail
  <2>2. CASE pc[w] \in Holding /\ cfg'[w] = cfg[w] /\ pass'[w].msg = pass[w].msg
    <3>1. PICK m \in Messages : m = pass[w].msg
      BY <2>2 DEF PassInv
    <3>2. HasEnvelope(m) /\ envelope[m].mode = cfg[w].mode /\ envelope[m].act = cfg[w].act
      BY <2>2, <3>1 DEF EpochInv, HasEnvelope
    <3>3. SameMail(m)
      BY <3>2, MailKept
    <3>4. QED
      BY <2>2, <3>1, <3>2, <3>3 DEF SameMail, HasEnvelope
  <2>3. QED
    BY <1>4, <2>1, <2>2, GoesOn
<1>5. ASSUME NEW m \in Messages, HasEnvelope(m)'
      PROVE  /\ job'[m].state # "ABSENT" /\ envelope'[m].act \in Activations
             /\ \/ envelope'[m].mode = "regular" /\ KnownNext(envelope'[m].act)
                \/ /\ envelope'[m].mode = "controlled" /\ ~KnownNext(envelope'[m].act)
                   /\ \A a \in Activations :
                        OpenNext(a) => envelope'[m].expires <= epoch'[a].cutoff
  <2>1. CASE HasEnvelope(m)
    BY <2>1, EnvelopeKeptApart
  <2>2. ASSUME NEW w \in Workers, Issues(w, m)
        PROVE  /\ job'[m].state # "ABSENT" /\ envelope'[m].act \in Activations
               /\ \/ envelope'[m].mode = "regular" /\ KnownNext(envelope'[m].act)
                  \/ /\ envelope'[m].mode = "controlled" /\ ~KnownNext(envelope'[m].act)
                     /\ \A a \in Activations : ~OpenNext(a)
    <3>1. /\ job'[m].state = "CLAIMED" /\ envelope'[m].act = cfg[w].act
          /\ cfg[w].act \in Activations
      BY <2>2, CfgTypes DEF Issues, IssuesRegular, IssuesControlled, Issued
    <3>2. CASE IssuesRegular(w, m)
      <4>1. ClaimRegular(w) /\ envelope'[m].mode = "regular"
        BY <3>2 DEF IssuesRegular, Issued
      <4>2. KnownNext(cfg[w].act)
        BY <1>1, <4>1, AdmittingEpoch, NowType DEF Registered, Known, OpenEpoch, KnownNext, TypeOK
      <4>3. QED
        BY <3>1, <4>1, <4>2 DEF Known, KnownNext
    <3>3. CASE IssuesControlled(w, m)
      <4>1. /\ ~Known(cfg[w].act) /\ \A a \in Activations : ~OpenEpoch(a)
            /\ epoch' = epoch /\ envelope'[m].mode = "controlled"
        BY <3>3 DEF IssuesControlled, ClaimControlled, Issued
      <4>2. QED
        BY <3>1, <4>1 DEF Known, OpenEpoch, KnownNext, OpenNext
    <3>4. QED
      BY <2>2, <3>2, <3>3 DEF Issues
  <2>3. QED
    BY <1>5, <2>1, <2>2, OldOrIssued
<1>6. QED
  BY <1>2, <1>3, <1>4, <1>5 DEF EpochInv, Known, OpenEpoch, KnownNext, OpenNext, HasEnvelope

LEMMA EpochInit == Init => EpochInv
BY DEF Init, EpochInv, Known, OpenEpoch, HasEnvelope, NoEpoch, NoEnvelope, Holding

LEMMA EpochInvariance == Spec => []EpochInv
BY EpochInit, EpochStep, Invariance, PTL DEF Spec

\* Of two epochs one was closed before the other began.
Follows(a, b) == epoch[a].closed > 0 /\ epoch[a].closed <= epoch[b].cutoff

\* An open epoch is the organisation's latest.
LEMMA OpenIsLatest ==
  ASSUME IInv, EpochInv, ProspectiveOnly, NEW b \in Activations, OpenEpoch(b)
  PROVE  b \in Latest
<1>1. SUFFICES ASSUME NEW d \in Activations, d # b
      PROVE  epoch[d].cutoff <= epoch[b].cutoff
  BY EpochTypes DEF Latest, OpenEpoch, IInv
<1>2. epoch[d].cutoff \in Nat /\ epoch[d].closed \in Nat /\ epoch[b].cutoff \in Nat
  BY EpochTypes DEF IInv
<1>3. CASE ~Known(d)
  BY <1>2, <1>3 DEF Known, OpenEpoch
<1>4. CASE Known(d)
  <2>1. epoch[d].closed > 0 /\ epoch[d].closed <= epoch[b].cutoff
    BY <1>1, <1>4 DEF ProspectiveOnly, OpenEpoch
  <2>2. epoch[d].cutoff <= epoch[d].closed
    BY <1>4, <2>1, <1>2 DEF EpochInv, OpenEpoch
  <2>3. QED
    BY <1>2, <2>1, <2>2
<1>5. QED
  BY <1>3, <1>4

LEMMA EpochsFollow ==
  ASSUME IInv, EpochInv, ProspectiveOnly, [Next]_vars
  PROVE  (\A a, b \in Activations : a # b /\ Known(a) /\ Known(b) =>
            Follows(a, b) \/ Follows(b, a))'
<1> USE DEF IInv
<1>0. now \in Nat /\ now > 0
  BY NowType DEF TypeOK
<1>1. SUFFICES ASSUME NEW a \in Activations, NEW b \in Activations, a # b,
                      KnownNext(a), KnownNext(b)
      PROVE  Follows(a, b)' \/ Follows(b, a)'
  BY DEF Known, KnownNext
<1>2. /\ epoch[a].cutoff \in Nat /\ epoch[a].closed \in Nat
      /\ epoch[b].cutoff \in Nat /\ epoch[b].closed \in Nat
  BY EpochTypes
<1>3. Known(a) /\ Known(b) => Follows(a, b) \/ Follows(b, a)
  BY <1>1 DEF ProspectiveOnly, Follows
<1>4. CASE epoch' = epoch
  BY <1>1, <1>3, <1>4 DEF Known, KnownNext, Follows
<1>5. ASSUME NEW w \in Workers, NEW c \in Activations, Closes(w, c)
      PROVE  Follows(a, b)' \/ Follows(b, a)'
  <2>1. /\ epoch'[a].cutoff = epoch[a].cutoff /\ epoch'[b].cutoff = epoch[b].cutoff
        /\ epoch[a].closed > 0 => epoch'[a].closed = epoch[a].closed
        /\ epoch[b].closed > 0 => epoch'[b].closed = epoch[b].closed
    BY <1>5 DEF Closes, OpenEpoch
  <2>2. QED
    BY <1>1, <1>3, <2>1 DEF Known, KnownNext, Follows
<1>6. ASSUME NEW w \in Workers, NEW c \in Activations, Registered(w, c), c = cfg[w].act
      PROVE  Follows(a, b)' \/ Follows(b, a)'
  <2>1. ASSUME NEW d \in Activations, Known(d)
        PROVE  epoch[d].closed > 0 /\ epoch[d].closed <= now /\ epoch'[d] = epoch[d]
    <3>1. ~OpenEpoch(d)
      BY <1>6, <2>1, OpenIsLatest DEF Registered, EpochConflict
    <3>2. epoch[d].closed <= now /\ epoch[d].closed \in Nat
      BY <2>1, <3>1, EpochTypes DEF EpochInv
    <3>3. QED
      BY <1>6, <2>1, <3>1, <3>2 DEF Registered, OpenEpoch
  <2>2. CASE a # c /\ b # c
    BY <1>1, <1>3, <1>6, <2>2 DEF Registered, Known, KnownNext, Follows
  <2>3. CASE a = c
    <3>1. Known(b) /\ epoch'[a].cutoff = now
      BY <1>1, <1>6, <2>3 DEF Registered, Known, KnownNext
    <3>2. QED
      BY <2>1, <3>1 DEF Follows
  <2>4. CASE b = c
    <3>1. Known(a) /\ epoch'[b].cutoff = now
      BY <1>1, <1>6, <2>4 DEF Registered, Known, KnownNext
    <3>2. QED
      BY <2>1, <3>1 DEF Follows
  <2>5. QED
    BY <2>2, <2>3, <2>4
<1>7. QED
  BY <1>4, <1>5, <1>6, EpochSteps, CfgTypes

\* Regular mail is of a job created after its epoch's cutoff.
LEMMA MailFollows ==
  ASSUME IInv, EpochInv, ProspectiveOnly, [Next]_vars, NEW m \in Messages,
         HasEnvelope(m)', envelope'[m].mode = "regular"
  PROVE  job'[m].created >= epoch'[envelope'[m].act].cutoff
<1> USE DEF IInv
<1>1. CASE HasEnvelope(m)
  <2>1. envelope'[m].mode = envelope[m].mode /\ envelope'[m].act = envelope[m].act
    BY <1>1, MailKept DEF SameMail
  <2>2. /\ job[m].state # "ABSENT" /\ envelope[m].act \in Activations
        /\ Known(envelope[m].act)
    BY <1>1, <2>1 DEF EpochInv
  <2>3. job'[m].created = job[m].created
    BY <2>2, EveryJob DEF Fenced
  <2>4. job[m].created >= epoch[envelope[m].act].cutoff
    BY <1>1, <2>1 DEF ProspectiveOnly
  <2>5. epoch'[envelope[m].act].cutoff = epoch[envelope[m].act].cutoff
    BY <2>2, EpochKept
  <2>6. QED
    BY <2>1, <2>3, <2>4, <2>5
<1>2. ASSUME NEW w \in Workers, Issues(w, m)
      PROVE  job'[m].created >= epoch'[envelope'[m].act].cutoff
  <2>1. job'[m].created = job[m].created /\ IssuesRegular(w, m)
    BY <1>2 DEF Issues, IssuesControlled, Issued
  <2>2. /\ ClaimRegular(w) /\ envelope'[m].act = cfg[w].act
        /\ Evidence(m, EpochFor(cfg[w]), TRUE)
    BY <2>1 DEF IssuesRegular, Issued
  <2>3. PICK a \in Activations : a = cfg[w].act
    BY CfgTypes
  <2>4. epoch'[a] = EpochFor(cfg[w])
    BY <2>2, <2>3, AdmittingEpoch
  <2>5. savedAt \in Nat /\ job[m].created \in Nat /\ epoch'[a].cutoff \in Nat
    <3>1. epoch'[a].cutoff \in Nat
      <4>1. epoch'[a] = epoch[a] \/ epoch'[a].cutoff = now
        BY <2>2, <2>3, AdmittingEpoch DEF Registered
      <4>2. QED
        BY <4>1, EpochTypes, NowType DEF TypeOK
    <3>2. QED
      BY <3>1, JobTypes DEF TypeOK, ConsentOK, JobRecord
  <2>6. job[m].created >= epoch'[a].cutoff
    BY <2>2, <2>4, <2>5 DEF Evidence, Boundary, Larger
  <2>7. QED
    BY <2>1, <2>2, <2>3, <2>6
<1>3. QED
  BY <1>1, <1>2, OldOrIssued

\* ControlledAlone, pair by pair.
Alone(m, n) ==
  HasEnvelope(m) /\ HasEnvelope(n) /\ envelope[m].mode = "controlled"
  => /\ envelope[m].act # envelope[n].act
     /\ \/ envelope[m].expires <= envelope[n].starts
        \/ envelope[n].expires <= envelope[m].starts

LEMMA WindowsApart ==
  ASSUME IInv, EpochInv, ControlledAlone, [Next]_vars,
         NEW m \in Messages, NEW n \in Messages, m # n
  PROVE  Alone(m, n)'
<1> USE DEF IInv
<1>0. SUFFICES ASSUME HasEnvelope(m)', HasEnvelope(n)', envelope'[m].mode = "controlled"
      PROVE  Alone(m, n)'
  BY DEF Alone
<1>1. CASE HasEnvelope(m) /\ HasEnvelope(n)
  <2>1. SameMail(m) /\ SameMail(n) /\ Alone(m, n)
    BY <1>1, MailKept DEF ControlledAlone, Alone
  <2>2. QED
    BY <1>0, <1>1, <2>1 DEF Alone, SameMail
<1>2. ASSUME NEW w \in Workers, NEW k \in {m, n}, Issues(w, k) PROVE Alone(m, n)'
  <2> DEFINE o == IF k = m THEN n ELSE m
  <2>1. o \in Messages /\ o # k /\ HasEnvelope(o) /\ envelope'[o] = envelope[o]
    BY <1>0, <1>2 DEF Issues, HasEnvelope
  <2>2. CASE IssuesControlled(w, k)
    <3>1. /\ envelope'[k].act = cfg[w].act /\ envelope'[k].starts = cfg[w].starts
          /\ Bound(cfg[w]) = {} /\ envelope[o].expires <= cfg[w].starts
      BY <2>1, <2>2 DEF IssuesControlled, Issued
    <3>2. envelope[o].act # cfg[w].act
      BY <2>1, <3>1 DEF Bound
    <3>3. QED
      BY <2>1, <3>1, <3>2 DEF Alone
  <2>3. CASE IssuesRegular(w, k)
    <3>1. /\ envelope'[k].mode = "regular" /\ envelope'[k].starts = now
          /\ envelope'[k].act = cfg[w].act /\ ClaimRegular(w)
      BY <2>3 DEF IssuesRegular, Issued
    <3>2. k = n /\ o = m /\ envelope[m].mode = "controlled"
      BY <1>0, <2>1, <3>1
    <3>3. PICK a \in Activations : a = cfg[w].act
      BY CfgTypes
    <3>4. OpenNext(a)
      BY <3>1, <3>3, AdmittingEpoch, NowType DEF Registered, OpenEpoch, Known, OpenNext, KnownNext, TypeOK
    <3>5. ~KnownNext(envelope'[m].act) /\ envelope'[m].expires <= epoch'[a].cutoff
      BY <1>0, <2>1, <3>2, <3>4, EnvelopeKeptApart
    <3>6. epoch'[a].cutoff <= now
      <4>1. (epoch'[a] = epoch[a] /\ Known(a)) \/ epoch'[a].cutoff = now
        BY <3>1, <3>3, AdmittingEpoch DEF Registered, OpenEpoch
      <4>2. QED
        BY <4>1, NowType DEF EpochInv, TypeOK
    <3>7. envelope'[m].expires \in Nat /\ epoch'[a].cutoff \in Nat /\ now \in Nat
      <4>1. envelope'[m].expires \in Nat
        BY <2>1, <3>2, EnvelopeTypes
      <4>2. epoch'[a] = epoch[a] \/ epoch'[a].cutoff = now
        BY <3>1, <3>3, AdmittingEpoch DEF Registered
      <4>3. QED
        BY <4>1, <4>2, EpochTypes, NowType DEF TypeOK
    <3>8. envelope'[m].expires <= envelope'[n].starts
      BY <3>1, <3>2, <3>5, <3>6, <3>7
    <3>9. envelope'[m].act # envelope'[n].act
      BY <3>1, <3>2, <3>3, <3>4, <3>5 DEF OpenNext
    <3>10. QED
      BY <3>8, <3>9 DEF Alone
  <2>4. QED
    BY <1>2, <2>2, <2>3 DEF Issues
<1>3. QED
  BY <1>0, <1>1, <1>2, OldOrIssued

LEMMA SettingsStep ==
  ASSUME IInv, EpochInv, SettingsApart, [Next]_vars
  PROVE  SettingsApart'
<1>1. ProspectiveOnly'
  BY EpochsFollow, MailFollows DEF SettingsApart, ProspectiveOnly, Follows
<1>2. ControlledAlone'
  BY WindowsApart DEF SettingsApart, ControlledAlone, Alone
<1>3. QED
  BY <1>1, <1>2 DEF SettingsApart

LEMMA SettingsInit == Init => SettingsApart
BY DEF Init, SettingsApart, ProspectiveOnly, ControlledAlone, Known, HasEnvelope, NoEpoch,
       NoEnvelope

\* Whatever the order in which processes are started with which settings, the
\* organisation's epochs follow one another, regular mail is only ever of jobs queued
\* after the cutoff of its epoch, and a controlled window has one message and overlaps
\* no other mail of the organisation.
THEOREM SettingsLieApart == Spec => []SettingsApart
BY SettingsInit, SettingsStep, Invariance, EpochInvariance, PTL DEF Spec
-----------------------------------------------------------------------------
(* A closed epoch falls silent.                                            *)

\* A pass comes to hold a reservation only by reserving one.
LEMMA SpentBefore ==
  ASSUME IInv, [Next]_vars, NEW w \in Workers, pc'[w] \in Spent
  PROVE  pc[w] \in Spent \/ (Reserves(w) /\ Open(w))
<1>1. CASE Keeps(w) \/ Moves(w)
  BY <1>1 DEF Keeps, Moves, Advance, Spent
<1>2. CASE pc'[w] = "idle" \/ Begin(w) \/ TakesJob(w)
  <2>1. pc'[w] \in {"idle", "begun", "claimed"}
    BY <1>2 DEF Begin, TakesJob, Take, IInv, TypeOK, ProcessOK
  <2>2. QED
    BY <2>1 DEF Spent
<1>3. CASE HandsOff(w)
  BY <1>3 DEF HandsOff, Spent
<1>4. ASSUME NEW reply \in Replies, Answer(w, reply) PROVE pc[w] \in Spent
  BY <1>4 DEF Answer, Spent
<1>5. QED
  BY <1>1, <1>2, <1>3, <1>4, EveryPass DEF PassStep

LEMMA ClosedStep ==
  ASSUME IInv, EpochInv, ClosedInv, [Next]_vars
  PROVE  ClosedInv'
<1> USE DEF IInv
<1>0. now \in Nat /\ now > 0 /\ Budget \in Nat /\ SendBudget \in Nat /\ Timeout \in Nat
  BY NowType, DurationTypes DEF TypeOK
<1>1. ASSUME NEW w \in Workers, pc'[w] \in Spent, cfg'[w].mode = "regular",
             epoch'[cfg'[w].act].closed > 0
      PROVE  pass'[w].deadline <= epoch'[cfg'[w].act].closed + Budget
  <2>1. /\ pc[w] \in Holding /\ cfg'[w] = cfg[w] /\ pass'[w].deadline = pass[w].deadline
    <3>1. pc'[w] \in Holding /\ pc'[w] # "claimed"
      BY <1>1 DEF Spent, Holding, Stages
    <3>2. QED
      BY <3>1, GoesOn
  <2>2. PICK a \in Activations : a = cfg[w].act
    BY CfgTypes
  <2>3. pass[w].deadline <= now + Budget /\ pass[w].deadline \in Nat
    BY <2>1, PassTypes DEF PassInv, Holding
  <2>4. epoch'[a].closed = epoch[a].closed \/ epoch'[a].closed = now
    BY <1>1, <2>1, <2>2, EpochSteps DEF Closes, Registered
  <2>5. CASE pc[w] \in Spent
    BY <1>1, <2>1, <2>2, <2>3, <2>4, <2>5 DEF ClosedInv
  <2>6. CASE Reserves(w) /\ Open(w)
    <3>1. epoch' = epoch /\ pc'[w] = "opened"
      BY <2>6 DEF Open, Reserves, Reserve, TypeOK, ProcessOK
    <3>2. ~Finish(w)
      BY <3>1 DEF Finish, TypeOK, ProcessOK
    <3>3. ~GateStops(w)
      BY <1>1, <2>1, <2>6, <3>2 DEF Open
    <3>4. epoch[a].closed = 0
      BY <2>2, <3>3 DEF GateStops, OpenEpoch
    <3>5. QED
      BY <1>1, <2>1, <2>2, <3>1, <3>4
  <2>7. QED
    BY <1>1, <2>5, <2>6, SpentBefore
<1>2. ASSUME NEW w \in Workers, pc'[w] = "sending"
      PROVE  pass'[w].until + SendBudget <= pass'[w].deadline + Timeout
  <2>1. CASE Keeps(w)
    BY <1>2, <2>1 DEF Keeps, ClosedInv, Sending
  <2>2. CASE HandsOff(w) /\ Send(w)
    <3>1. Runnable(cfg[w])
      BY <1>2, <2>2 DEF Send, Step, TypeOK, ProcessOK
    <3>2. now + SendBudget <= pass[w].deadline
      BY <2>2, <3>1 DEF Send
    <3>3. pass'[w].until = now + Timeout /\ pass'[w].deadline = pass[w].deadline
      BY <2>2 DEF HandsOff, TypeOK, ProcessOK, PassRecord
    <3>4. QED
      BY <1>0, <3>2, <3>3, PassTypes
  <2>3. pc'[w] # "sending" \/ Keeps(w) \/ (HandsOff(w) /\ Send(w))
    <3>1. Moves(w) => pc'[w] # "sending"
      BY DEF Moves, Advance
    <3>2. QED
      BY <3>1, EveryPass DEF PassStep, Begin, TakesJob, Take, Reserves, Reserve,
         Answer, TypeOK, ProcessOK
  <2>4. QED
    BY <1>2, <2>1, <2>2, <2>3
<1>3. QED
  BY <1>1, <1>2 DEF ClosedInv, Sending

LEMMA ClosedInit == Init => ClosedInv
BY DEF Init, ClosedInv, Spent, Sending

LEMMA ClosedInvariance == Spec => []ClosedInv
BY ClosedInit, ClosedStep, Invariance, EpochInvariance, PTL DEF Spec

\* OFF: once an epoch is closed, a call to the provider is at most the last one of a
\* pass that was already running, it is over within that pass's budget, and it is
\* for mail of the closed epoch itself, never of a later one.
THEOREM ClosedEpochsFallSilent == Spec => []ClosedEpochSilent
<1>1. IInv /\ EpochInv /\ ClosedInv => ClosedEpochSilent
  <2>1. SUFFICES ASSUME IInv, EpochInv, ClosedInv, NEW w \in Workers, Sending(w),
                        cfg[w].mode = "regular"
        PROVE  LET e == epoch[cfg[w].act]
               IN /\ envelope[pass[w].msg].act = cfg[w].act
                  /\ Known(cfg[w].act)
                  /\ e.closed > 0 => now <= e.closed + Budget - SendBudget + Timeout
    BY DEF ClosedEpochSilent
  <2>2. pc[w] \in Holding /\ pc[w] \in Spent
    BY <2>1 DEF Sending, Holding, Spent, Stages
  <2>3. PICK m \in Messages : m = pass[w].msg
    BY <2>1, <2>2 DEF IInv, PassInv
  <2>4. HasEnvelope(m) /\ envelope[m].mode = "regular" /\ envelope[m].act = cfg[w].act
    BY <2>1, <2>2, <2>3 DEF EpochInv, HasEnvelope
  <2>5. Known(cfg[w].act)
    BY <2>1, <2>4 DEF EpochInv
  <2>6. ASSUME epoch[cfg[w].act].closed > 0
        PROVE  now <= epoch[cfg[w].act].closed + Budget - SendBudget + Timeout
    <3> DEFINE d == epoch[cfg[w].act].closed
    <3>1. pass[w].deadline <= d + Budget
      BY <2>1, <2>2, <2>6 DEF ClosedInv
    <3>2. pass[w].until + SendBudget <= pass[w].deadline + Timeout /\ now <= pass[w].until
      BY <2>1 DEF ClosedInv, IInv, PassInv
    <3>3. d \in Nat /\ now \in Nat /\ pass[w].deadline \in Nat /\ pass[w].until \in Nat
      BY <2>1, CfgTypes, EpochTypes, PassTypes DEF IInv
    <3>4. Budget \in Nat /\ SendBudget \in Nat /\ Timeout \in Nat
      BY DurationTypes
    <3> HIDE DEF d
    <3>5. now <= d + Budget - SendBudget + Timeout
      BY <3>1, <3>2, <3>3, <3>4
    <3>6. QED
      BY <3>5 DEF d
  <2>7. QED
    BY <2>3, <2>4, <2>5, <2>6
<1>2. QED
  BY <1>1, Invariance, EpochInvariance, ClosedInvariance, PTL
-----------------------------------------------------------------------------
(* Consent is unbroken.                                                    *)

LEMMA ConsentStep ==
  ASSUME IInv, ConsentInv, [Next]_vars
  PROVE  ConsentInv'
<1>1. now \in Nat /\ now' \in Nat /\ now <= now' /\ savedAt \in Nat /\ lastOff \in Nat
  BY Clock DEF IInv, TypeOK, ConsentOK
<1>2. CASE UNCHANGED <<optedIn, savedAt, lastOff>>
  BY <1>1, <1>2 DEF ConsentInv
<1>3. CASE Tick
  BY <1>1, <1>3 DEF ConsentInv, Tick
<1>4. ASSUME NEW b \in BOOLEAN, SavePreferences(b) PROVE ConsentInv'
  BY <1>1, <1>4 DEF ConsentInv, SavePreferences
<1>5. QED
  BY <1>2, <1>3, <1>4, Writers DEF Writes

LEMMA ConsentInit == Init => ConsentInv
BY DEF Init, ConsentInv

LEMMA ConsentInvariance == Spec => []ConsentInv
BY ConsentInit, ConsentStep, Invariance, PTL DEF Spec

\* Turning consent off and on again cannot make older queued work eligible: whatever
\* passes maySend in regular mode was queued after the last moment of refusal.
THEOREM ConsentNeverBroken == Spec => ConsentUnbroken
<1> DEFINE Unbroken ==
      \A w \in Workers :
        pc[w] = "vetoing" /\ pc'[w] = "cleared" /\ cfg[w].mode = "regular" =>
          lastOff <= job[pass[w].msg].created
<1>1. IInv /\ EpochInv /\ ConsentInv /\ [Next]_vars => [Unbroken]_vars
  <2>1. SUFFICES ASSUME IInv, EpochInv, ConsentInv, [Next]_vars, NEW w \in Workers,
                        pc[w] = "vetoing", pc'[w] = "cleared", cfg[w].mode = "regular"
        PROVE  lastOff <= job[pass[w].msg].created
    OBVIOUS
  <2>2. FinalGate(w)
    <3>1. pc'[w] # pc[w]
      BY <2>1
    <3>2. Moves(w)
      BY <2>1, <3>1, EveryPass DEF PassStep, Keeps, Begin, TakesJob, Take, Reserves,
         Reserve, HandsOff, Answer, IInv, TypeOK, ProcessOK
    <3>3. QED
      BY <2>1, <3>2 DEF Moves
  <2>3. PICK m \in Messages : m = pass[w].msg
    BY <2>1 DEF IInv, PassInv, Holding, Stages
  <2>4. PICK a \in Activations : a = envelope[m].act
    BY <2>1, <2>3, CfgTypes DEF IInv, EpochInv, Holding, Stages
  <2>5. optedIn /\ job[m].created >= Boundary(epoch[a])
    BY <2>1, <2>2, <2>3, <2>4 DEF FinalGate, Reachable
  <2>6. /\ epoch[a].cutoff \in Nat /\ savedAt \in Nat /\ lastOff \in Nat
        /\ job[m].created \in Nat
    BY <2>1, EpochTypes, JobTypes DEF IInv, TypeOK, ConsentOK, JobRecord
  <2>7. job[m].created >= savedAt
    BY <2>5, <2>6 DEF Boundary, Larger
  <2>8. QED
    BY <2>1, <2>3, <2>5, <2>6, <2>7 DEF ConsentInv
<1>2. QED
  BY <1>1, Invariance, EpochInvariance, ConsentInvariance, PTL DEF Spec, ConsentUnbroken
-----------------------------------------------------------------------------
(* One call at a time.                                                     *)

\* A pass that takes a job in regular mode finds every other lapsed or cancelled.
LEMMA TakesAlone ==
  ASSUME IInv, NEW v \in Workers, NEW w \in Workers, v # w, [Next]_vars,
         Admits(w), TakesJob(w), pc'[w] = "claimed", cfg[w].mode = "regular",
         pc[v] \in Holding, now <= pass[v].deadline
  PROVE  job[pass[v].msg].state = "CANCELLED"
<1> USE DEF IInv
<1>1. ClaimRegular(w)
  BY DEF Admits, ClaimControlled
<1>2. ~Finish(w)
  BY DEF Finish, TypeOK, ProcessOK
<1>3. ~LeaseHeld
  BY <1>1, <1>2 DEF ClaimRegular
<1>4. pass[v].msg \in Messages /\ Held(v)
  BY DEF PassInv, ClaimInv
<1>5. /\ now \in Nat /\ pass[v].deadline \in Nat /\ job[pass[v].msg].until \in Nat
  BY <1>4, PassTypes, JobTypes
<1>6. QED
  BY <1>3, <1>4, <1>5 DEF Held, LeaseHeld, Leased

LEMMA OthersKeep ==
  ASSUME IInv, NEW v \in Workers, NEW w \in Workers, v # w, Admits(w)
  PROVE  Keeps(v)
BY PassSteps DEF Admits, Pass

LEMMA LeaseStep ==
  ASSUME IInv, LeaseInv, [Next]_vars
  PROVE  LeaseInv'
<1> USE DEF IInv
<1>1. SUFFICES ASSUME NEW v \in Workers, NEW w \in Workers, v # w,
                      pc'[v] \in Holding, pc'[w] \in Holding,
                      cfg'[v].mode = "regular", cfg'[w].mode = "regular",
                      now' <= pass'[v].deadline, now' <= pass'[w].deadline
      PROVE  \/ job'[pass'[v].msg].state = "CANCELLED"
             \/ job'[pass'[w].msg].state = "CANCELLED"
  BY DEF LeaseInv
<1>2. now \in Nat /\ now' \in Nat /\ now <= now'
  BY Clock
<1>3. ASSUME NEW u \in Workers, pc[u] \in Holding, pass'[u].msg = pass[u].msg,
             job[pass[u].msg].state = "CANCELLED"
      PROVE  job'[pass'[u].msg].state = "CANCELLED"
  <2>1. pass[u].msg \in Messages
    BY <1>3 DEF PassInv
  <2>2. QED
    BY <1>3, <2>1, EveryEnd DEF Terminal
<1>4. ASSUME NEW x \in Workers, NEW y \in Workers, x # y,
             cfg'[x].mode = "regular", pc'[y] \in Holding, now' <= pass'[y].deadline,
             Admits(x), TakesJob(x), pc'[x] = "claimed", cfg'[x] = cfg[x]
      PROVE  job'[pass'[y].msg].state = "CANCELLED"
  <2>1. Keeps(y)
    BY <1>4, OthersKeep
  <2>2. now <= pass[y].deadline /\ pc[y] \in Holding
    BY <1>2, <1>4, <2>1, PassTypes DEF Keeps
  <2>3. job[pass[y].msg].state = "CANCELLED"
    BY <1>4, <2>2, TakesAlone
  <2>4. QED
    BY <1>3, <2>1, <2>2, <2>3 DEF Keeps
<1>5. ASSUME NEW u \in Workers, pc[u] \in Holding, pass'[u].deadline = pass[u].deadline,
             now' <= pass'[u].deadline
      PROVE  now <= pass[u].deadline
  BY <1>2, <1>5, PassTypes
<1>6. CASE /\ pc[v] \in Holding /\ cfg'[v] = cfg[v] /\ pass'[v].msg = pass[v].msg
           /\ pass'[v].deadline = pass[v].deadline
           /\ pc[w] \in Holding /\ cfg'[w] = cfg[w] /\ pass'[w].msg = pass[w].msg
           /\ pass'[w].deadline = pass[w].deadline
  <2>1. now <= pass[v].deadline /\ now <= pass[w].deadline
    BY <1>1, <1>5, <1>6
  <2>2. job[pass[v].msg].state = "CANCELLED" \/ job[pass[w].msg].state = "CANCELLED"
    BY <1>1, <1>6, <2>1 DEF LeaseInv
  <2>3. QED
    BY <1>3, <1>6, <2>2
<1>7. QED
  BY <1>1, <1>4, <1>6, GoesOn

LEMMA LeaseInit == Init => LeaseInv
BY DEF Init, LeaseInv, Holding

LEMMA LeaseInvariance == Spec => []LeaseInv
BY LeaseInit, LeaseStep, Invariance, PTL DEF Spec

\* Two processes never call the provider for one message at a time, and in regular
\* mode never for two messages of the organisation either, unless the operator
\* cancelled one of them under the call.
THEOREM OneHandoffAtATime == Spec => []OneHandoff
<1>1. IInv /\ EpochInv /\ LeaseInv => OneHandoff
  <2>1. SUFFICES ASSUME IInv, EpochInv, LeaseInv, NEW v \in Workers, NEW w \in Workers,
                        v # w, Sending(v), Sending(w)
        PROVE  /\ pass[v].msg # pass[w].msg
               /\ \/ cfg[v].mode = "controlled" \/ cfg[w].mode = "controlled"
                  \/ job[pass[v].msg].state = "CANCELLED"
                  \/ job[pass[w].msg].state = "CANCELLED"
    BY DEF OneHandoff
  <2>2. ASSUME NEW u \in Workers, Sending(u)
        PROVE  /\ pc[u] \in Spent /\ pc[u] \in Holding /\ now <= pass[u].deadline
               /\ job[pass[u].msg].made = Number(u)
               /\ cfg[u].mode \in {"regular", "controlled"}
    <3>1. pc[u] \in Spent /\ pc[u] \in Holding
      BY <2>2 DEF Sending, Spent, Holding, Stages
    <3>2. now <= pass[u].deadline
      BY <2>1, <2>2, PassTypes DEF IInv, PassInv
    <3>3. job[pass[u].msg].made = Number(u)
      BY <2>1, <3>1, <3>2, PassTypes DEF IInv, ClaimInv, Held
    <3>4. PICK m \in Messages : m = pass[u].msg
      BY <2>1, <3>1 DEF IInv, PassInv
    <3>5. HasEnvelope(m) /\ envelope[m].mode = cfg[u].mode
      BY <2>1, <3>1, <3>4 DEF EpochInv, HasEnvelope
    <3>6. QED
      BY <2>1, <3>1, <3>2, <3>3, <3>4, <3>5 DEF EpochInv
  <2>3. pass[v].msg # pass[w].msg
    BY <2>1, <2>2 DEF IInv, SpentInv
  <2>4. QED
    BY <2>1, <2>2, <2>3 DEF LeaseInv
<1>2. QED
  BY <1>1, Invariance, EpochInvariance, LeaseInvariance, PTL
-----------------------------------------------------------------------------
(* The rolling limits.                                                     *)

LEMMA Fits ==
  ASSUME NEW S, IsFiniteSet(S), NEW T, T \subseteq S
  PROVE  /\ IsFiniteSet(T) /\ Cardinality(T) <= Cardinality(S)
         /\ Cardinality(T) \in Nat /\ Cardinality(S) \in Nat
BY FS_Subset, FS_CardinalityType

LEMMA OneMore ==
  ASSUME NEW S, IsFiniteSet(S), NEW x, NEW T, T \subseteq S \cup {x}
  PROVE  /\ IsFiniteSet(T) /\ Cardinality(T) <= Cardinality(S) + 1
         /\ Cardinality(T) \in Nat /\ Cardinality(S) \in Nat
<1>1. /\ IsFiniteSet(S \cup {x})
      /\ Cardinality(S \cup {x}) = Cardinality(S) \/ Cardinality(S \cup {x}) = Cardinality(S) + 1
  BY FS_AddElement
<1>2. Cardinality(S) \in Nat
  BY FS_CardinalityType
<1>3. IsFiniteSet(T) /\ Cardinality(T) <= Cardinality(S \cup {x}) /\ Cardinality(T) \in Nat
  BY <1>1, Fits
<1>4. QED
  BY <1>1, <1>2, <1>3

Enveloped        == {m \in Messages : HasEnvelope(m)}
Attempted        == {x \in Messages \X (1..MaxAttempts) : attempt[x[1]][x[2]].at > 0}
RegularEnvelopes == {m \in RecentEnvelopes : envelope[m].mode = "regular"}
RegularAttempts  == {x \in RecentAttempts : envelope[x[1]].mode = "regular"}

\* The instant of a reservation is fixed, and new only in the step that reserves.
SameInstants ==
  \A m \in Messages, n \in 1..MaxAttempts : attempt'[m][n].at = attempt[m][n].at

LEMMA AttemptSteps ==
  ASSUME IInv, [Next]_vars
  PROVE  SameInstants \/ \E w \in Workers : Reserves(w) /\ Open(w)
<1> USE DEF IInv
<1>1. CASE attempt' = attempt
  BY <1>1 DEF SameInstants
<1>2. ASSUME NEW w \in Workers, Open(w), ~(attempt' = attempt) PROVE Reserves(w)
  BY <1>2 DEF Open, Reserves, provider
<1>3. ASSUME NEW w \in Workers, Settle(w) PROVE SameInstants
  <2>1. PICK k \in Messages : k = pass[w].msg
    BY <1>3 DEF Settle, PassInv, Holding, Stages
  <2>2. /\ \A m \in Messages \ {k} : attempt'[m] = attempt[m]
        /\ attempt'[k][Number(w)].at = attempt[k][Number(w)].at
        /\ \A n \in 1..MaxAttempts \ {Number(w)} : attempt'[k][n] = attempt[k][n]
    BY <1>3, <2>1, SettleEffects
  <2>3. QED
    BY <2>2 DEF SameInstants
<1>4. ASSUME NEW w \in Workers, Withdraw(w) PROVE SameInstants
  <2>1. PICK k \in Messages : k = pass[w].msg
    BY <1>4 DEF Withdraw, PassInv, Holding, Stages
  <2> DEFINE marks == MarkNotSent(k, Number(w))
  <2>2. attempt' = [attempt EXCEPT ![k] = marks]
    BY <1>4, <2>1 DEF Withdraw
  <2>3. \A n \in 1..MaxAttempts : marks[n].at = attempt[k][n].at
    <3>1. \A n \in 1..MaxAttempts : attempt[k][n] \in AttemptRecord
      BY DEF TypeOK, DatabaseOK
    <3>2. \A a \in AttemptRecord : [a EXCEPT !.kind = "NOT_SENT"].at = a.at
      BY DEF AttemptRecord
    <3>3. QED
      BY <3>1, <3>2 DEF MarkNotSent
  <2> HIDE DEF marks
  <2>4. \A m \in Messages : attempt'[m] = attempt[m] \/ (m = k /\ attempt'[m] = marks)
    BY <2>2 DEF TypeOK, DatabaseOK
  <2>5. QED
    BY <2>3, <2>4 DEF SameInstants
<1>5. QED
  BY <1>1, <1>2, <1>3, <1>4, Writers DEF Writes

\* The envelopes after a step.
LEMMA EnvelopesLimited ==
  ASSUME IInv, LimitInv, [Next]_vars
  PROVE  IsFiniteSet(Enveloped') /\ Cardinality(RegularEnvelopes') <= NewLimit
<1> USE DEF IInv
<1>1. /\ IsFiniteSet(Enveloped) /\ Cardinality(RegularEnvelopes) <= NewLimit
      /\ RecentEnvelopes \subseteq Enveloped /\ RegularEnvelopes \subseteq RecentEnvelopes
  BY DEF LimitInv, RegularLimits, Enveloped, RegularEnvelopes, RecentEnvelopes
<1>2. /\ IsFiniteSet(RecentEnvelopes) /\ IsFiniteSet(RegularEnvelopes)
      /\ Cardinality(RecentEnvelopes) \in Nat /\ Cardinality(RegularEnvelopes) \in Nat
      /\ Cardinality(RegularEnvelopes) <= Cardinality(RecentEnvelopes)
      /\ NewLimit \in Nat
  BY <1>1, Fits, LimitAssumption
<1>3. /\ now \in Nat /\ now' \in Nat /\ now <= now' /\ Hour \in Nat
      /\ \A m \in Messages : envelope[m].created \in Nat
  BY Clock, DurationTypes, EnvelopeTypes
<1>4. ASSUME NEW m \in Messages, HasEnvelope(m)', envelope'[m] = envelope[m] \/ SameMail(m)
      PROVE  /\ m \in Enveloped
             /\ m \in RegularEnvelopes' => m \in RegularEnvelopes
  BY <1>3, <1>4 DEF Enveloped, RegularEnvelopes, RecentEnvelopes, HasEnvelope, SameMail
<1>5. CASE AllSame
  <2>1. Enveloped' \subseteq Enveloped /\ RegularEnvelopes' \subseteq RegularEnvelopes
    BY <1>4, <1>5 DEF AllSame, Enveloped, RegularEnvelopes, RecentEnvelopes
  <2>2. IsFiniteSet(Enveloped')
    BY <1>1, <2>1, Fits
  <2>3. /\ Cardinality(RegularEnvelopes') <= Cardinality(RegularEnvelopes)
        /\ Cardinality(RegularEnvelopes') \in Nat
    BY <1>2, <2>1, Fits
  <2>4. QED
    BY <1>1, <1>2, <2>2, <2>3
<1>6. ASSUME NEW w \in Workers, NEW m \in Messages, Issues(w, m)
      PROVE  IsFiniteSet(Enveloped') /\ Cardinality(RegularEnvelopes') <= NewLimit
  <2>1. \A n \in Messages \ {m} : envelope'[n] = envelope[n]
    BY <1>6 DEF Issues
  <2>2. /\ Enveloped' \subseteq Enveloped \cup {m}
        /\ RegularEnvelopes' \subseteq RegularEnvelopes \cup {m}
    BY <1>4, <2>1 DEF Enveloped, RegularEnvelopes, RecentEnvelopes
  <2>3. IsFiniteSet(Enveloped')
    BY <1>1, <2>2, OneMore
  <2>4. CASE IssuesRegular(w, m)
    <3>1. ~(Cardinality(RecentEnvelopes) >= NewLimit)
      BY <1>6, <2>4 DEF Issues, IssuesRegular, NewLimited
    <3>2. /\ Cardinality(RegularEnvelopes') <= Cardinality(RegularEnvelopes) + 1
          /\ Cardinality(RegularEnvelopes') \in Nat
      BY <1>2, <2>2, OneMore
    <3>3. QED
      BY <1>2, <2>3, <3>1, <3>2
  <2>5. CASE IssuesControlled(w, m)
    <3>1. m \notin RegularEnvelopes'
      BY <2>5 DEF IssuesControlled, Issued, RegularEnvelopes
    <3>2. RegularEnvelopes' \subseteq RegularEnvelopes
      BY <2>2, <3>1
    <3>3. /\ Cardinality(RegularEnvelopes') <= Cardinality(RegularEnvelopes)
          /\ Cardinality(RegularEnvelopes') \in Nat
      BY <1>2, <3>2, Fits
    <3>4. QED
      BY <1>1, <1>2, <2>3, <3>3
  <2>6. QED
    BY <1>6, <2>4, <2>5 DEF Issues
<1>7. QED
  BY <1>5, <1>6, EnvelopeSteps

\* A regular envelope that counts has counted, or its message has no reservation yet.
LEMMA ModeBefore ==
  ASSUME IInv, [Next]_vars, NEW m \in Messages, envelope'[m].mode = "regular"
  PROVE  envelope[m].mode = "regular" \/ job[m].made = 0
<1>1. CASE AllSame
  BY <1>1 DEF AllSame, SameMail
<1>2. ASSUME NEW w \in Workers, NEW n \in Messages, Issues(w, n)
      PROVE  envelope[m].mode = "regular" \/ job[m].made = 0
  <2>1. CASE n # m
    BY <1>2, <2>1 DEF Issues
  <2>2. CASE n = m
    BY <1>2, <2>2 DEF Issues, IssuesRegular, IssuesControlled, Issued, Candidates, Fresh
  <2>3. QED
    BY <2>1, <2>2
<1>3. QED
  BY <1>1, <1>2, EnvelopeSteps

\* The reservations after a step.
LEMMA AttemptsLimited ==
  ASSUME IInv, EpochInv, LimitInv, [Next]_vars
  PROVE  IsFiniteSet(Attempted') /\ Cardinality(RegularAttempts') <= AttemptLimit
<1> USE DEF IInv
<1> DEFINE Rows == Messages \X (1..MaxAttempts)
<1>1. /\ IsFiniteSet(Attempted) /\ Cardinality(RegularAttempts) <= AttemptLimit
      /\ RecentAttempts \subseteq Attempted /\ RegularAttempts \subseteq RecentAttempts
  BY DEF LimitInv, RegularLimits, Attempted, RegularAttempts, RecentAttempts
<1>2. /\ IsFiniteSet(RecentAttempts) /\ IsFiniteSet(RegularAttempts)
      /\ Cardinality(RecentAttempts) \in Nat /\ Cardinality(RegularAttempts) \in Nat
      /\ Cardinality(RegularAttempts) <= Cardinality(RecentAttempts)
      /\ AttemptLimit \in Nat
  BY <1>1, Fits, LimitAssumption
<1>3. /\ now \in Nat /\ now' \in Nat /\ now <= now' /\ Hour \in Nat
      /\ \A m \in Messages, n \in 1..MaxAttempts : attempt[m][n].at \in Nat
  BY Clock, DurationTypes DEF TypeOK, DatabaseOK, AttemptRecord
<1>4. ASSUME NEW m \in Messages, NEW n \in 1..MaxAttempts,
             attempt'[m][n].at = attempt[m][n].at, <<m, n>> \in RegularAttempts'
      PROVE  <<m, n>> \in RegularAttempts
  <2>1. /\ attempt[m][n].at > 0 /\ attempt[m][n].at + Hour >= now'
        /\ envelope'[m].mode = "regular"
    BY <1>4 DEF RegularAttempts, RecentAttempts
  <2>2. n <= job[m].made /\ job[m].made # 0
    BY <2>1, JobTypes DEF RowsInv
  <2>3. envelope[m].mode = "regular"
    BY <2>1, <2>2, ModeBefore
  <2>4. QED
    BY <1>3, <2>1, <2>3 DEF RegularAttempts, RecentAttempts
<1>5. CASE SameInstants
  <2>1. Attempted' \subseteq Attempted /\ RegularAttempts' \subseteq RegularAttempts
    <3>1. Attempted' \subseteq Attempted
      BY <1>5 DEF SameInstants, Attempted
    <3>2. ASSUME NEW x \in RegularAttempts' PROVE x \in RegularAttempts
      <4>1. PICK m \in Messages, n \in 1..MaxAttempts : x = <<m, n>>
        BY <3>2 DEF RegularAttempts, RecentAttempts
      <4>2. QED
        BY <1>4, <1>5, <3>2, <4>1 DEF SameInstants
    <3>3. QED
      BY <3>1, <3>2
  <2>2. IsFiniteSet(Attempted')
    BY <1>1, <2>1, Fits
  <2>3. /\ Cardinality(RegularAttempts') <= Cardinality(RegularAttempts)
        /\ Cardinality(RegularAttempts') \in Nat
    BY <1>2, <2>1, Fits
  <2>4. QED
    BY <1>1, <1>2, <2>2, <2>3
<1>6. ASSUME NEW w \in Workers, Reserves(w), Open(w)
      PROVE  IsFiniteSet(Attempted') /\ Cardinality(RegularAttempts') <= AttemptLimit
  <2>1. PICK m \in Messages : m = pass[w].msg
    BY <1>6 DEF Reserves, PassInv, Holding, Stages
  <2>2. PICK i \in 1..MaxAttempts : i = Number(w)
    BY <1>6, <2>1, ReserveEffects DEF Reserves
  <2>3. /\ \A n \in Messages \ {m} : attempt'[n] = attempt[n]
        /\ \A n \in 1..MaxAttempts \ {i} : attempt'[m][n] = attempt[m][n]
        /\ SameMail(m) /\ pc'[w] = "opened"
    BY <1>6, <2>1, <2>2, ReserveEffects DEF Reserves
  <2>4. ASSUME NEW x \in Rows, x # <<m, i>> PROVE attempt'[x[1]][x[2]] = attempt[x[1]][x[2]]
    BY <2>3, <2>4
  <2>5. /\ Attempted' \subseteq Attempted \cup {<<m, i>>}
        /\ RegularAttempts' \subseteq RegularAttempts \cup {<<m, i>>}
    <3>1. Attempted' \subseteq Attempted \cup {<<m, i>>}
      BY <2>4 DEF Attempted
    <3>2. ASSUME NEW x \in RegularAttempts', x # <<m, i>> PROVE x \in RegularAttempts
      <4>1. PICK k \in Messages, n \in 1..MaxAttempts : x = <<k, n>>
        BY <3>2 DEF RegularAttempts, RecentAttempts
      <4>2. attempt'[k][n] = attempt[k][n]
        BY <2>4, <3>2, <4>1
      <4>3. QED
        BY <1>4, <3>2, <4>1, <4>2
    <3>3. QED
      BY <3>1, <3>2
  <2>6. IsFiniteSet(Attempted')
    BY <1>1, <2>5, OneMore
  <2>7. CASE cfg[w].mode = "regular"
    <3>1. ~Finish(w)
      BY <2>3 DEF Finish, TypeOK, ProcessOK
    <3>2. ~(Cardinality(RecentAttempts) >= AttemptLimit)
      BY <1>6, <2>7, <3>1 DEF Open, AttemptLimited
    <3>3. /\ Cardinality(RegularAttempts') <= Cardinality(RegularAttempts) + 1
          /\ Cardinality(RegularAttempts') \in Nat
      BY <1>2, <2>5, OneMore
    <3>4. QED
      BY <1>2, <2>6, <3>2, <3>3
  <2>8. CASE cfg[w].mode # "regular"
    <3>1. envelope[m].mode # "regular"
      BY <1>6, <2>1, <2>8 DEF Reserves, EpochInv, Holding, Stages
    <3>2. <<m, i>> \notin RegularAttempts'
      BY <2>3, <3>1 DEF RegularAttempts, SameMail
    <3>3. RegularAttempts' \subseteq RegularAttempts
      BY <2>5, <3>2
    <3>4. /\ Cardinality(RegularAttempts') <= Cardinality(RegularAttempts)
          /\ Cardinality(RegularAttempts') \in Nat
      BY <1>2, <3>3, Fits
    <3>5. QED
      BY <1>1, <1>2, <2>6, <3>4
  <2>9. QED
    BY <2>7, <2>8
<1>7. QED
  BY <1>5, <1>6, AttemptSteps

LEMMA LimitStep ==
  ASSUME IInv, EpochInv, LimitInv, [Next]_vars
  PROVE  LimitInv'
BY EnvelopesLimited, AttemptsLimited
   DEF LimitInv, RegularLimits, Enveloped, Attempted, RegularEnvelopes, RegularAttempts

LEMMA LimitInit == Init => LimitInv
<1>1. SUFFICES ASSUME Init PROVE LimitInv
  OBVIOUS
<1>2. /\ Enveloped = {} /\ Attempted = {} /\ RegularEnvelopes = {} /\ RegularAttempts = {}
  BY <1>1 DEF Init, Enveloped, Attempted, RegularEnvelopes, RegularAttempts,
     RecentEnvelopes, RecentAttempts, HasEnvelope, NoEnvelope, NoAttempt
<1>3. IsFiniteSet({}) /\ Cardinality({}) = 0
  BY FS_EmptySet
<1>4. NewLimit \in Nat /\ AttemptLimit \in Nat
  BY LimitAssumption
<1>5. /\ IsFiniteSet(Enveloped) /\ IsFiniteSet(Attempted)
      /\ Cardinality(RegularEnvelopes) <= NewLimit
      /\ Cardinality(RegularAttempts) <= AttemptLimit
  BY <1>2, <1>3, <1>4
<1>6. QED
  BY <1>5
     DEF LimitInv, RegularLimits, Enveloped, Attempted, RegularEnvelopes, RegularAttempts

LEMMA LimitInvariance == Spec => []LimitInv
BY LimitInit, LimitStep, Invariance, EpochInvariance, PTL DEF Spec

\* The rolling limits of regular mode hold over every window of an hour, however the
\* passes of the processes overlap: never more than NewLimit new envelopes, nor more
\* than AttemptLimit reservations.
THEOREM LimitsHold == Spec => []RegularLimits
<1>1. LimitInv => RegularLimits
  BY DEF LimitInv
<1>2. QED
  BY <1>1, LimitInvariance, PTL
=============================================================================
