-------------------------- MODULE EmailLedger_proofs --------------------------
(***************************************************************************)
(* A finished job stays as it is, and the passes of all processes together *)
(* implement EmailLedger: every step of EmailRelease is a step of the      *)
(* ledger or leaves it alone.                                              *)
(***************************************************************************)
EXTENDS EmailHandoff_proofs

-----------------------------------------------------------------------------
(* What the actions do to the jobs.                                        *)

\* A job changes only before its end ...
Moved(m) == job'[m] = job[m] \/ job[m].state \notin Terminal
\* ... and, but for a reservation, keeps its count.
Kept(m) == Moved(m) /\ job'[m].made = job[m].made

LEMMA StatesDisjoint == Terminal \cap (Claims \cup {"ABSENT"}) = {}
BY DEF Terminal, Claims

LEMMA StopMoves ==
  ASSUME TypeOK, NEW m \in Messages, NEW w, StopJob(m, w)
  PROVE  \A n \in Messages : Kept(n)
<1>1. job[m].state \in Claims \/ job' = job
  BY DEF StopJob, Takes
<1>2. QED
  BY <1>1, StopKeeps, StatesDisjoint DEF Kept, Moved

LEMMA DeferMoves ==
  ASSUME TypeOK, NEW m \in Messages, NEW w, DeferJob(m, w)
  PROVE  \A n \in Messages : Kept(n)
<1>1. job[m].state \in Claims \/ job' = job
  BY DEF DeferJob, Takes
<1>2. QED
  BY <1>1, DeferKeeps, StatesDisjoint DEF Kept, Moved

LEMMA TakeMoves ==
  ASSUME TypeOK, NEW w \in Workers, NEW m \in Messages, NEW mode, NEW starts,
         NEW expires, Take(w, m, mode, starts, expires), Claimable(m)
  PROVE  \A n \in Messages : Kept(n)
<1> DEFINE c == Claimed(m, w)
<1>1. c.made = job[m].made /\ job[m].state \in Claims
  BY JobTypes DEF Claimed, JobRecord, Claimable, Unclaimed
<1>2. job' = [job EXCEPT ![m] = c]
  BY DEF Take
<1> HIDE DEF c
<1>3. QED
  BY <1>1, <1>2, StatesDisjoint DEF Kept, Moved, TypeOK, DatabaseOK

LEMMA ClaimRegularMoves ==
  ASSUME IInv, NEW w \in Workers, ClaimRegular(w)
  PROVE  \A n \in Messages : Kept(n)
<1> USE DEF IInv
<1> DEFINE c == cfg[w]
           e == EpochFor(c)
           S == Candidates(c, e)
<1>1. CASE UNCHANGED job
  BY <1>1 DEF Kept, Moved
<1>2. CASE \E m \in Heads(S) : AdmitHead(w, m, e)
  <2>1. PICK m \in Heads(S) : AdmitHead(w, m, e)
    BY <1>2
  <2>2. m \in Messages
    BY DEF Heads, Candidates
  <2>3. QED
    BY <2>1, <2>2, StopMoves, DeferMoves, TakeMoves DEF AdmitHead
<1>3. QED
  BY <1>1, <1>2 DEF ClaimRegular

LEMMA ClaimControlledMoves ==
  ASSUME IInv, NEW w \in Workers, ClaimControlled(w)
  PROVE  \A n \in Messages : Kept(n)
<1> USE DEF IInv
<1> DEFINE c == cfg[w]
<1>1. ASSUME NEW m \in Messages, Claimable(m), Take(w, m, "controlled", c.starts, c.ends)
      PROVE  \A n \in Messages : Kept(n)
  BY <1>1, TakeMoves
<1>2. ASSUME NEW m \in Messages, Unclaimed(m),
             job' = [job EXCEPT ![m] = Released(m, "EXHAUSTED")]
      PROVE  \A n \in Messages : Kept(n)
  <2>1. Released(m, "EXHAUSTED").made = job[m].made /\ job[m].state \in Claims
    BY <1>2, ReleasedKeeps, JobTypes DEF Unclaimed
  <2>2. QED
    BY <1>2, <2>1, StatesDisjoint DEF Kept, Moved, TypeOK, DatabaseOK
<1>3. Heads(Fresh(c)) \subseteq Messages /\ Bound(c) \subseteq Messages
  BY DEF Heads, Fresh, Bound
<1>4. QED
  BY <1>1, <1>2, <1>3 DEF ClaimControlled

LEMMA WithdrawMoves ==
  ASSUME IInv, NEW w \in Workers, Withdraw(w)
  PROVE  \A n \in Messages : Kept(n)
<1> USE DEF IInv
<1> DEFINE m == pass[w].msg
<1>1. m \in Messages /\ job[m].state \in Claims
  BY DEF Withdraw, HoldsFor, Mine, Claims, PassInv, Holding, Stages
<1>2. Released(m, "WITHDRAWN").made = job[m].made
  BY <1>1, ReleasedKeeps, JobTypes
<1>3. QED
  BY <1>1, <1>2, StatesDisjoint DEF Withdraw, Kept, Moved, TypeOK, DatabaseOK

LEMMA SettleMoves ==
  ASSUME IInv, NEW w \in Workers, Settle(w)
  PROVE  \A n \in Messages : Kept(n)
<1> USE DEF IInv
<1> DEFINE m == pass[w].msg
<1>1. m \in Messages /\ job[m].state \in Claims
  BY DEF Settle, HoldsFor, Mine, Claims, PassInv, Holding, Stages
<1>2. PICK d \in IF pass[w].reply = "RETRYABLE" THEN RetryDelays ELSE {0} :
        job' = [job EXCEPT ![m] = AfterAttempt(w, m, pass[w].reply, Smaller(d, Hour))]
  BY DEF Settle
<1>3. d \in Nat
  BY DurationTypes
<1>4. Smaller(d, Hour) \in Nat
  BY <1>3, DurationTypes DEF Smaller
<1>5. AfterAttempt(w, m, pass[w].reply, Smaller(d, Hour)).made = job[m].made
  BY <1>1, <1>4, AfterAttemptKeeps
<1>6. QED
  BY <1>1, <1>2, <1>5, StatesDisjoint DEF Kept, Moved, TypeOK, DatabaseOK

\* A reservation counts one more on the claimed job, and nothing else.
LEMMA ReserveMoves ==
  ASSUME IInv, NEW w \in Workers, Reservable(w), Reserve(w), pc[w] = "opening"
  PROVE  LET m == pass[w].msg
         IN /\ m \in Messages /\ job[m].state = "CLAIMED"
            /\ job[m].made < MaxAttempts /\ job'[m].made = job[m].made + 1
            /\ job'[m].state = "CLAIMED" /\ \A n \in Messages \ {m} : job'[n] = job[n]
<1> USE DEF IInv
<1> DEFINE m == pass[w].msg
           r == Reserved(m, Number(w))
<1>1. m \in Messages /\ job[m].state = "CLAIMED" /\ job[m].made < MaxAttempts
  BY DEF Reservable, HoldsFor, Mine, PassInv, Holding, Stages
<1>2. r.made = job[m].made + 1 /\ r.state = "CLAIMED"
  BY <1>1, JobTypes DEF Reserved, JobRecord
<1>3. job' = [job EXCEPT ![m] = r]
  BY DEF Reserve
<1> HIDE DEF r
<1>4. QED
  BY <1>1, <1>2, <1>3 DEF TypeOK, DatabaseOK

\* What opening does when it reserves nothing.
LEMMA OpenMoves ==
  ASSUME IInv, NEW w \in Workers, Open(w)
  PROVE  \/ Reservable(w) /\ Reserve(w)
         \/ /\ \A n \in Messages : Kept(n)
            /\ Finish(w) \/ Step(w, "withdrawing")
<1> USE DEF IInv
<1> DEFINE m == pass[w].msg
<1>1. m \in Messages
  BY DEF Open, PassInv, Holding, Stages
<1>2. CASE StopJob(m, w) /\ Finish(w)
  BY <1>1, <1>2, StopMoves
<1>3. CASE DeferJob(m, w) /\ Finish(w)
  BY <1>1, <1>3, DeferMoves
<1>4. CASE Step(w, "withdrawing") /\ UNCHANGED job
  BY <1>4 DEF Kept, Moved
<1>5. QED
  BY <1>2, <1>3, <1>4 DEF Open

LEMMA EnqueueMoves ==
  ASSUME IInv, NEW m \in Messages, Enqueue(m)
  PROVE  \A n \in Messages : Kept(n)
<1>1. job[m].state = "ABSENT" /\ job[m].made = 0
  BY DEF Enqueue, IInv, RowsInv
<1>2. job'[m].made = 0 /\ \A n \in Messages \ {m} : job'[n] = job[n]
  BY DEF Enqueue, NewJob, IInv, TypeOK, DatabaseOK
<1>3. QED
  BY <1>1, <1>2, StatesDisjoint DEF Kept, Moved

LEMMA CancelMoves ==
  ASSUME IInv, NEW b, Cancel(b)
  PROVE  \A n \in Messages : Kept(n)
<1>1. \A n \in Messages : Released(n, "CANCELLED").made = job[n].made
  BY ReleasedKeeps, JobTypes DEF IInv
<1>2. \A n \in Messages : \/ job'[n] = job[n]
                          \/ /\ job'[n] = Released(n, "CANCELLED")
                             /\ job[n].state \in Claims
  BY DEF Cancel, Stoppable
<1>3. QED
  BY <1>1, <1>2, StatesDisjoint DEF Kept, Moved
-----------------------------------------------------------------------------
(* The four kinds of step.                                                 *)

\* The calls in progress are the same before and after.
Steady ==
  \A v \in Workers :
    /\ pc'[v] = "sending" <=> pc[v] = "sending"
    /\ pc[v] = "sending" => pass'[v].msg = pass[v].msg /\ pass'[v].made = pass[v].made

Reserves(w) ==
  pc[w] = "opening" /\ Live(w) /\ Reservable(w) /\ Reserve(w) /\ sent' = sent
HandsOff(w) ==
  /\ pc[w] = "cleared" /\ Live(w) /\ job' = job /\ now' = now
  /\ pc' = [pc EXCEPT ![w] = "sending"]
  /\ pass' = [pass EXCEPT ![w].until = now + Timeout]
  /\ sent' = sent \cup {Request(w)}
Returns(w) ==
  /\ pc[w] = "sending" /\ pc'[w] # "sending" /\ job' = job /\ sent' = sent
  /\ \A v \in Workers \ {w} : pc'[v] = pc[v] /\ pass'[v] = pass[v]
Bookkeeping ==
  (\A n \in Messages : Kept(n)) /\ Steady /\ sent' = sent

LEMMA FinishSteady ==
  ASSUME TypeOK, NEW w \in Workers, Finish(w), pc[w] # "sending"
  PROVE  Steady
BY DEF Finish, Steady, TypeOK, ProcessOK

LEMMA StepSteady ==
  ASSUME TypeOK, NEW w \in Workers, NEW to, Step(w, to), to # "sending", pc[w] # "sending"
  PROVE  Steady
BY DEF Step, Steady, TypeOK, ProcessOK

LEMMA PassKinds ==
  ASSUME IInv, NEW w \in Workers, Pass(w)
  PROVE  Reserves(w) \/ HandsOff(w) \/ Returns(w) \/ Bookkeeping
<1> USE DEF IInv
<1>1. CASE Begin(w)
  <2>1. Steady
    BY <1>1 DEF Begin, Steady, TypeOK, ProcessOK
  <2>2. QED
    BY <1>1, <2>1 DEF Begin, Bookkeeping, Kept, Moved, database, provider
<1>2. CASE CloseEpoch(w)
  BY <1>2 DEF CloseEpoch, Bookkeeping, Steady, Kept, Moved, process, provider
<1>3. CASE ClaimRegular(w)
  <2>1. pc[w] = "begun"
    BY <1>3 DEF ClaimRegular
  <2>2. CASE Finish(w)
    BY <1>3, <2>1, <2>2, FinishSteady, ClaimRegularMoves
       DEF ClaimRegular, Bookkeeping, provider
  <2>3. CASE \E m, mode, starts, expires : Take(w, m, mode, starts, expires)
    <3>1. Steady
      BY <2>1, <2>3 DEF Take, Steady, TypeOK, ProcessOK
    <3>2. QED
      BY <1>3, <3>1, ClaimRegularMoves DEF ClaimRegular, Bookkeeping, provider
  <2>4. QED
    BY <1>3, <2>2, <2>3 DEF ClaimRegular, AdmitHead
<1>4. CASE ClaimControlled(w)
  <2>1. pc[w] = "begun"
    BY <1>4 DEF ClaimControlled
  <2>2. CASE Finish(w)
    BY <1>4, <2>1, <2>2, FinishSteady, ClaimControlledMoves
       DEF ClaimControlled, Bookkeeping, provider
  <2>3. CASE \E m, mode, starts, expires : Take(w, m, mode, starts, expires)
    <3>1. Steady
      BY <2>1, <2>3 DEF Take, Steady, TypeOK, ProcessOK
    <3>2. QED
      BY <1>4, <3>1, ClaimControlledMoves DEF ClaimControlled, Bookkeeping, provider
  <2>4. QED
    BY <1>4, <2>2, <2>3 DEF ClaimControlled
<1>5. CASE Resolve(w) \/ Recheck(w) \/ MaySend(w)
  <2>1. /\ pc[w] # "sending" /\ job' = job /\ sent' = sent
        /\ \E to \in {"opening", "withdrawing", "vetoing", "cleared"} : Step(w, to)
    BY <1>5 DEF Resolve, Recheck, MaySend, database, provider
  <2>2. QED
    BY <2>1, StepSteady DEF Bookkeeping, Kept, Moved
<1>6. CASE Open(w)
  <2>1. pc[w] = "opening" /\ Live(w) /\ sent' = sent
    BY <1>6 DEF Open, provider
  <2>2. CASE Reservable(w) /\ Reserve(w)
    BY <2>1, <2>2 DEF Reserves
  <2>3. CASE (\A n \in Messages : Kept(n)) /\ (Finish(w) \/ Step(w, "withdrawing"))
    BY <2>1, <2>3, FinishSteady, StepSteady DEF Bookkeeping
  <2>4. QED
    BY <1>6, <2>2, <2>3, OpenMoves
<1>7. CASE Send(w)
  <2>1. pc[w] = "cleared" /\ Live(w) /\ job' = job /\ now' = now
    BY <1>7 DEF Send, database
  <2>2. CASE Step(w, "withdrawing") /\ UNCHANGED <<wire, sent>>
    BY <2>1, <2>2, StepSteady DEF Bookkeeping, Kept, Moved
  <2>3. CASE /\ pc' = [pc EXCEPT ![w] = "sending"]
             /\ pass' = [pass EXCEPT ![w].until = now + Timeout]
             /\ sent' = sent \cup {Request(w)}
    BY <2>1, <2>3 DEF HandsOff
  <2>4. QED
    BY <1>7, <2>2, <2>3 DEF Send
<1>8. ASSUME NEW reply \in Replies, Answer(w, reply) PROVE Returns(w)
  BY <1>8 DEF Answer, Returns, database, provider, TypeOK, ProcessOK
<1>9. CASE Withdraw(w)
  <2>1. pc[w] = "withdrawing" /\ Finish(w) /\ sent' = sent
    BY <1>9 DEF Withdraw, provider
  <2>2. QED
    BY <1>9, <2>1, FinishSteady, WithdrawMoves DEF Bookkeeping
<1>10. CASE Settle(w)
  <2>1. pc[w] = "answered" /\ Finish(w) /\ sent' = sent
    BY <1>10 DEF Settle, provider
  <2>2. QED
    BY <1>10, <2>1, FinishSteady, SettleMoves DEF Bookkeeping
<1>11. CASE EndPass(w)
  <2>1. Finish(w) /\ job' = job /\ sent' = sent
    BY <1>11 DEF EndPass, database, provider
  <2>2. CASE pc[w] = "sending"
    BY <2>1, <2>2, FinishMoves DEF Returns, Finish, TypeOK, ProcessOK
  <2>3. CASE pc[w] # "sending"
    BY <2>1, <2>3, FinishSteady DEF Bookkeeping, Kept, Moved
  <2>4. QED
    BY <2>2, <2>3
<1>12. QED
  BY <1>1, <1>2, <1>3, <1>4, <1>5, <1>6, <1>7, <1>8, <1>9, <1>10, <1>11 DEF Pass

LEMMA StepKinds ==
  ASSUME IInv, [Next]_vars
  PROVE  \/ \E w \in Workers : Reserves(w) \/ HandsOff(w) \/ Returns(w)
         \/ Bookkeeping
<1>1. CASE \E w \in Workers : Pass(w)
  BY <1>1, PassKinds
<1>2. CASE \/ Tick \/ UNCHANGED vars
           \/ \E r \in wire : Provider(r)
           \/ \E k \in accepted : RecordEvent(k)
           \/ \E m \in Messages : ChangeStanding(m)
           \/ \E w \in Workers, c \in Configs : Reconfigure(w, c)
           \/ \E b \in BOOLEAN : SavePreferences(b)
           \/ \E a \in Addresses \cup {None} : ChangeOwner(a)
  <2>1. UNCHANGED <<job, pc, pass, sent>>
    BY <1>2 DEF Tick, vars, Provider, RecordEvent, ChangeStanding, Reconfigure,
                SavePreferences, ChangeOwner, database, process, provider
  <2>2. QED
    BY <2>1 DEF Bookkeeping, Steady, Kept, Moved
<1>3. ASSUME NEW m \in Messages, Enqueue(m) PROVE Bookkeeping
  BY <1>3, EnqueueMoves DEF Enqueue, Bookkeeping, Steady, process, provider
<1>4. ASSUME NEW b \in Times, Cancel(b + 1) PROVE Bookkeeping
  BY <1>4, CancelMoves DEF Cancel, Bookkeeping, Steady, process, provider
<1>5. QED
  BY <1>1, <1>2, <1>3, <1>4 DEF Next, Environment
-----------------------------------------------------------------------------
(* The theorems.                                                           *)

\* A finished job stays as it is: sent, refused, stopped and withdrawn mail is
\* never claimed, deferred, relabelled or resent.
THEOREM FinishedStays == Spec => TerminalFinal
<1> DEFINE Final == \A m \in Messages : job[m].state \in Terminal => job'[m] = job[m]
<1>1. ASSUME IInv, [Next]_vars PROVE Final
  <2>1. CASE \E w \in Workers : Reserves(w)
    <3>1. PICK w \in Workers : Reserves(w)
      BY <2>1
    <3>2. LET m == pass[w].msg
          IN m \in Messages /\ job[m].state = "CLAIMED"
             /\ \A n \in Messages \ {m} : job'[n] = job[n]
      BY <1>1, <3>1, ReserveMoves DEF Reserves
    <3>3. QED
      BY <3>2 DEF Terminal
  <2>2. CASE \E w \in Workers : HandsOff(w) \/ Returns(w)
    BY <2>2 DEF HandsOff, Returns
  <2>3. CASE Bookkeeping
    BY <2>3 DEF Bookkeeping, Kept, Moved
  <2>4. QED
    BY <1>1, <2>1, <2>2, <2>3, StepKinds
<1>2. IInv /\ [Next]_vars => [Final]_vars
  BY <1>1
<1>3. QED
  BY <1>2, Invariance, PTL DEF Spec, TerminalFinal
-----------------------------------------------------------------------------
(* The refinement.                                                         *)

reservedBar == [m \in Messages |-> job[m].made]
handedBar   == {<<r.msg, r.no>> : r \in sent}
flightBar   == {<<pass[w].msg, Number(w)>> : w \in {v \in Workers : Sending(v)}}
overBar     == {m \in Messages : job[m].state \in Terminal}

\* A call in progress keeps others from reserving and from calling for its message.
LEMMA NotInFlight ==
  ASSUME IInv, NEW w \in Workers, Live(w), pc[w] \in {"opening", "cleared"},
         pc[w] = "opening" => job[pass[w].msg].state = "CLAIMED" /\ job[pass[w].msg].by = w
  PROVE  \A f \in flightBar : f[1] # pass[w].msg
<1> USE DEF IInv
<1>1. SUFFICES ASSUME NEW v \in Workers, Sending(v), pass[v].msg = pass[w].msg
      PROVE  FALSE
  BY DEF flightBar
<1>2. v # w /\ pc[v] \in Holding /\ pc[w] \in Holding /\ pc[v] \in Spent
  BY <1>1 DEF Sending, Holding, Stages, Spent
<1>3. Held(v) /\ Held(w) /\ now <= pass[v].until /\ pass[v].until <= pass[v].deadline
  BY <1>1, <1>2 DEF ClaimInv, PassInv
<1>4. /\ now \in Nat /\ pass[v].until \in Nat /\ pass[v].deadline \in Nat
      /\ pass[w].deadline \in Nat
  BY PassTypes
<1>5. now < pass[w].deadline /\ ~(now > pass[v].deadline)
  BY <1>3, <1>4 DEF Live
<1>6. CASE pc[w] = "opening"
  BY <1>1, <1>2, <1>3, <1>5, <1>6 DEF Held
<1>7. CASE pc[w] = "cleared"
  <2>1. job[pass[w].msg].made = Number(w) /\ job[pass[v].msg].made = Number(v)
    BY <1>2, <1>3, <1>4, <1>5, <1>7 DEF Held, Spent
  <2>2. Number(v) # Number(w)
    BY <1>1, <1>2, <1>7 DEF SpentInv, Spent
  <2>3. QED
    BY <1>1, <2>1, <2>2
<1>8. QED
  BY <1>6, <1>7

LEMMA LedgerReserve ==
  ASSUME IInv, NEW w \in Workers, Reserves(w)
  PROVE  \E m \in Messages : Ledger!Reserve(m)
<1> USE DEF IInv
<1>m. PICK m \in Messages : m = pass[w].msg
  BY ReserveMoves DEF Reserves
<1>1. /\ m \in Messages /\ job[m].state = "CLAIMED" /\ job[m].made < MaxAttempts
      /\ job'[m].made = job[m].made + 1 /\ job'[m].state = "CLAIMED"
      /\ \A n \in Messages \ {m} : job'[n] = job[n]
  BY <1>m, ReserveMoves DEF Reserves
<1>2. \A f \in flightBar : f[1] # m
  BY <1>m, NotInFlight DEF Reserves, Reservable, HoldsFor, Mine
<1>3. m \notin overBar
  BY <1>1 DEF overBar, Terminal
<1>4. reservedBar' = [reservedBar EXCEPT ![m] = @ + 1] /\ reservedBar[m] < MaxAttempts
  BY <1>1 DEF reservedBar
<1>5. overBar' = overBar
  BY <1>1 DEF overBar
<1>6. handedBar' = handedBar
  BY DEF handedBar, Reserves
<1>7. flightBar' = flightBar
  <2>1. \A v \in Workers : /\ pc'[v] = "sending" <=> pc[v] = "sending"
                           /\ pc[v] = "sending" => pass'[v] = pass[v]
    BY DEF Reserves, Reserve, TypeOK, ProcessOK
  <2>2. QED
    BY <2>1 DEF flightBar, Sending, Number
<1>8. QED
  BY <1>1, <1>2, <1>3, <1>4, <1>5, <1>6, <1>7
     DEF Ledger!Reserve, Ledger!InFlight, reservedBar, handedBar, flightBar, overBar

LEMMA LedgerHandOff ==
  ASSUME IInv, NEW w \in Workers, HandsOff(w)
  PROVE  \E m \in Messages : Ledger!HandOff(m)
<1> USE DEF IInv
<1>m. PICK m \in Messages : m = pass[w].msg
  BY DEF HandsOff, PassInv, Holding, Stages
<1> DEFINE f == <<m, Number(w)>>
<1>1. m = pass[w].msg /\ m \in Messages /\ pc[w] \in Holding /\ pc[w] \in Spent /\ pc[w] \in Unsent
  BY <1>m DEF HandsOff, PassInv, Holding, Stages, Spent, Unsent
<1>2. Number(w) = job[m].made /\ Number(w) > 0
  <2>1. Held(w) /\ now < pass[w].deadline
    BY <1>1 DEF ClaimInv, HandsOff, Live
  <2>2. now \in Nat /\ pass[w].deadline \in Nat /\ pass[w].made \in Nat
    BY PassTypes
  <2>3. QED
    BY <1>1, <2>1, <2>2 DEF Held, Number
<1>3. \A g \in flightBar : g[1] # m
  BY <1>1, NotInFlight DEF HandsOff
<1>4. f \notin handedBar
  BY <1>1 DEF handedBar, SpentInv
<1>5. handedBar' = handedBar \cup {f}
  <2>1. PICK r : r = Request(w)
    OBVIOUS
  <2>2. sent' = sent \cup {r} /\ <<r.msg, r.no>> = f
    BY <1>1, <2>1 DEF HandsOff, Request
  <2>3. QED
    BY <2>2 DEF handedBar
<1>6. flightBar' = {f} \cup flightBar
  <2>1. /\ pc'[w] = "sending" /\ pass'[w].msg = m /\ pass'[w].made = pass[w].made
        /\ \A v \in Workers \ {w} : pc'[v] = pc[v] /\ pass'[v] = pass[v]
        /\ pc[w] # "sending"
    BY <1>1, PassTypes DEF HandsOff, TypeOK, ProcessOK, PassRecord
  <2>2. QED
    BY <1>1, <2>1 DEF flightBar, Sending, Number
<1>7. reservedBar' = reservedBar /\ overBar' = overBar
  BY DEF reservedBar, overBar, HandsOff
<1>8. f = <<m, reservedBar[m]>> /\ reservedBar[m] > 0
  BY <1>1, <1>2 DEF reservedBar
<1>9. QED
  BY <1>1, <1>3, <1>4, <1>5, <1>6, <1>7, <1>8
     DEF Ledger!HandOff, Ledger!InFlight, reservedBar, handedBar, flightBar, overBar

LEMMA LedgerReturn ==
  ASSUME IInv, NEW w \in Workers, Returns(w)
  PROVE  \E f \in flightBar : Ledger!Return(f)
<1> USE DEF IInv
<1> DEFINE f == <<pass[w].msg, Number(w)>>
<1>1. f \in flightBar
  BY DEF flightBar, Returns, Sending
<1>2. \A v \in Workers \ {w} : Sending(v) => <<pass[v].msg, Number(v)>> # f
  BY DEF SpentInv, Spent, Sending, Returns
<1>3. flightBar' = flightBar \ {f}
  BY <1>2 DEF flightBar, Returns, Sending, Number
<1>4. reservedBar' = reservedBar /\ overBar' = overBar /\ handedBar' = handedBar
  BY DEF reservedBar, overBar, handedBar, Returns
<1>5. QED
  BY <1>1, <1>3, <1>4
     DEF Ledger!Return, reservedBar, handedBar, flightBar, overBar

LEMMA LedgerBookkeeping ==
  ASSUME IInv, Bookkeeping
  PROVE  (\E S \in SUBSET Messages : Ledger!Conclude(S)) \/ UNCHANGED Ledger!vars
<1>1. reservedBar' = reservedBar /\ handedBar' = handedBar
  BY DEF reservedBar, handedBar, Bookkeeping, Kept
<1>2. flightBar' = flightBar
  BY DEF flightBar, Sending, Number, Bookkeeping, Steady
<1>3. overBar \subseteq overBar'
  BY DEF overBar, Bookkeeping, Kept, Moved
<1>4. CASE overBar' = overBar
  BY <1>1, <1>2, <1>4 DEF Ledger!vars, reservedBar, handedBar, flightBar, overBar
<1>5. CASE overBar' # overBar
  <2>1. PICK S \in SUBSET Messages : S = overBar'
    BY DEF overBar
  <2>2. S # {} /\ overBar' = overBar \cup S
    BY <1>3, <1>5, <2>1
  <2>3. Ledger!Conclude(S)
    BY <1>1, <1>2, <2>2
       DEF Ledger!Conclude, reservedBar, handedBar, flightBar, overBar
  <2>4. QED
    BY <2>3
<1>6. QED
  BY <1>4, <1>5

LEMMA LedgerInit == Init => Ledger!Init
BY DEF Init, Ledger!Init, NoJob, Terminal, Sending

LEMMA LedgerStep == IInv /\ [Next]_vars => [Ledger!Next]_(Ledger!vars)
<1> SUFFICES ASSUME IInv, [Next]_vars PROVE [Ledger!Next]_(Ledger!vars)
  OBVIOUS
<1>1. ASSUME NEW w \in Workers, Reserves(w) PROVE Ledger!Next
  BY <1>1, LedgerReserve DEF Ledger!Next
<1>2. ASSUME NEW w \in Workers, HandsOff(w) PROVE Ledger!Next
  BY <1>2, LedgerHandOff DEF Ledger!Next
<1>3. ASSUME NEW w \in Workers, Returns(w) PROVE Ledger!Next
  BY <1>3, LedgerReturn DEF Ledger!Next, flightBar
<1>4. ASSUME Bookkeeping PROVE [Ledger!Next]_(Ledger!vars)
  BY <1>4, LedgerBookkeeping DEF Ledger!Next
<1>5. QED
  BY <1>1, <1>2, <1>3, <1>4, StepKinds

\* The passes of all processes together keep the promise of EmailLedger: every
\* request leaves under a reservation of its own, requests for one message never
\* overlap, and nothing is reserved once the message is over.
THEOREM LedgerKept == Spec => KeepsLedger
BY LedgerInit, LedgerStep, Invariance, PTL DEF Spec, KeepsLedger, Ledger!Spec
=============================================================================
