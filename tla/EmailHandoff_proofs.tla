------------------------- MODULE EmailHandoff_proofs -------------------------
(***************************************************************************)
(* The inductive invariant IInv of EmailRelease and what follows from it:  *)
(* a provider call is always covered by its caller's claim, a reservation  *)
(* is spent before it is used and used once, and the passes of all         *)
(* processes together keep the promise of EmailLedger.                     *)
(***************************************************************************)
EXTENDS EmailRelease_proofs

-----------------------------------------------------------------------------
(* What a step may do to a pass that does not take it.                     *)

\* Job m is left alone, cancelled, or taken from a claim that does not protect v.
Undisturbed(v, m) ==
  \/ job'[m] = job[m]
  \/ job'[m] = Released(m, "CANCELLED")
  \/ /\ job[m].state # "CANCELLED"
     /\ ~(job[m].state = "CLAIMED" /\ job[m].by = v /\ job[m].until > now)

\* Types that the arithmetic of the invariant needs.
LEMMA PassTypes ==
  ASSUME TypeOK, NEW w \in Workers
  PROVE  /\ now \in Nat /\ pass[w] \in PassRecord /\ pc[w] \in Stages
         /\ pass[w].deadline \in Nat /\ pass[w].until \in Nat
         /\ pass[w].made \in Nat /\ Number(w) \in Nat
BY NowType, DurationTypes DEF TypeOK, ProcessOK, PassRecord, Number

LEMMA JobTypes ==
  ASSUME TypeOK, NEW m \in Messages
  PROVE  /\ job[m] \in JobRecord
         /\ job[m].made \in 0..MaxAttempts /\ job[m].made \in Nat
         /\ job[m].until \in Nat /\ job[m].by \in Workers \cup {None}
BY DurationTypes DEF TypeOK, DatabaseOK, JobRecord

\* A pass that an action leaves alone still holds what it held.
LEMMA HeldKept ==
  ASSUME TypeOK, NEW v \in Workers, pass[v].msg \in Messages, Held(v),
         pc'[v] = pc[v], pass'[v] = pass[v], now' \in Nat, now' >= now,
         job' \in [Messages -> JobRecord], Undisturbed(v, pass[v].msg)
  PROVE  Held(v)'
<1> DEFINE m == pass[v].msg
<1>1. now \in Nat /\ pass[v].deadline \in Nat /\ job[m].until \in Nat
  BY PassTypes, JobTypes
<1>2. CASE now > pass[v].deadline
  BY <1>1, <1>2 DEF Held
<1>3. CASE job'[m] = job[m]
  BY <1>1, <1>3 DEF Held, Number
<1>4. CASE job'[m] = Released(m, "CANCELLED")
  <2>1. job'[m].state = "CANCELLED" /\ job'[m].made = job[m].made
    BY <1>4, JobTypes DEF Released, JobRecord
  <2>2. QED
    BY <1>1, <2>1 DEF Held, Number
<1>5. CASE /\ job[m].state # "CANCELLED"
           /\ ~(job[m].state = "CLAIMED" /\ job[m].by = v /\ job[m].until > now)
  <2>1. now > pass[v].deadline
    BY <1>1, <1>5 DEF Held
  <2>2. QED
    BY <1>2, <2>1
<1>6. QED
  BY <1>3, <1>4, <1>5 DEF Undisturbed

-----------------------------------------------------------------------------
(* Steps that neither reserve nor hand off.                                *)

\* The moves of a pass from one await to the next that touch no job.
Advance(p, q) ==
  \/ p = "claimed" /\ q = "opening"
  \/ p = "opened" /\ q = "vetoing"
  \/ p = "vetoing" /\ q = "cleared"
  \/ p = "sending" /\ q = "answered"
  \/ p \in {"claimed", "opening", "opened", "vetoing", "cleared"} /\ q = "withdrawing"

\* What such a step does to the pass of v: it ends, it begins, it takes a claim,
\* it is left alone, or it moves on with the job as it was.
Quiet(v) ==
  \/ pc'[v] = "idle"
  \/ pc'[v] = "begun" /\ pass'[v].deadline <= now' + Budget
  \/ /\ pc'[v] = "claimed" /\ pass'[v].msg \in Messages
     /\ pass'[v].deadline <= now' + Budget /\ Held(v)'
  \/ /\ pass'[v] = pass[v] /\ pc'[v] = pc[v]
     /\ Sending(v) => now' <= pass[v].until
     /\ pc[v] \in Holding => Undisturbed(v, pass[v].msg)
  \/ /\ Advance(pc[v], pc'[v]) /\ job' = job /\ now' = now
     /\ pass'[v].msg = pass[v].msg /\ pass'[v].made = pass[v].made
     /\ pass'[v].deadline = pass[v].deadline

LEMMA QuietStep ==
  ASSUME IInv, TypeOK', now' >= now, sent' = sent,
         \A m \in Messages : /\ job'[m].made = job[m].made
                             /\ job'[m].state = "ABSENT" => job[m].state = "ABSENT",
         \A m \in Messages : \A n \in 1..MaxAttempts :
           attempt'[m][n].at = attempt[m][n].at,
         \A v \in Workers : Quiet(v)
  PROVE  IInv'
<1> USE DEF IInv
<1>1. now \in Nat /\ now' \in Nat /\ Budget \in Nat /\ job' \in [Messages -> JobRecord]
  BY NowType, DurationTypes DEF TypeOK, DatabaseOK, Times
<1>2. \A v \in Workers : /\ pass[v].deadline \in Nat /\ pass[v].until \in Nat
                         /\ pc[v] \in Stages
  BY PassTypes
<1>3. PassInv'
  <2>1. SUFFICES ASSUME NEW v \in Workers
        PROVE  /\ pc'[v] \in Holding => pass'[v].msg \in Messages
               /\ pc'[v] # "idle" => pass'[v].deadline <= now' + Budget
               /\ pc'[v] = "sending" =>
                    pass'[v].until <= pass'[v].deadline /\ now' <= pass'[v].until
    BY DEF PassInv, Sending
  <2>2. CASE /\ pass'[v] = pass[v] /\ pc'[v] = pc[v]
             /\ Sending(v) => now' <= pass[v].until
    BY <1>1, <1>2, <2>2 DEF PassInv, Sending
  <2>3. CASE /\ Advance(pc[v], pc'[v]) /\ now' = now
             /\ pass'[v].msg = pass[v].msg /\ pass'[v].deadline = pass[v].deadline
    <3>1. pc[v] \in Holding /\ pc'[v] # "sending"
      BY <2>3 DEF Advance, Holding, Stages
    <3>2. QED
      BY <2>3, <3>1 DEF PassInv, Holding
  <2>4. CASE \/ pc'[v] = "idle"
             \/ pc'[v] = "begun" /\ pass'[v].deadline <= now' + Budget
             \/ /\ pc'[v] = "claimed" /\ pass'[v].msg \in Messages
                /\ pass'[v].deadline <= now' + Budget
    BY <2>4 DEF Holding
  <2>5. QED
    BY <2>2, <2>3, <2>4 DEF Quiet
<1>4. ClaimInv'
  <2>1. SUFFICES ASSUME NEW v \in Workers, pc'[v] \in Holding
        PROVE  Held(v)'
    BY DEF ClaimInv
  <2>2. CASE /\ pass'[v] = pass[v] /\ pc'[v] = pc[v]
             /\ pc[v] \in Holding => Undisturbed(v, pass[v].msg)
    <3>1. pass[v].msg \in Messages /\ Held(v)
      BY <2>1, <2>2 DEF PassInv, ClaimInv
    <3>2. QED
      BY <1>1, <2>1, <2>2, <3>1, HeldKept
  <2>3. CASE /\ Advance(pc[v], pc'[v]) /\ job' = job /\ now' = now
             /\ pass'[v].msg = pass[v].msg /\ pass'[v].made = pass[v].made
             /\ pass'[v].deadline = pass[v].deadline
    <3>1. /\ pc[v] \in Holding
          /\ pc'[v] \in {"claimed", "opening"} => pc[v] \in {"claimed", "opening"}
          /\ pc'[v] \in Spent => pc[v] \in Spent
      BY <2>3 DEF Advance, Holding, Spent, Stages
    <3>2. Held(v)
      BY <3>1 DEF ClaimInv
    <3>3. QED
      BY <2>3, <3>1, <3>2 DEF Held, Number
  <2>4. QED
    BY <2>1, <2>2, <2>3 DEF Quiet, Holding
<1>5. \A v \in Workers : pc'[v] \in Spent =>
        /\ pc[v] \in Spent /\ (pc'[v] \in Unsent => pc[v] \in Unsent)
        /\ pass'[v].msg = pass[v].msg /\ Number(v)' = Number(v)
        /\ pass[v].msg \in Messages
  <2>1. SUFFICES ASSUME NEW v \in Workers, pc'[v] \in Spent
        PROVE  /\ pc[v] \in Spent /\ (pc'[v] \in Unsent => pc[v] \in Unsent)
               /\ pass'[v].msg = pass[v].msg /\ pass'[v].made = pass[v].made
    BY DEF Number, PassInv, Spent, Holding, Stages
  <2>2. QED
    BY <2>1 DEF Quiet, Advance, Spent, Unsent
<1>6. SpentInv'
  <2>1. SUFFICES ASSUME NEW v \in Workers, pc'[v] \in Spent
        PROVE  /\ Number(v)' <= job'[pass'[v].msg].made
               /\ \A u \in Workers \ {v} :
                    pc'[u] \in Spent /\ pass'[u].msg = pass'[v].msg => Number(u)' # Number(v)'
               /\ pc'[v] \in Unsent =>
                    \A r \in sent' : r.msg = pass'[v].msg => r.no # Number(v)'
    BY DEF SpentInv
  <2>2. QED
    BY <1>5, <2>1 DEF SpentInv
<1>7. RowsInv'
  BY DEF RowsInv, TypeOK, ProviderOK, RequestRecord
<1>8. QED
  BY <1>3, <1>4, <1>6, <1>7

\* A pass that the step does not move is quiet if its job is undisturbed.
LEMMA LeftAlone ==
  ASSUME IInv, NEW v \in Workers, pc'[v] = pc[v], pass'[v] = pass[v], now' = now,
         pc[v] \in Holding => Undisturbed(v, pass[v].msg)
  PROVE  Quiet(v)
BY DEF IInv, PassInv, Quiet

\* A step of w that changes job m at most, without a reservation or a request.
LEMMA JobStep ==
  ASSUME IInv, TypeOK', NEW w \in Workers, NEW m \in Messages, Quiet(w),
         now' = now, sent' = sent,
         \A n \in Messages \ {m} : job'[n] = job[n],
         job'[m].made = job[m].made,
         job'[m].state = "ABSENT" => job[m].state = "ABSENT",
         \A k \in Messages : \A n \in 1..MaxAttempts : attempt'[k][n].at = attempt[k][n].at,
         \A v \in Workers \ {w} :
           pc'[v] = pc[v] /\ pass'[v] = pass[v] /\ Undisturbed(v, m)
  PROVE  IInv'
<1>1. \A v \in Workers : Quiet(v)
  <2>1. SUFFICES ASSUME NEW v \in Workers, v # w PROVE Quiet(v)
    OBVIOUS
  <2>2. ASSUME pc[v] \in Holding PROVE Undisturbed(v, pass[v].msg)
    <3>1. pass[v].msg \in Messages
      BY <2>2 DEF IInv, PassInv
    <3>2. CASE pass[v].msg = m
      BY <2>1, <3>2
    <3>3. CASE pass[v].msg # m
      BY <3>1, <3>3 DEF Undisturbed
    <3>4. QED
      BY <3>2, <3>3
  <2>3. QED
    BY <2>1, <2>2, LeftAlone
<1>2. now' >= now
  BY NowType DEF IInv, TypeOK
<1>3. QED
  BY <1>1, <1>2, QuietStep

\* A step of w that touches no job, attempt or request.
LEMMA MoveStep ==
  ASSUME IInv, TypeOK', NEW w \in Workers, Quiet(w),
         now' = now, job' = job, attempt' = attempt, sent' = sent,
         \A v \in Workers \ {w} : pc'[v] = pc[v] /\ pass'[v] = pass[v]
  PROVE  IInv'
<1>1. \A v \in Workers : Quiet(v)
  BY LeftAlone DEF Undisturbed
<1>2. now' >= now
  BY NowType DEF IInv, TypeOK
<1>3. QED
  BY <1>1, <1>2, QuietStep

LEMMA FinishMoves ==
  ASSUME TypeOK, NEW w \in Workers, Finish(w)
  PROVE  /\ Quiet(w)
         /\ \A v \in Workers \ {w} : pc'[v] = pc[v] /\ pass'[v] = pass[v]
BY DEF Finish, Quiet, TypeOK, ProcessOK

LEMMA StepMoves ==
  ASSUME TypeOK, NEW w \in Workers, NEW to \in Stages, Step(w, to),
         Advance(pc[w], to), job' = job, now' = now
  PROVE  /\ Quiet(w)
         /\ \A v \in Workers \ {w} : pc'[v] = pc[v] /\ pass'[v] = pass[v]
BY DEF Step, Quiet, TypeOK, ProcessOK

\* Stopping or deferring a job leaves the other passes what they hold.
LEMMA TakesUndisturbed ==
  ASSUME NEW m \in Messages, NEW w, Takes(m, w), NEW v \in Workers, v # w,
         TypeOK
  PROVE  Undisturbed(v, m)
<1>1. job[m].until \in Nat /\ now \in Nat
  BY JobTypes, NowType DEF TypeOK
<1>2. QED
  BY <1>1 DEF Takes, Undisturbed, Claims

LEMMA StopKeeps ==
  ASSUME TypeOK, NEW m \in Messages, NEW w, StopJob(m, w)
  PROVE  /\ \A n \in Messages \ {m} : job'[n] = job[n]
         /\ job'[m].made = job[m].made
         /\ job'[m].state = "ABSENT" => job[m].state = "ABSENT"
         /\ \A v \in Workers \ {w} : Undisturbed(v, m)
<1> DEFINE r == Released(m, "WITHDRAWN")
<1>1. r.made = job[m].made /\ r.state = "WITHDRAWN"
  BY JobTypes DEF Released, JobRecord
<1>2. CASE Takes(m, w)
  <2>1. job' = [job EXCEPT ![m] = r]
    BY <1>2 DEF StopJob
  <2> HIDE DEF r
  <2>2. QED
    BY <1>1, <1>2, <2>1, TakesUndisturbed DEF TypeOK, DatabaseOK
<1>3. CASE ~Takes(m, w)
  BY <1>3 DEF StopJob, Undisturbed
<1>4. QED
  BY <1>2, <1>3

LEMMA DeferKeeps ==
  ASSUME TypeOK, NEW m \in Messages, NEW w, DeferJob(m, w)
  PROVE  /\ \A n \in Messages \ {m} : job'[n] = job[n]
         /\ job'[m].made = job[m].made
         /\ job'[m].state = "ABSENT" => job[m].state = "ABSENT"
         /\ \A v \in Workers \ {w} : Undisturbed(v, m)
<1> DEFINE r == Released(m, "READY")
           d == [r EXCEPT !.notBefore = Larger(@, now + DeferDelay)]
<1>1. r \in JobRecord
  BY ReleasedType, JobTypes DEF Claims
<1>2. r.made = job[m].made /\ r.state = "READY"
  BY JobTypes DEF Released, JobRecord
<1>3. d.made = job[m].made /\ d.state = "READY"
  <2> HIDE DEF r
  <2>1. QED
    BY <1>1, <1>2 DEF JobRecord
<1>4. CASE Takes(m, w)
  <2>1. job' = [job EXCEPT ![m] = d]
    BY <1>4 DEF DeferJob
  <2> HIDE DEF d
  <2>2. QED
    BY <1>3, <1>4, <2>1, TakesUndisturbed DEF TypeOK, DatabaseOK
<1>5. CASE ~Takes(m, w)
  BY <1>5 DEF DeferJob, Undisturbed
<1>6. QED
  BY <1>4, <1>5
-----------------------------------------------------------------------------
(* The actions that only move a pass.                                      *)

LEMMA BeginInv == ASSUME IInv, NEW w \in Workers, Begin(w) PROVE IInv'
<1> USE DEF IInv
<1>1. TypeOK'
  BY BeginType
<1>2. now \in Nat /\ pass'[w].deadline = now + Budget /\ pc'[w] = "begun"
  BY NowType, PassTypes DEF Begin, TypeOK, ProcessOK, PassRecord
<1>3. Quiet(w)
  BY <1>2, DurationTypes DEF Quiet, Begin
<1>4. \A v \in Workers \ {w} : pc'[v] = pc[v] /\ pass'[v] = pass[v]
  BY DEF Begin, TypeOK, ProcessOK
<1>5. QED
  BY <1>1, <1>3, <1>4, MoveStep DEF Begin, database, provider

LEMMA CloseEpochInv == ASSUME IInv, NEW w \in Workers, CloseEpoch(w) PROVE IInv'
<1>1. TypeOK'
  BY CloseEpochType DEF IInv
<1>2. \A v \in Workers : pc'[v] = pc[v] /\ pass'[v] = pass[v]
  BY DEF CloseEpoch, process
<1>3. Quiet(w)
  BY <1>2, LeftAlone DEF CloseEpoch, Undisturbed
<1>4. QED
  BY <1>1, <1>2, <1>3, MoveStep DEF CloseEpoch, provider

LEMMA EndPassInv == ASSUME IInv, NEW w \in Workers, EndPass(w) PROVE IInv'
<1>1. TypeOK'
  BY EndPassType DEF IInv
<1>2. QED
  BY <1>1, FinishMoves, MoveStep DEF IInv, EndPass, database, provider

LEMMA ResolveInv == ASSUME IInv, NEW w \in Workers, Resolve(w) PROVE IInv'
<1>1. TypeOK'
  BY ResolveType DEF IInv
<1>2. \/ Step(w, "opening") /\ Advance(pc[w], "opening")
      \/ Step(w, "withdrawing") /\ Advance(pc[w], "withdrawing")
  BY DEF Resolve, Advance
<1>3. job' = job /\ now' = now /\ attempt' = attempt /\ sent' = sent
  BY DEF Resolve, database, provider
<1>4. Quiet(w) /\ \A v \in Workers \ {w} : pc'[v] = pc[v] /\ pass'[v] = pass[v]
  BY <1>2, <1>3, StepMoves DEF IInv, Stages
<1>5. QED
  BY <1>1, <1>3, <1>4, MoveStep

LEMMA RecheckInv == ASSUME IInv, NEW w \in Workers, Recheck(w) PROVE IInv'
<1>1. TypeOK'
  BY RecheckType DEF IInv
<1>2. \/ Step(w, "vetoing") /\ Advance(pc[w], "vetoing")
      \/ Step(w, "withdrawing") /\ Advance(pc[w], "withdrawing")
  BY DEF Recheck, Advance
<1>3. job' = job /\ now' = now /\ attempt' = attempt /\ sent' = sent
  BY DEF Recheck, database, provider
<1>4. Quiet(w) /\ \A v \in Workers \ {w} : pc'[v] = pc[v] /\ pass'[v] = pass[v]
  BY <1>2, <1>3, StepMoves DEF IInv, Stages
<1>5. QED
  BY <1>1, <1>3, <1>4, MoveStep

LEMMA MaySendInv == ASSUME IInv, NEW w \in Workers, MaySend(w) PROVE IInv'
<1>1. TypeOK'
  BY MaySendType DEF IInv
<1>2. \/ Step(w, "cleared") /\ Advance(pc[w], "cleared")
      \/ Step(w, "withdrawing") /\ Advance(pc[w], "withdrawing")
  BY DEF MaySend, Advance
<1>3. job' = job /\ now' = now /\ attempt' = attempt /\ sent' = sent
  BY DEF MaySend, database, provider
<1>4. Quiet(w) /\ \A v \in Workers \ {w} : pc'[v] = pc[v] /\ pass'[v] = pass[v]
  BY <1>2, <1>3, StepMoves DEF IInv, Stages
<1>5. QED
  BY <1>1, <1>3, <1>4, MoveStep

LEMMA AnswerInv ==
  ASSUME IInv, NEW w \in Workers, NEW reply \in Replies, Answer(w, reply)
  PROVE  IInv'
<1> USE DEF IInv
<1>1. TypeOK'
  BY AnswerType
<1>2. job' = job /\ now' = now /\ attempt' = attempt /\ sent' = sent
  BY DEF Answer, database, provider
<1>3. /\ pass'[w].msg = pass[w].msg /\ pass'[w].made = pass[w].made
      /\ pass'[w].deadline = pass[w].deadline /\ pc'[w] = "answered"
  BY PassTypes DEF Answer, TypeOK, ProcessOK, PassRecord
<1>4. Quiet(w)
  BY <1>2, <1>3 DEF Quiet, Advance, Answer
<1>5. \A v \in Workers \ {w} : pc'[v] = pc[v] /\ pass'[v] = pass[v]
  BY DEF Answer, TypeOK, ProcessOK
<1>6. QED
  BY <1>1, <1>2, <1>4, <1>5, MoveStep
-----------------------------------------------------------------------------
(* The actions that change a job.                                          *)

\* A claim is taken from nobody, and outlives the pass that takes it.
LEMMA TakeInv ==
  ASSUME IInv, TypeOK', NEW w \in Workers, NEW m \in Messages, NEW mode,
         NEW starts, NEW expires, Take(w, m, mode, starts, expires), Claimable(m),
         pc[w] = "begun", now' = now, sent' = sent, attempt' = attempt
  PROVE  IInv'
<1> USE DEF IInv
<1> DEFINE c == Claimed(m, w)
<1>1. /\ job[m] \in JobRecord /\ job[m].until \in Nat /\ now \in Nat
      /\ pass[w].deadline \in Nat /\ now + Lease \in Nat
  BY JobTypes, PassTypes, DurationTypes
<1>2. /\ c.state = "CLAIMED" /\ c.by = w /\ c.until = now + Lease
      /\ c.made = job[m].made
  BY <1>1 DEF Claimed, JobRecord
<1>3. job' = [job EXCEPT ![m] = c]
  BY DEF Take
<1> HIDE DEF c
<1>4. job'[m] = c /\ \A n \in Messages \ {m} : job'[n] = job[n]
  BY <1>3 DEF TypeOK, DatabaseOK
<1>5. /\ pc'[w] = "claimed" /\ pass'[w].msg = m /\ pass'[w].made = job[m].made
      /\ pass'[w].deadline = pass[w].deadline
  BY PassTypes DEF Take, TypeOK, ProcessOK, PassRecord
<1>6. \A v \in Workers \ {w} : pc'[v] = pc[v] /\ pass'[v] = pass[v]
  BY DEF Take, TypeOK, ProcessOK
<1>7. pass[w].deadline <= now + Budget
  BY DEF PassInv
<1>8. Quiet(w)
  <2>1. Held(w)'
    BY <1>1, <1>2, <1>4, <1>5, <1>7, DurationTypes DEF Held, Spent
  <2>2. QED
    BY <1>5, <1>7, <2>1 DEF Quiet
<1>9. \A v \in Workers : Undisturbed(v, m)
  BY <1>1 DEF Undisturbed, Claimable, Unclaimed, Claims
<1>10. QED
  BY <1>2, <1>4, <1>6, <1>8, <1>9, JobStep

LEMMA ClaimRegularInv == ASSUME IInv, NEW w \in Workers, ClaimRegular(w) PROVE IInv'
<1> USE DEF IInv
<1> DEFINE c == cfg[w]
           e == EpochFor(c)
           S == Candidates(c, e)
<1>1. TypeOK'
  BY ClaimRegularType
<1>2. pc[w] = "begun" /\ now' = now /\ sent' = sent /\ attempt' = attempt
  BY DEF ClaimRegular, provider
<1>3. None \notin Workers
  BY NoneAssumption
<1>4. CASE Finish(w) /\ UNCHANGED <<job, envelope, minted>>
  BY <1>1, <1>2, <1>4, FinishMoves, MoveStep
<1>5. CASE \E m \in Heads(S) : AdmitHead(w, m, e)
  <2>1. PICK m \in Heads(S) : AdmitHead(w, m, e)
    BY <1>5
  <2>2. m \in Messages
    BY DEF Heads, Candidates
  <2>3. CASE StopJob(m, None) /\ Finish(w)
    <3>1. Quiet(w) /\ \A v \in Workers \ {w} : pc'[v] = pc[v] /\ pass'[v] = pass[v]
      BY <2>3, FinishMoves
    <3>2. QED
      BY <1>1, <1>2, <1>3, <2>2, <2>3, <3>1, StopKeeps, JobStep
  <2>4. CASE DeferJob(m, None) /\ Finish(w)
    <3>1. Quiet(w) /\ \A v \in Workers \ {w} : pc'[v] = pc[v] /\ pass'[v] = pass[v]
      BY <2>4, FinishMoves
    <3>2. QED
      BY <1>1, <1>2, <1>3, <2>2, <2>4, <3>1, DeferKeeps, JobStep
  <2>5. CASE Claimable(m) /\ Take(w, m, "regular", now, now + Hour)
    BY <1>1, <1>2, <2>2, <2>5, TakeInv
  <2>6. QED
    BY <2>1, <2>3, <2>4, <2>5 DEF AdmitHead
<1>6. QED
  BY <1>4, <1>5 DEF ClaimRegular

\* A row released in state s keeps its count of reservations.
LEMMA ReleasedKeeps ==
  ASSUME NEW m \in Messages, NEW s, job[m] \in JobRecord
  PROVE  Released(m, s).made = job[m].made /\ Released(m, s).state = s
BY DEF Released, JobRecord

LEMMA ClaimControlledInv ==
  ASSUME IInv, NEW w \in Workers, ClaimControlled(w)
  PROVE  IInv'
<1> USE DEF IInv
<1> DEFINE c == cfg[w]
<1>1. TypeOK'
  BY ClaimControlledType
<1>2. pc[w] = "begun" /\ now' = now /\ sent' = sent /\ attempt' = attempt
  BY DEF ClaimControlled, provider
<1>3. ASSUME NEW m \in Messages, Claimable(m), Take(w, m, "controlled", c.starts, c.ends)
      PROVE  IInv'
  BY <1>1, <1>2, <1>3, TakeInv
<1>4. ASSUME NEW m \in Messages, Unclaimed(m),
             job' = [job EXCEPT ![m] = Released(m, "EXHAUSTED")], Finish(w)
      PROVE  IInv'
  <2>1. Quiet(w) /\ \A v \in Workers \ {w} : pc'[v] = pc[v] /\ pass'[v] = pass[v]
    BY <1>4, FinishMoves
  <2>2. job'[m] = Released(m, "EXHAUSTED") /\ \A n \in Messages \ {m} : job'[n] = job[n]
    BY <1>4 DEF TypeOK, DatabaseOK
  <2>3. job'[m].made = job[m].made /\ job'[m].state = "EXHAUSTED"
    BY <2>2, ReleasedKeeps, JobTypes
  <2>4. \A v \in Workers : Undisturbed(v, m)
    BY <1>4, JobTypes, NowType DEF Undisturbed, Unclaimed, Claims, TypeOK
  <2>5. QED
    BY <1>1, <1>2, <2>1, <2>2, <2>3, <2>4, JobStep
<1>5. Heads(Fresh(c)) \subseteq Messages /\ Bound(c) \subseteq Messages
  BY DEF Heads, Fresh, Bound
<1>6. QED
  BY <1>3, <1>4, <1>5 DEF ClaimControlled

\* A reservation gets a number nobody has had, under a claim that is w's own.
LEMMA ReserveInv ==
  ASSUME IInv, TypeOK', NEW w \in Workers, pc[w] = "opening", Live(w),
         Reservable(w), Reserve(w), now' = now, sent' = sent
  PROVE  IInv'
<1> USE DEF IInv
<1> DEFINE m == pass[w].msg
           k == Number(w)
<1>1. m \in Messages
  BY DEF PassInv, Holding, Stages
<1>2. /\ now \in Nat /\ pass[w].deadline \in Nat /\ pass[w].made \in Nat /\ k \in Nat
      /\ job[m] \in JobRecord /\ job[m].made \in Nat /\ k \in 1..MaxAttempts
      /\ pass[w] \in PassRecord
  BY <1>1, JobTypes, PassTypes, ReserveType
<1>3. /\ job[m].state = "CLAIMED" /\ job[m].by = w
      /\ job[m].made = pass[w].made /\ k = job[m].made + 1
  BY DEF Reservable, HoldsFor, Mine, Number
<1>4. job[m].until > pass[w].deadline
  <2>1. Held(w) /\ now < pass[w].deadline
    BY DEF ClaimInv, Holding, Stages, Live
  <2>2. QED
    BY <1>2, <1>3, <2>1 DEF Held
<1>5. /\ job'[m].made = k /\ job'[m].state = "CLAIMED" /\ job'[m].by = w
      /\ job'[m].until = job[m].until
      /\ \A n \in Messages \ {m} : job'[n] = job[n]
  <2> DEFINE j == Reserved(m, k)
  <2>1. /\ j.made = k /\ j.state = "CLAIMED" /\ j.by = w /\ j.until = job[m].until
    BY <1>2, <1>3 DEF Reserved, JobRecord
  <2>2. job' = [job EXCEPT ![m] = j]
    BY DEF Reserve
  <2> HIDE DEF j
  <2>3. QED
    BY <1>1, <2>1, <2>2 DEF TypeOK, DatabaseOK
<1>6. /\ pc'[w] = "opened" /\ pass'[w].msg = m /\ pass'[w].made = pass[w].made
      /\ pass'[w].deadline = pass[w].deadline /\ Number(w)' = k
  <2>1. pass'[w] = [pass[w] EXCEPT !.key = envelope[m].key, !.body = envelope'[m].body]
    BY DEF Reserve, TypeOK, ProcessOK
  <2>2. QED
    BY <1>2, <2>1 DEF Reserve, TypeOK, ProcessOK, PassRecord, Number
<1>7. \A v \in Workers \ {w} : pc'[v] = pc[v] /\ pass'[v] = pass[v]
  BY DEF Reserve, TypeOK, ProcessOK
<1>8. \A n \in Messages : job'[n].made \in Nat /\ job'[n].made >= job[n].made
  BY <1>2, <1>3, <1>5, JobTypes
<1>9. PassInv'
  BY <1>1, <1>2, <1>6, <1>7, DurationTypes DEF PassInv, Sending
<1>10. ClaimInv'
  <2>1. SUFFICES ASSUME NEW v \in Workers, pc'[v] \in Holding
        PROVE  Held(v)'
    BY DEF ClaimInv
  <2>2. CASE v = w
    BY <1>3, <1>4, <1>5, <1>6, <2>2 DEF Held
  <2>3. CASE v # w
    <3>1. pass[v].msg \in Messages /\ Held(v)
      BY <1>7, <2>1, <2>3 DEF PassInv, ClaimInv
    <3>2. Undisturbed(v, pass[v].msg)
      BY <1>3, <1>5, <2>3, <3>1 DEF Undisturbed
    <3>3. QED
      BY <1>2, <1>7, <2>3, <3>1, <3>2, HeldKept DEF TypeOK, DatabaseOK
  <2>4. QED
    BY <2>2, <2>3
<1>11. SpentInv'
  <2>1. \A v \in Workers \ {w} : pc[v] \in Spent =>
          /\ pass[v].msg \in Messages /\ Number(v) \in Nat
          /\ Number(v) <= job[pass[v].msg].made
          /\ Number(v)' = Number(v)
    BY <1>7, PassTypes DEF SpentInv, PassInv, Spent, Holding, Stages, Number
  <2>2. \A r \in sent : r.msg \in Messages /\ r.no \in Nat /\ r.no <= job[r.msg].made
    BY DEF RowsInv, TypeOK, ProviderOK, RequestRecord
  <2>3. SUFFICES ASSUME NEW v \in Workers, pc'[v] \in Spent
        PROVE  /\ Number(v)' <= job'[pass'[v].msg].made
               /\ \A u \in Workers \ {v} :
                    pc'[u] \in Spent /\ pass'[u].msg = pass'[v].msg => Number(u)' # Number(v)'
               /\ pc'[v] \in Unsent =>
                    \A r \in sent' : r.msg = pass'[v].msg => r.no # Number(v)'
    BY DEF SpentInv
  <2>4. CASE v = w
    <3>1. \A u \in Workers \ {w} :
            pc'[u] \in Spent /\ pass'[u].msg = m => Number(u)' # k
      BY <1>2, <1>3, <1>7, <2>1
    <3>2. \A r \in sent : r.msg = m => r.no # k
      BY <1>2, <1>3, <2>2
    <3>3. QED
      BY <1>2, <1>5, <1>6, <2>4, <3>1, <3>2
  <2>5. CASE v # w
    <3>1. pc[v] \in Spent /\ pass'[v] = pass[v] /\ pc'[v] = pc[v]
      BY <1>7, <2>3, <2>5
    <3>2. Number(v)' <= job'[pass'[v].msg].made
      BY <1>8, <2>1, <2>5, <3>1, JobTypes
    <3>3. ASSUME NEW u \in Workers \ {v}, pc'[u] \in Spent, pass'[u].msg = pass'[v].msg
          PROVE  Number(u)' # Number(v)'
      <4>1. CASE u = w
        BY <1>2, <1>3, <1>6, <2>1, <2>5, <3>1, <3>3, <4>1
      <4>2. CASE u # w
        BY <1>7, <2>1, <2>5, <3>1, <3>3, <4>2 DEF SpentInv
      <4>3. QED
        BY <4>1, <4>2
    <3>4. pc'[v] \in Unsent => \A r \in sent' : r.msg = pass'[v].msg => r.no # Number(v)'
      BY <2>1, <2>5, <3>1 DEF SpentInv
    <3>5. QED
      BY <3>2, <3>3, <3>4
  <2>6. QED
    BY <2>4, <2>5
<1>12. RowsInv'
  <2>1. attempt'[m][k].at > 0
        /\ \A n \in 1..MaxAttempts : n # k => attempt'[m][n] = attempt[m][n]
    BY <1>1, <1>2, NowType DEF Reserve, TypeOK, DatabaseOK
  <2>2. \A l \in Messages \ {m} : attempt'[l] = attempt[l]
    BY <1>1 DEF Reserve, TypeOK, DatabaseOK
  <2>3. ASSUME NEW l \in Messages, NEW n \in 1..MaxAttempts
        PROVE  attempt'[l][n].at > 0 <=> n <= job'[l].made
    <3>1. CASE l # m
      BY <1>5, <2>2, <3>1 DEF RowsInv
    <3>2. CASE l = m /\ n = k
      BY <1>2, <1>5, <2>1, <3>2
    <3>3. CASE l = m /\ n # k
      <4>1. attempt[m][n].at > 0 <=> n <= job[m].made
        BY <1>1 DEF RowsInv
      <4>2. QED
        BY <1>2, <1>3, <1>5, <2>1, <3>3, <4>1
    <3>4. QED
      BY <3>1, <3>2, <3>3
  <2>4. \A l \in Messages : job'[l].state = "ABSENT" => job'[l].made = 0
    BY <1>5 DEF RowsInv
  <2>5. \A r \in sent' : r.no <= job'[r.msg].made
    BY <1>8, JobTypes DEF RowsInv, TypeOK, ProviderOK, RequestRecord
  <2>6. QED
    BY <2>3, <2>4, <2>5 DEF RowsInv
<1>13. QED
  BY <1>9, <1>10, <1>11, <1>12

LEMMA OpenInv == ASSUME IInv, NEW w \in Workers, Open(w) PROVE IInv'
<1> USE DEF IInv
<1> DEFINE m == pass[w].msg
<1>1. m \in Messages
  BY DEF Open, PassInv, Holding, Stages
<1>2. TypeOK'
  BY <1>1, OpenType
<1>3. pc[w] = "opening" /\ Live(w) /\ now' = now /\ sent' = sent
  BY DEF Open, provider
<1>4. CASE StopJob(m, w) /\ Finish(w) /\ UNCHANGED <<envelope, attempt>>
  <2>1. Quiet(w) /\ \A v \in Workers \ {w} : pc'[v] = pc[v] /\ pass'[v] = pass[v]
    BY <1>4, FinishMoves
  <2>2. QED
    BY <1>1, <1>2, <1>3, <1>4, <2>1, StopKeeps, JobStep
<1>5. CASE DeferJob(m, w) /\ Finish(w) /\ UNCHANGED <<envelope, attempt>>
  <2>1. Quiet(w) /\ \A v \in Workers \ {w} : pc'[v] = pc[v] /\ pass'[v] = pass[v]
    BY <1>5, FinishMoves
  <2>2. QED
    BY <1>1, <1>2, <1>3, <1>5, <2>1, DeferKeeps, JobStep
<1>6. CASE Step(w, "withdrawing") /\ UNCHANGED <<job, envelope, attempt>>
  <2>1. Advance(pc[w], "withdrawing") /\ "withdrawing" \in Stages
    BY <1>3 DEF Advance, Stages
  <2>2. Quiet(w) /\ \A v \in Workers \ {w} : pc'[v] = pc[v] /\ pass'[v] = pass[v]
    BY <1>3, <1>6, <2>1, StepMoves
  <2>3. QED
    BY <1>2, <1>3, <1>6, <2>2, MoveStep
<1>7. CASE Reservable(w) /\ Reserve(w)
  BY <1>2, <1>3, <1>7, ReserveInv
<1>8. QED
  BY <1>4, <1>5, <1>6, <1>7 DEF Open

\* The request that leaves carries a reservation that no other pass holds, and
\* returns before the deadline of its pass.
LEMMA SendInv == ASSUME IInv, NEW w \in Workers, Send(w) PROVE IInv'
<1> USE DEF IInv
<1> DEFINE m == pass[w].msg
<1>1. pc[w] = "cleared" /\ m \in Messages /\ job' = job /\ attempt' = attempt /\ now' = now
  BY DEF Send, PassInv, Holding, Stages, database
<1>2. TypeOK'
  BY <1>1, SendType
<1>3. CASE Step(w, "withdrawing") /\ UNCHANGED <<wire, sent>>
  <2>1. Quiet(w) /\ \A v \in Workers \ {w} : pc'[v] = pc[v] /\ pass'[v] = pass[v]
    BY <1>1, <1>3, StepMoves DEF Advance, Stages
  <2>2. QED
    BY <1>1, <1>2, <1>3, <2>1, MoveStep
<1>4. CASE /\ now + SendBudget <= pass[w].deadline
           /\ pc' = [pc EXCEPT ![w] = "sending"]
           /\ pass' = [pass EXCEPT ![w].until = now + Timeout]
           /\ sent' = sent \cup {Request(w)}
  <2>1. /\ pc'[w] = "sending" /\ pass'[w].until = now + Timeout
        /\ pass'[w].msg = m /\ pass'[w].made = pass[w].made
        /\ pass'[w].deadline = pass[w].deadline
    BY <1>4, PassTypes DEF TypeOK, ProcessOK, PassRecord
  <2>2. \A v \in Workers \ {w} : pc'[v] = pc[v] /\ pass'[v] = pass[v]
    BY <1>4 DEF TypeOK, ProcessOK
  <2>3. \A v \in Workers : pass'[v].msg = pass[v].msg /\ Number(v)' = Number(v)
    BY <2>1, <2>2 DEF Number
  <2>4. now \in Nat /\ pass[w].deadline \in Nat
    BY PassTypes
  <2>5. PassInv'
    BY <1>1, <1>4, <2>1, <2>2, <2>4, DurationTypes DEF PassInv, Sending, Holding, Stages
  <2>6. ClaimInv'
    <3>1. Held(w)
      BY <1>1 DEF ClaimInv, Holding, Stages
    <3>2. Held(w)'
      BY <1>1, <2>1, <3>1 DEF Held, Number, Spent
    <3>3. \A v \in Workers \ {w} : pc[v] \in Holding => Held(v)'
      BY <1>1, <2>2 DEF ClaimInv, Held, Number
    <3>4. QED
      BY <2>2, <3>2, <3>3 DEF ClaimInv
  <2>7. SpentInv'
    <3>1. \A v \in Workers : pc'[v] \in Spent =>
            pc[v] \in Spent /\ (pc'[v] \in Unsent => pc[v] \in Unsent /\ v # w)
      BY <1>1, <2>1, <2>2 DEF Spent, Unsent
    <3>2. ASSUME NEW v \in Workers, pc'[v] \in Unsent, NEW r \in sent', r.msg = pass[v].msg
          PROVE  r.no # Number(v)
      <4>1. pc[v] \in Unsent /\ pc[v] \in Spent /\ v # w /\ pc[w] \in Spent
        BY <1>1, <3>1, <3>2 DEF Spent, Unsent
      <4>2. CASE r \in sent
        BY <3>2, <4>1, <4>2 DEF SpentInv
      <4>3. CASE r = Request(w)
        <5>1. r.msg = m /\ r.no = Number(w)
          BY <4>3 DEF Request
        <5>2. QED
          BY <3>2, <4>1, <5>1 DEF SpentInv
      <4>4. QED
        BY <1>4, <4>2, <4>3
    <3>3. QED
      BY <1>1, <2>3, <3>1, <3>2 DEF SpentInv
  <2>8. RowsInv'
    <3>1. Request(w).msg = m /\ Request(w).no = Number(w)
      BY DEF Request
    <3>2. Number(w) <= job[m].made
      BY <1>1 DEF SpentInv, Spent
    <3>3. \A r \in sent' : r.no <= job'[r.msg].made
      BY <1>1, <1>4, <3>1, <3>2 DEF RowsInv
    <3>4. QED
      BY <1>1, <3>3 DEF RowsInv
  <2>9. QED
    BY <1>2, <2>5, <2>6, <2>7, <2>8
<1>5. QED
  BY <1>3, <1>4 DEF Send

LEMMA WithdrawInv == ASSUME IInv, NEW w \in Workers, Withdraw(w) PROVE IInv'
<1> USE DEF IInv
<1> DEFINE m == pass[w].msg
           r == Released(m, "WITHDRAWN")
<1>1. m \in Messages /\ job[m] \in JobRecord
  BY JobTypes DEF Withdraw, PassInv, Holding, Stages
<1>2. TypeOK'
  BY <1>1, WithdrawType
<1>3. /\ job[m].state = "CLAIMED" /\ job[m].by = w /\ now' = now /\ sent' = sent
      /\ Finish(w)
  BY DEF Withdraw, HoldsFor, Mine, provider
<1>4. r.made = job[m].made /\ r.state = "WITHDRAWN"
  BY <1>1, ReleasedKeeps
<1>5. job'[m] = r /\ \A n \in Messages \ {m} : job'[n] = job[n]
  BY <1>1 DEF Withdraw, TypeOK, DatabaseOK
<1>6. \A k \in Messages : \A n \in 1..MaxAttempts : attempt'[k][n].at = attempt[k][n].at
  <2>1. \A n \in 1..MaxAttempts : MarkNotSent(m, Number(w))[n].at = attempt[m][n].at
    <3>1. attempt[m] \in [1..MaxAttempts -> AttemptRecord]
      BY <1>1 DEF TypeOK, DatabaseOK
    <3>2. \A a \in AttemptRecord : [a EXCEPT !.kind = "NOT_SENT"].at = a.at
      BY DEF AttemptRecord
    <3>3. QED
      BY <3>1, <3>2 DEF MarkNotSent
  <2>2. attempt' = [attempt EXCEPT ![m] = MarkNotSent(m, Number(w))]
    BY DEF Withdraw
  <2>3. QED
    BY <1>1, <2>1, <2>2 DEF TypeOK, DatabaseOK
<1>7. \A v \in Workers \ {w} : Undisturbed(v, m)
  BY <1>3 DEF Undisturbed
<1>8. Quiet(w) /\ \A v \in Workers \ {w} : pc'[v] = pc[v] /\ pass'[v] = pass[v]
  BY <1>3, FinishMoves
<1> HIDE DEF r
<1>9. QED
  BY <1>1, <1>2, <1>3, <1>4, <1>5, <1>6, <1>7, <1>8, JobStep

\* Whatever came back, the job keeps its count and does not vanish.
LEMMA AfterAttemptKeeps ==
  ASSUME TypeOK, NEW w \in Workers, NEW m \in Messages, NEW reply, NEW delay \in Nat
  PROVE  /\ AfterAttempt(w, m, reply, delay).made = job[m].made
         /\ AfterAttempt(w, m, reply, delay).state # "ABSENT"
<1> DEFINE next == Larger(now + Backoff(Number(w)), now + delay)
<1>1. \A s \in {"SENT", "GAVE_UP", "EXHAUSTED", "READY"} :
        Released(m, s).made = job[m].made /\ Released(m, s).state = s
  BY ReleasedKeeps, JobTypes
<1>2. Released(m, "READY") \in JobRecord
  BY ReleasedType, JobTypes DEF Claims
<1> HIDE DEF next
<1>3. /\ [Released(m, "READY") EXCEPT !.notBefore = next].made = job[m].made
      /\ [Released(m, "READY") EXCEPT !.notBefore = next].state = "READY"
  BY <1>1, <1>2 DEF JobRecord
<1>4. QED
  BY <1>1, <1>3 DEF AfterAttempt, next

LEMMA SettleInv == ASSUME IInv, NEW w \in Workers, Settle(w) PROVE IInv'
<1> USE DEF IInv
<1> DEFINE m == pass[w].msg
<1>1. m \in Messages /\ job[m] \in JobRecord
  BY JobTypes DEF Settle, PassInv, Holding, Stages
<1>2. TypeOK'
  BY <1>1, SettleType
<1>3. /\ job[m].state = "CLAIMED" /\ job[m].by = w /\ now' = now /\ sent' = sent
      /\ Finish(w)
  BY DEF Settle, HoldsFor, Mine, provider
<1>4. /\ job'[m].made = job[m].made /\ job'[m].state # "ABSENT"
      /\ \A n \in Messages \ {m} : job'[n] = job[n]
  <2>1. PICK d \in IF pass[w].reply = "RETRYABLE" THEN RetryDelays ELSE {0} :
          job' = [job EXCEPT ![m] = AfterAttempt(w, m, pass[w].reply, Smaller(d, Hour))]
    BY DEF Settle
  <2>2. d \in Nat
    BY DurationTypes
  <2>3. Smaller(d, Hour) \in Nat
    BY <2>2, DurationTypes DEF Smaller
  <2>4. QED
    BY <1>1, <2>1, <2>3, AfterAttemptKeeps DEF TypeOK, DatabaseOK
<1>5. \A k \in Messages : \A n \in 1..MaxAttempts : attempt'[k][n].at = attempt[k][n].at
  <2> DEFINE i == Number(w)
             a == [attempt[m][i] EXCEPT !.kind = AttemptKind(pass[w].reply)]
  <2>1. attempt' = [attempt EXCEPT ![m] = [attempt[m] EXCEPT ![i] = a]]
    BY DEF Settle, TypeOK, DatabaseOK
  <2>2. attempt[m] \in [1..MaxAttempts -> AttemptRecord]
    BY <1>1 DEF TypeOK, DatabaseOK
  <2>3. i \in 1..MaxAttempts => a.at = attempt[m][i].at
    BY <2>2 DEF AttemptRecord
  <2> HIDE DEF a, i
  <2>4. QED
    BY <1>1, <2>1, <2>2, <2>3 DEF TypeOK, DatabaseOK
<1>6. \A v \in Workers \ {w} : Undisturbed(v, m)
  BY <1>3 DEF Undisturbed
<1>7. Quiet(w) /\ \A v \in Workers \ {w} : pc'[v] = pc[v] /\ pass'[v] = pass[v]
  BY <1>3, FinishMoves
<1>8. QED
  BY <1>1, <1>2, <1>3, <1>4, <1>5, <1>6, <1>7, JobStep
-----------------------------------------------------------------------------
(* The environment and the clock.                                          *)

\* A step that touches no pass, no attempt and no request.
LEMMA OutsideStep ==
  ASSUME IInv, TypeOK', UNCHANGED <<now, pc, pass, attempt, sent>>,
         \A m \in Messages :
           /\ job'[m].made = job[m].made
           /\ job'[m].state = "ABSENT" => job[m].state = "ABSENT"
           /\ \A v \in Workers : Undisturbed(v, m)
  PROVE  IInv'
<1>1. \A v \in Workers : Quiet(v)
  BY LeftAlone DEF IInv, PassInv
<1>2. now' >= now
  BY NowType DEF IInv, TypeOK
<1>3. QED
  BY <1>1, <1>2, QuietStep

LEMMA EnqueueInv == ASSUME IInv, NEW m \in Messages, Enqueue(m) PROVE IInv'
<1>1. TypeOK'
  BY EnqueueType DEF IInv
<1>2. job[m].state = "ABSENT" /\ job[m].made = 0
  BY DEF Enqueue, IInv, RowsInv
<1>3. job'[m] = NewJob /\ \A n \in Messages \ {m} : job'[n] = job[n]
  BY DEF Enqueue, IInv, TypeOK, DatabaseOK
<1>4. \A n \in Messages :
        /\ job'[n].made = job[n].made
        /\ job'[n].state = "ABSENT" => job[n].state = "ABSENT"
        /\ \A v \in Workers : Undisturbed(v, n)
  BY <1>2, <1>3 DEF NewJob, Undisturbed
<1>5. QED
  BY <1>1, <1>4, OutsideStep DEF Enqueue, process, provider

LEMMA CancelInv == ASSUME IInv, NEW b \in Nat, Cancel(b) PROVE IInv'
<1>1. TypeOK'
  BY CancelType DEF IInv
<1>2. \A n \in Messages : job'[n] = job[n] \/ job'[n] = Released(n, "CANCELLED")
  BY DEF Cancel
<1>3. \A n \in Messages :
        Released(n, "CANCELLED").made = job[n].made
        /\ Released(n, "CANCELLED").state = "CANCELLED"
  BY ReleasedKeeps, JobTypes DEF IInv
<1>4. \A n \in Messages :
        /\ job'[n].made = job[n].made
        /\ job'[n].state = "ABSENT" => job[n].state = "ABSENT"
        /\ \A v \in Workers : Undisturbed(v, n)
  BY <1>2, <1>3 DEF Undisturbed
<1>5. QED
  BY <1>1, <1>4, OutsideStep DEF Cancel, process, provider

\* The steps of the world that touch no job at all.
LEMMA WorldInv ==
  ASSUME IInv, TypeOK', UNCHANGED <<now, job, attempt, pc, pass, sent>>
  PROVE  IInv'
<1>1. \A m \in Messages :
        /\ job'[m].made = job[m].made
        /\ job'[m].state = "ABSENT" => job[m].state = "ABSENT"
        /\ \A v \in Workers : Undisturbed(v, m)
  BY DEF Undisturbed
<1>2. QED
  BY <1>1, OutsideStep

LEMMA TickInv == ASSUME IInv, Tick PROVE IInv'
<1>1. TypeOK'
  BY TickType DEF IInv
<1>2. /\ job' = job /\ attempt' = attempt /\ pc' = pc /\ pass' = pass /\ sent' = sent
      /\ now' = now + 1 /\ now \in Nat
  BY NowType DEF Tick, database, process, provider, IInv, TypeOK
<1>3. \A v \in Workers : Sending(v) => now' <= pass[v].until
  <2>1. SUFFICES ASSUME NEW v \in Workers, Sending(v) PROVE now' <= pass[v].until
    OBVIOUS
  <2>2. now < pass[v].until /\ pass[v].until \in Nat
    BY <2>1, PassTypes DEF Tick, Sending, IInv
  <2>3. QED
    BY <1>2, <2>2
<1>4. \A v \in Workers : Quiet(v)
  BY <1>2, <1>3 DEF Quiet, Undisturbed
<1>5. QED
  BY <1>1, <1>2, <1>4, QuietStep
-----------------------------------------------------------------------------
(* The theorems.                                                           *)

LEMMA InitInv == Init => IInv
<1> SUFFICES ASSUME Init PROVE IInv
  OBVIOUS
<1>1. TypeOK
  <2>1. now \in Times /\ now \in Nat /\ 0 \in 0..MaxAttempts
    BY LimitAssumption DEF Init, Times
  <2>2. NoJob \in JobRecord
    BY <2>1 DEF NoJob, JobRecord
  <2>3. NoEnvelope \in EnvelopeRecord
    BY DEF NoEnvelope, EnvelopeRecord, Modes
  <2>4. NoEpoch \in EpochRecord /\ NoAttempt \in AttemptRecord
    BY DEF NoEpoch, EpochRecord, NoAttempt, AttemptRecord
  <2>5. NoPass \in PassRecord
    BY <2>1 DEF NoPass, PassRecord
  <2>6. DatabaseOK
    BY <2>2, <2>3, <2>4 DEF Init, DatabaseOK
  <2>7. ProcessOK
    BY <2>5 DEF Init, ProcessOK, Stages
  <2>8. ConsentOK /\ ProviderOK /\ ReportOK
    BY <2>1 DEF Init, ConsentOK, ProviderOK, ReportOK
  <2>9. QED
    BY <2>1, <2>6, <2>7, <2>8 DEF Init, TypeOK
<1>2. \A w \in Workers : pc[w] = "idle"
  BY DEF Init
<1>3. PassInv /\ ClaimInv /\ SpentInv
  BY <1>2 DEF PassInv, ClaimInv, SpentInv, Sending, Holding, Spent
<1>4. RowsInv
  BY DurationTypes DEF Init, RowsInv, NoJob, NoAttempt
<1>5. QED
  BY <1>1, <1>3, <1>4 DEF IInv

LEMMA NextInv == IInv /\ [Next]_vars => IInv'
<1> SUFFICES ASSUME IInv, [Next]_vars PROVE IInv'
  OBVIOUS
<1>1. CASE Tick
  BY <1>1, TickInv
<1>2. ASSUME NEW w \in Workers, Pass(w) PROVE IInv'
  BY <1>2, BeginInv, CloseEpochInv, ClaimRegularInv, ClaimControlledInv, ResolveInv,
     OpenInv, RecheckInv, MaySendInv, SendInv, AnswerInv, WithdrawInv, SettleInv,
     EndPassInv DEF Pass
<1>3. CASE Environment
  <2>1. ASSUME NEW r \in wire, Provider(r) PROVE IInv'
    BY <2>1, ProviderType, WorldInv DEF Provider, IInv, database, process
  <2>2. ASSUME NEW k \in accepted, RecordEvent(k) PROVE IInv'
    BY <2>2, RecordEventType, WorldInv DEF RecordEvent, IInv, process, provider
  <2>3. ASSUME NEW m \in Messages, Enqueue(m) PROVE IInv'
    BY <2>3, EnqueueInv
  <2>4. ASSUME NEW m \in Messages, ChangeStanding(m) PROVE IInv'
    BY <2>4, ChangeStandingType, WorldInv
       DEF ChangeStanding, IInv, database, process, provider
  <2>5. ASSUME NEW b \in Times, Cancel(b + 1) PROVE IInv'
    <3>1. b + 1 \in Nat
      BY LimitAssumption DEF Times
    <3>2. QED
      BY <2>5, <3>1, CancelInv
  <2>6. ASSUME NEW w \in Workers, NEW c \in Configs, Reconfigure(w, c) PROVE IInv'
    BY <2>6, ReconfigureType, WorldInv DEF Reconfigure, IInv, database, provider
  <2>7. ASSUME NEW b \in BOOLEAN, SavePreferences(b) PROVE IInv'
    BY <2>7, SavePreferencesType, WorldInv
       DEF SavePreferences, IInv, database, process, provider
  <2>8. ASSUME NEW a \in Addresses \cup {None}, ChangeOwner(a) PROVE IInv'
    BY <2>8, ChangeOwnerType, WorldInv
       DEF ChangeOwner, IInv, database, process, provider
  <2>9. QED
    BY <1>3, <2>1, <2>2, <2>3, <2>4, <2>5, <2>6, <2>7, <2>8 DEF Environment
<1>4. CASE UNCHANGED vars
  <2>1. UNCHANGED <<now, database, process, consent, provider, report, changes>>
    BY <1>4 DEF vars
  <2>2. TypeOK'
    BY <2>1, Frames DEF IInv, TypeOK
  <2>3. QED
    BY <2>1, <2>2, WorldInv DEF database, process, provider
<1>5. QED
  BY <1>1, <1>2, <1>3, <1>4 DEF Next

LEMMA Invariance == Spec => []IInv
BY InitInv, NextInv, PTL DEF Spec

\* Rows, passes and requests always have their shape, whatever the interleaving.
THEOREM TypeCorrect == Spec => []TypeOK
<1>1. IInv => TypeOK
  BY DEF IInv
<1>2. QED
  BY <1>1, Invariance, PTL

\* A provider call in progress is covered to its end by its caller's own live
\* claim and last reservation, or the operator cancelled the job under it: for
\* every number of processes and messages, and every choice of durations in
\* which the abort timer fits the send budget and the pass fits the lease.
THEOREM HandoffsHeld == Spec => []HandoffHeld
<1>1. IInv => HandoffHeld
  <2>1. SUFFICES ASSUME IInv, NEW w \in Workers, Sending(w)
        PROVE  LET j == job[pass[w].msg]
               IN \/ j.state = "CANCELLED"
                  \/ /\ j.state = "CLAIMED" /\ j.by = w /\ j.made = Number(w)
                     /\ now <= pass[w].until /\ pass[w].until < j.until
    BY DEF HandoffHeld
  <2>2. /\ now <= pass[w].until /\ pass[w].until <= pass[w].deadline
        /\ pass[w].msg \in Messages /\ Held(w)
    BY <2>1 DEF IInv, PassInv, ClaimInv, Sending, Holding, Stages
  <2>3. /\ now \in Nat /\ pass[w].until \in Nat /\ pass[w].deadline \in Nat
        /\ job[pass[w].msg].until \in Nat
    BY <2>1, <2>2, PassTypes, JobTypes DEF IInv
  <2>4. QED
    BY <2>1, <2>2, <2>3 DEF Held, Sending, Spent
<1>2. QED
  BY <1>1, Invariance, PTL

\* Reservations are spent before HTTP: rows and attempts_made agree, and every
\* request ever handed to the network has a reservation of its own number.
THEOREM ReservationsFirst == Spec => []ReservedFirst
<1>1. IInv => ReservedFirst
  <2>1. SUFFICES ASSUME IInv
        PROVE  /\ \A m \in Messages :
                    {n \in 1..MaxAttempts : attempt[m][n].at > 0} = 1..job[m].made
               /\ \A r \in sent : r.no <= job[r.msg].made
    BY DEF ReservedFirst
  <2>2. ASSUME NEW m \in Messages
        PROVE  {n \in 1..MaxAttempts : attempt[m][n].at > 0} = 1..job[m].made
    <3>1. job[m].made \in 0..MaxAttempts /\ MaxAttempts \in Nat
      BY <2>1, JobTypes, DurationTypes DEF IInv
    <3>2. \A n \in 1..MaxAttempts : attempt[m][n].at > 0 <=> n <= job[m].made
      BY <2>1 DEF IInv, RowsInv
    <3>3. QED
      BY <3>1, <3>2
  <2>3. QED
    BY <2>1, <2>2 DEF IInv, RowsInv
<1>2. QED
  BY <1>1, Invariance, PTL

\* A reservation covers one HTTP request: when a pass calls the provider, no
\* request under the same reservation has been handed to the network before.
THEOREM NoReservationTwice == Spec => NoSecondHandoff
<1> DEFINE Once ==
      \A w \in Workers : pc[w] = "cleared" /\ pc'[w] = "sending" =>
        \A r \in sent : r.msg = pass[w].msg => r.no # Number(w)
<1>1. IInv /\ [Next]_vars => [Once]_vars
  BY DEF IInv, SpentInv, Spent, Unsent
<1>2. QED
  BY <1>1, Invariance, PTL DEF Spec, NoSecondHandoff
=============================================================================
