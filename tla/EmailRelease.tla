---------------------------- MODULE EmailRelease ----------------------------
(***************************************************************************)
(* The live e-mail delivery path of the alert engine: the scheduler pass   *)
(* runEmailRelease, the transactions of EmailReleaseStore, the regular     *)
(* epochs and controlled activations that admit jobs, the operator's stop  *)
(* (scripts/alerting-cancel.mts) and the reconciliation of provider events.*)
(*                                                                         *)
(* One organisation.  Any number of back-end processes (Workers) run       *)
(* passes that overlap freely; each database transaction is one action,    *)
(* because it holds the organisation's advisory lock or the job's row lock *)
(* to its end.  A process may stop between any two of them (EndPass).      *)
(* Times are instants of one clock that starts at 1; 0 stands for NULL.    *)
(***************************************************************************)
EXTENDS Integers, FiniteSets

CONSTANTS
  Workers,       \* back-end processes that run a scheduler pass
  Messages,      \* message ids: the rows of alert_send_jobs
  Activations,   \* activation ids: regular epochs and controlled activations
  Addresses,     \* e-mail addresses
  Bodies,        \* renderings of a message's content
  Configs,       \* the environment settings a process may be started with
  None           \* an absent worker, message, address or body

CONSTANTS        \* durations of the code, in clock ticks
  Budget,        \* 25 s: a pass lives at most this long
  OpenBudget,    \* 15 s: least remaining budget to reserve an attempt
  SendBudget,    \* 8 s: least remaining budget to call the provider
  Timeout,       \* 5 s: the provider call is aborted after this long
  Lease,         \* 30 s: a claim's life
  OpenMargin,    \* 7 s: a claim must outlive the reservation by more than this
  SendMargin,    \* 6 s: claim and envelope must outlive the veto by more
  ExpirySlack,   \* 15 s: a regular envelope this close to expiry is stopped
  Hour,          \* the rolling window of the limits and an envelope's life
  DeferDelay,    \* 1 min: a rate-limited job waits at least this long
  BackoffBase,   \* 30 s
  BackoffCap,    \* 15 min
  RetryDelays    \* the provider's Retry-After values

CONSTANTS        \* limits of the code
  MaxAttempts,   \* 3 reservations a message
  NewLimit,      \* 6 new envelopes an hour
  AttemptLimit   \* 12 reservations an hour

CONSTANTS        \* bounds of the model
  MaxTime,       \* the clock stops here
  Kinds,         \* the kinds of change of ChangeKinds that an instance considers
  MaxChanges,    \* how many of them happen
  MaxBounces,    \* mails that bounce or are complained about
  LastEnqueue    \* intake enqueues no job later than this

Modes == {"disabled", "controlled", "regular"}
Times == 1..MaxTime

\* emailReleaseConfiguration: what a pass uses of the process environment.
ConfigRecord ==
  [mode : Modes, act : Activations, rcpt : Addresses, starts : Nat, ends : Nat]

ASSUME ConfigAssumption == Configs \subseteq ConfigRecord /\ Configs # {}

\* The relations between the code's durations that the safety of a handoff
\* rests on (25 s, 8 s, 5 s against a lease of 30 s).
ASSUME DurationAssumption ==
  /\ {Budget, OpenBudget, SendBudget, Timeout, Lease, OpenMargin, SendMargin,
      ExpirySlack, Hour, DeferDelay, BackoffBase, BackoffCap} \subseteq Nat
  /\ RetryDelays \subseteq Nat
  /\ 0 < Timeout /\ Timeout <= SendBudget
  /\ 0 < Budget /\ Budget < Lease

ASSUME LimitAssumption ==
  /\ {MaxAttempts, NewLimit, AttemptLimit, MaxTime, MaxChanges, MaxBounces,
      LastEnqueue} \subseteq Nat
  /\ MaxAttempts > 0 /\ MaxTime > 0

ASSUME NoneAssumption ==
  None \notin Workers \cup Messages \cup Activations \cup Addresses \cup Bodies

VARIABLES
  now,         \* the clock
  job,         \* alert_send_jobs
  envelope,    \* alert_email_envelopes
  epoch,       \* alert_email_regular_epochs
  attempt,     \* alert_send_attempts
  suppressed,  \* alert_suppressed_addresses
  events,      \* alert_email_events: provider ids with a bounce or complaint
  minted,      \* idempotency keys drawn so far; key k is the k-th
  pc,          \* per worker: the await at which its pass stands
  pass,        \* per worker: the local variables of its pass
  cfg,         \* per worker: the settings its process was started with
  owner,       \* the designated owner's confirmed address, None if not eligible
  optedIn,     \* the owner's e-mail, security and digest preferences consent
  savedAt,     \* when preferences or the alert's policy were last saved
  standing,    \* messages whose incident still needs attention and is visible
  wire,        \* requests on their way to the provider
  accepted,    \* keys the provider has taken a mail for
  sent,        \* history: every request handed to the network
  lastOff,     \* history: the last instant at which optedIn was false
  report,      \* history: what the operator's stop said of a message
  changes      \* environment changes so far, at most MaxChanges

database == <<job, envelope, epoch, attempt, suppressed, events, minted>>
process  == <<pc, pass, cfg>>
consent  == <<owner, optedIn, savedAt, standing, lastOff>>
provider == <<wire, accepted, sent>>
vars == <<now, database, process, consent, provider, report, changes>>

-----------------------------------------------------------------------------
(* Rows and small helpers.                                                 *)

Terminal == {"SENT", "EXHAUSTED", "GAVE_UP", "CANCELLED", "WITHDRAWN"}
Claims   == {"READY", "CLAIMED"}

NoJob == [state |-> "ABSENT", made |-> 0, notBefore |-> 0,
          by |-> None, until |-> 0, created |-> 0]
NoEnvelope == [key |-> 0, mode |-> "disabled", act |-> None, rcpt |-> None,
               starts |-> 0, created |-> 0, expires |-> 0, body |-> None, pid |-> 0]
NoEpoch   == [cutoff |-> 0, declared |-> 0, rcpt |-> None, closed |-> 0]
NoAttempt == [at |-> 0, kind |-> "NONE"]
NoPass    == [deadline |-> 0, msg |-> None, made |-> 0, key |-> 0,
              body |-> None, until |-> 0, reply |-> "NONE"]

HasEnvelope(m) == envelope[m].key > 0
Known(a)       == epoch[a].cutoff > 0
\* Defect: the closing of an epoch is not looked at.
OpenEpoch_EverOpen(a) == Known(a)
OpenEpoch(a)   == Known(a) /\ epoch[a].closed = 0
Larger(a, b)   == IF a >= b THEN a ELSE b
Smaller(a, b)  == IF a <= b THEN a ELSE b

\* A claim no worker may take over, and one that anybody may.
Leased(m)   == job[m].state = "CLAIMED" /\ job[m].until > now
\* Defect: a worker takes over a claim that has not run out.
Unclaimed_LeaseIgnored(m) == job[m].state \in Claims
Unclaimed(m) == job[m].state \in Claims /\ job[m].until <= now

\* backoffMs
Backoff(n) == Smaller(BackoffCap, BackoffBase * 2^n)

\* The job as it is left when its claim is given back in state s.
Released(m, s) == [job[m] EXCEPT !.state = s, !.by = None, !.until = 0]

\* claimStatement: the one conditional UPDATE that takes a job, and its guard.
Claimable(m) ==
  Unclaimed(m) /\ job[m].made < MaxAttempts /\ job[m].notBefore <= now
\* Defect: the lease lasts no longer than the budget of the pass.
Claimed_ShortLease(m, w) ==
  [job[m] EXCEPT !.state = "CLAIMED", !.by = w, !.until = now + Budget]
Claimed(m, w) ==
  [job[m] EXCEPT !.state = "CLAIMED", !.by = w, !.until = now + Lease]

Runnable(c) ==
  /\ c.mode # "disabled" /\ now >= c.starts
  /\ c.mode = "controlled" => now < c.ends

\* The owner is eligible and the address is the one the settings designate.
Reachable(c) == optedIn /\ owner = c.rcpt

Live(w)   == now < pass[w].deadline          \* budget.remaining() does not throw
Mine(w)   == LET j == job[pass[w].msg] IN j.state = "CLAIMED" /\ j.by = w
Number(w) == pass[w].made + 1                \* the attempt this pass reserves

Finish(w) ==
  /\ pc' = [pc EXCEPT ![w] = "idle"]
  /\ pass' = [pass EXCEPT ![w] = NoPass]
  /\ UNCHANGED cfg
Step(w, to) == pc' = [pc EXCEPT ![w] = to] /\ UNCHANGED <<pass, cfg>>
-----------------------------------------------------------------------------
(* Admission: EmailReleaseStore.claim.                                     *)

Matches(e, c) == e.rcpt = c.rcpt /\ e.declared = c.starts

\* The organisation's latest epochs; of a tie LIMIT 1 takes either, and the
\* unique index on open epochs refuses the insertion if it took the closed one.
Latest == {a \in Activations :
             Known(a) /\ \A b \in Activations : epoch[b].cutoff <= epoch[a].cutoff}

\* Defect: an epoch is registered beside the organisation's latest one.
EpochConflict_LatestIgnored(c) ==
  \E m \in Messages :
    /\ HasEnvelope(m)
    /\ \/ envelope[m].act = c.act
       \/ envelope[m].mode = "controlled" /\ envelope[m].expires > now
\* Defect: an epoch is registered inside a controlled window.
EpochConflict_WindowIgnored(c) ==
  \/ \E m \in Messages : HasEnvelope(m) /\ envelope[m].act = c.act
  \/ \E a \in Latest : OpenEpoch(a) \/ c.starts < epoch[a].closed
EpochConflict(c) ==
  \/ \E m \in Messages : HasEnvelope(m) /\ envelope[m].act = c.act
  \/ \E m \in Messages : /\ HasEnvelope(m) /\ envelope[m].mode = "controlled"
                         /\ envelope[m].expires > now
  \/ \E a \in Latest : OpenEpoch(a) \/ c.starts < epoch[a].closed

\* epochFor: the open epoch of these settings, registered on first use;
\* NoEpoch when it is closed or conflicts.
EpochFor(c) ==
  IF Known(c.act)
  THEN IF Matches(epoch[c.act], c) /\ OpenEpoch(c.act) THEN epoch[c.act] ELSE NoEpoch
  ELSE IF EpochConflict(c) THEN NoEpoch
       ELSE [cutoff |-> Larger(c.starts, now), declared |-> c.starts,
             rcpt |-> c.rcpt, closed |-> 0]

\* The eligible-since boundary and evidenceEligible.
\* Defect: only the epoch's cutoff bounds what is eligible.
Boundary_CutoffOnly(e) == e.cutoff
Boundary(e) == Larger(e.cutoff, savedAt)
Evidence(m, e, fresh) ==
  /\ m \in standing /\ optedIn
  /\ job[m].created >= Boundary(e)
  /\ fresh => job[m].created + Hour >= now

\* The one job a regular pass looks at: a message of this epoch first, else the
\* oldest job that was never attempted and was created after the cutoff.
Candidates(c, e) ==
  {m \in Messages :
     /\ Unclaimed(m) /\ job[m].notBefore <= now
     /\ \/ HasEnvelope(m) /\ envelope[m].mode = "regular" /\ envelope[m].act = c.act
        \/ ~HasEnvelope(m) /\ job[m].made = 0 /\ job[m].created >= e.cutoff}
Before(m, n) ==
  \/ HasEnvelope(m) /\ ~HasEnvelope(n)
  \/ HasEnvelope(m) = HasEnvelope(n) /\ job[m].created <= job[n].created
Heads(S) == {m \in S : \A n \in S : Before(m, n)}

RecentEnvelopes ==
  {m \in Messages : HasEnvelope(m) /\ envelope[m].created + Hour >= now}
RecentAttempts ==
  {x \in Messages \X (1..MaxAttempts) :
     attempt[x[1]][x[2]].at > 0 /\ attempt[x[1]][x[2]].at + Hour >= now}

\* stopJob and deferJob touch a job only if its claim has run out or is w's.
Takes(m, w) == job[m].state \in Claims /\ (job[m].until <= now \/ job[m].by = w)
StopJob(m, w) ==
  job' = IF Takes(m, w) THEN [job EXCEPT ![m] = Released(m, "WITHDRAWN")] ELSE job
DeferJob(m, w) ==
  job' = IF Takes(m, w)
         THEN [job EXCEPT ![m] = [Released(m, "READY") EXCEPT
                                    !.notBefore = Larger(@, now + DeferDelay)]]
         ELSE job

\* The claim is taken, with a fresh envelope when the message has none, and the
\* pass keeps the job as it read it.
Take(w, m, mode, starts, expires) ==
  /\ job' = [job EXCEPT ![m] = Claimed(m, w)]
  /\ IF HasEnvelope(m) THEN UNCHANGED <<envelope, minted>>
     ELSE /\ minted' = minted + 1
          /\ envelope' = [envelope EXCEPT ![m] =
               [key |-> minted + 1, mode |-> mode, act |-> cfg[w].act,
                rcpt |-> cfg[w].rcpt, starts |-> starts, created |-> now,
                expires |-> expires, body |-> None, pid |-> 0]]
  /\ pc' = [pc EXCEPT ![w] = "claimed"]
  /\ pass' = [pass EXCEPT ![w].msg = m, ![w].made = job[m].made]
  /\ UNCHANGED cfg

\* claimRegularEmail after epochFor: which of its outcomes the head job meets.
\* Defect: the advisory lock of the admission is taken for enough.
LeaseHeld_Forgotten == FALSE
LeaseHeld == \E m \in Messages : Leased(m)
\* Defect: only the attempts end a regular message, not its expiry.
RetryExpired_AttemptsOnly(m) == job[m].made >= MaxAttempts
RetryExpired(m) ==
  \/ job[m].made >= MaxAttempts
  \/ HasEnvelope(m) /\ envelope[m].expires <= now + ExpirySlack
\* Defect: the limit on new envelopes is not applied.
NewLimited_Never(m) == FALSE
NewLimited(m) == ~HasEnvelope(m) /\ Cardinality(RecentEnvelopes) >= NewLimit

AdmitHead(w, m, e) ==
  \/ /\ RetryExpired(m) \/ ~Evidence(m, e, ~HasEnvelope(m))
     /\ StopJob(m, None) /\ Finish(w) /\ UNCHANGED <<envelope, minted>>
  \/ /\ ~RetryExpired(m) /\ Evidence(m, e, ~HasEnvelope(m)) /\ NewLimited(m)
     /\ DeferJob(m, None) /\ Finish(w) /\ UNCHANGED <<envelope, minted>>
  \/ /\ ~RetryExpired(m) /\ Evidence(m, e, ~HasEnvelope(m)) /\ ~NewLimited(m)
     /\ Claimable(m)
     /\ Take(w, m, "regular", now, now + Hour)

ClaimRegular(w) ==
  LET c == cfg[w]
      e == EpochFor(c)
      S == Candidates(c, e)
  IN /\ pc[w] = "begun" /\ Live(w) /\ c.mode = "regular"
     /\ e # NoEpoch
     /\ epoch' = [epoch EXCEPT ![c.act] = e]
     /\ \/ /\ LeaseHeld \/ ~Reachable(c) \/ S = {}
           /\ Finish(w) /\ UNCHANGED <<job, envelope, minted>>
        \/ /\ ~LeaseHeld /\ Reachable(c)
           /\ \E m \in Heads(S) : AdmitHead(w, m, e)
     /\ UNCHANGED <<now, attempt, suppressed, events, consent, provider, report, changes>>

\* The controlled branch of claim: one message per activation, never beside an
\* open epoch, never while another activation's window overlaps.
Bound(c) == {m \in Messages : HasEnvelope(m) /\ envelope[m].act = c.act}
Fresh(c) ==
  {m \in Messages :
     /\ Unclaimed(m) /\ job[m].made = 0 /\ job[m].notBefore <= now
     /\ c.starts <= job[m].created /\ job[m].created < c.ends
     /\ ~HasEnvelope(m)}
SameActivation(v, c) == v.rcpt = c.rcpt /\ v.starts = c.starts /\ v.expires = c.ends

ClaimControlled(w) ==
  LET c == cfg[w]
  IN /\ pc[w] = "begun" /\ Live(w) /\ c.mode = "controlled"
     /\ ~Known(c.act) /\ \A a \in Activations : ~OpenEpoch(a)
     /\ \/ /\ Bound(c) = {}
           /\ \A m \in Messages : HasEnvelope(m) => envelope[m].expires <= c.starts
           /\ \E m \in Heads(Fresh(c)) :
                Claimable(m) /\ Take(w, m, "controlled", c.starts, c.ends)
        \/ \E m \in Bound(c) :
             /\ SameActivation(envelope[m], c)
             /\ job[m].state \in Claims
             /\ \/ /\ Claimable(m)
                   /\ Take(w, m, "controlled", c.starts, c.ends)
                \/ /\ job[m].made >= MaxAttempts /\ Unclaimed(m)
                   /\ job' = [job EXCEPT ![m] = Released(m, "EXHAUSTED")]
                   /\ Finish(w) /\ UNCHANGED <<envelope, minted>>
     /\ UNCHANGED <<now, epoch, attempt, suppressed, events, consent, provider,
                    report, changes>>
-----------------------------------------------------------------------------
(* The pass: runEmailRelease.                                              *)

\* A scheduler invocation starts a pass: its settings and deadline are fixed.
Begin(w) ==
  /\ pc[w] = "idle" /\ Runnable(cfg[w])
  /\ pc' = [pc EXCEPT ![w] = "begun"]
  /\ pass' = [pass EXCEPT ![w].deadline = now + Budget]
  /\ UNCHANGED <<now, database, cfg, consent, provider, report, changes>>

\* A pass that finds the mode off closes the epoch named by the retained ids.
CloseEpoch(w) ==
  LET a == cfg[w].act
  IN /\ pc[w] = "idle" /\ cfg[w].mode = "disabled"
     /\ OpenEpoch(a)
     /\ epoch' = [epoch EXCEPT ![a].closed = now]
     /\ UNCHANGED <<now, job, envelope, attempt, suppressed, events, minted,
                    process, consent, provider, report, changes>>

\* The pass ends without touching the database: an early return (NO_BUDGET,
\* NO_WORK, a refused epoch), an exception anywhere (FAILED_SAFE), a lost claim,
\* or the death of the process.
EndPass(w) ==
  /\ pc[w] # "idle"
  /\ Finish(w)
  /\ UNCHANGED <<now, database, consent, provider, report, changes>>

\* source.resolve and isSuppressed after the claim.
Resolve(w) ==
  LET m == pass[w].msg
  IN /\ pc[w] = "claimed" /\ Live(w)
     /\ IF m \in standing /\ Reachable(cfg[w]) /\ cfg[w].rcpt \notin suppressed
        THEN now + OpenBudget <= pass[w].deadline /\ Step(w, "opening")
        ELSE Step(w, "withdrawing")
     /\ UNCHANGED <<now, database, consent, provider, report, changes>>

\* open: the regular gate, then the reservation of one attempt, spent before
\* any request exists.
HoldsFor(w, margin) == Mine(w) /\ job[pass[w].msg].until > now + margin

GateStops(w) ==
  LET m == pass[w].msg
      c == cfg[w]
  IN \/ ~OpenEpoch(c.act) \/ ~Matches(epoch[c.act], c)
     \/ /\ HoldsFor(w, OpenMargin)
        /\ envelope[m].mode = "regular" /\ envelope[m].act = c.act
        /\ \/ envelope[m].expires <= now + ExpirySlack
           \/ ~Evidence(m, epoch[c.act], FALSE)
AttemptLimited == Cardinality(RecentAttempts) >= AttemptLimit

Reservable(w) ==
  LET m == pass[w].msg
  IN /\ HoldsFor(w, OpenMargin)
     /\ job[m].made = pass[w].made /\ job[m].made < MaxAttempts
     /\ cfg[w].mode = "regular" => envelope[m].mode = "regular" /\ envelope[m].act = cfg[w].act
     /\ attempt[m][Number(w)] = NoAttempt

\* Defect: every reservation renders the message anew.
Frozen_RenderedAgain(m, b) == b
\* Defect: the reservation is not counted before the call.
Reserved_NotCounted(m, n) == [job[m] EXCEPT !.notBefore = now + Backoff(n)]
Frozen(m, b) == IF envelope[m].body = None THEN b ELSE envelope[m].body
Reserved(m, n) == [job[m] EXCEPT !.made = @ + 1, !.notBefore = now + Backoff(n)]

Reserve(w) ==
  LET m == pass[w].msg
  IN /\ HasEnvelope(m) /\ envelope[m].expires > now
     /\ \E b \in Bodies :
          envelope' = [envelope EXCEPT ![m].body = Frozen(m, b)]
     /\ attempt' = [attempt EXCEPT ![m][Number(w)] = [at |-> now, kind |-> "OPEN"]]
     /\ job' = [job EXCEPT ![m] = Reserved(m, Number(w))]
     /\ pass' = [pass EXCEPT ![w].key = envelope[m].key, ![w].body = envelope'[m].body]
     /\ pc' = [pc EXCEPT ![w] = "opened"]
     /\ UNCHANGED cfg

Open(w) ==
  LET m == pass[w].msg
      regular == cfg[w].mode = "regular"
  IN /\ pc[w] = "opening" /\ Live(w)
     /\ \/ /\ regular /\ GateStops(w)
           /\ StopJob(m, w) /\ Finish(w) /\ UNCHANGED <<envelope, attempt>>
        \/ /\ regular /\ ~GateStops(w) /\ HoldsFor(w, OpenMargin) /\ AttemptLimited
           /\ DeferJob(m, w) /\ Finish(w) /\ UNCHANGED <<envelope, attempt>>
        \/ /\ regular => ~GateStops(w) /\ ~AttemptLimited
           /\ Reservable(w)
           /\ IF cfg[w].rcpt \in suppressed
              THEN Step(w, "withdrawing") /\ UNCHANGED <<job, envelope, attempt>>
              ELSE Reserve(w)
     /\ UNCHANGED <<now, epoch, suppressed, events, minted, consent, provider,
                    report, changes>>

\* The second source.resolve, after the reservation, and the settings again.
Recheck(w) ==
  /\ pc[w] = "opened" /\ Live(w)
  /\ IF pass[w].msg \in standing /\ Reachable(cfg[w]) /\ Runnable(cfg[w])
     THEN now + SendBudget <= pass[w].deadline /\ Step(w, "vetoing")
     ELSE Step(w, "withdrawing")
  /\ UNCHANGED <<now, database, consent, provider, report, changes>>

\* maySend: the last read before the provider.
FinalGate(w) ==
  LET m == pass[w].msg
      v == envelope[m]
  IN /\ HoldsFor(w, SendMargin) /\ job[m].made = Number(w)
     /\ v.expires > now + SendMargin
     /\ v.rcpt = cfg[w].rcpt /\ v.key = pass[w].key
     /\ Reachable(cfg[w]) /\ m \in standing
     /\ cfg[w].rcpt \notin suppressed
     /\ v.mode = cfg[w].mode
     /\ v.mode = "regular" =>
          /\ OpenEpoch(v.act) /\ epoch[v.act].rcpt = v.rcpt
          /\ job[m].created >= Boundary(epoch[v.act])

MaySend(w) ==
  /\ pc[w] = "vetoing" /\ Live(w)
  /\ Step(w, IF FinalGate(w) THEN "cleared" ELSE "withdrawing")
  /\ UNCHANGED <<now, database, consent, provider, report, changes>>

Request(w) == [msg |-> pass[w].msg, no |-> Number(w), key |-> pass[w].key,
               body |-> pass[w].body, to |-> cfg[w].rcpt]

\* The settings and the budget once more, then the provider call starts.
Send(w) ==
  /\ pc[w] = "cleared" /\ Live(w)
  /\ IF Runnable(cfg[w])
     THEN /\ now + SendBudget <= pass[w].deadline
          /\ pc' = [pc EXCEPT ![w] = "sending"]
          /\ pass' = [pass EXCEPT ![w].until = now + Timeout]
          /\ UNCHANGED cfg
          /\ wire' = wire \cup {Request(w)}
          /\ sent' = sent \cup {Request(w)}
     ELSE Step(w, "withdrawing") /\ UNCHANGED <<wire, sent>>
  /\ UNCHANGED <<now, database, accepted, consent, report, changes>>

\* sendResendEmail returns: UNKNOWN at any moment (a network error, a 5xx, the
\* abort at the timeout), another answer once the provider has seen the request.
\* Defect: the HTTP client repeats a call that was told to come back later.
Answer_Repeated(w, reply) ==
  /\ pc[w] = "sending"
  /\ reply # "UNKNOWN" => Request(w) \notin wire
  /\ reply = "ACCEPTED" => pass[w].key \in accepted
  /\ pc' = [pc EXCEPT ![w] = IF reply = "RETRYABLE" THEN "cleared" ELSE "answered"]
  /\ pass' = [pass EXCEPT ![w].reply = reply]
  /\ UNCHANGED <<now, database, cfg, consent, provider, report, changes>>
Answer(w, reply) ==
  /\ pc[w] = "sending"
  /\ reply # "UNKNOWN" => Request(w) \notin wire
  /\ reply = "ACCEPTED" => pass[w].key \in accepted
  /\ pc' = [pc EXCEPT ![w] = "answered"]
  /\ pass' = [pass EXCEPT ![w].reply = reply]
  /\ UNCHANGED <<now, database, cfg, consent, provider, report, changes>>

\* withdraw: only while the claim is this pass's and alive.
\* Defect: the veto marks the attempt before the one this pass reserved.
MarkNotSent_OffByOne(m, k) ==
  [n \in 1..MaxAttempts |->
     IF n = k - 1 /\ attempt[m][n].kind \in {"OPEN", "UNKNOWN"}
     THEN [attempt[m][n] EXCEPT !.kind = "NOT_SENT"] ELSE attempt[m][n]]
MarkNotSent(m, k) ==
  [n \in 1..MaxAttempts |->
     IF n = k /\ attempt[m][n].kind \in {"OPEN", "UNKNOWN"}
     THEN [attempt[m][n] EXCEPT !.kind = "NOT_SENT"] ELSE attempt[m][n]]
Withdraw(w) ==
  LET m == pass[w].msg
  IN /\ pc[w] = "withdrawing" /\ Live(w) /\ HoldsFor(w, 0)
     /\ job' = [job EXCEPT ![m] = Released(m, "WITHDRAWN")]
     /\ attempt' = [attempt EXCEPT ![m] = MarkNotSent(m, Number(w))]
     /\ Finish(w)
     /\ UNCHANGED <<now, envelope, epoch, suppressed, events, minted, consent,
                    provider, report, changes>>

\* reconcileEmailProvider: a bounce or complaint known for provider id k
\* suppresses the address frozen in the envelope that carries k.
\* Defect: the envelope is looked up before the provider id is bound to it.
Reconciled_TooEarly(k, env, evs) ==
  IF k \in evs THEN suppressed \cup {envelope[m].rcpt : m \in {n \in Messages : envelope[n].pid = k}}
               ELSE suppressed
Reconciled(k, env, evs) ==
  IF k \in evs THEN suppressed \cup {env[m].rcpt : m \in {n \in Messages : env[n].pid = k}}
               ELSE suppressed

\* Defect: an unknown outcome is booked as an acceptance.
AttemptKind_Optimistic(reply) ==
  CASE reply \in {"ACCEPTED", "UNKNOWN"} -> "ACCEPTED"
    [] reply = "PERMANENT" -> "REFUSED_PERMANENT"
    [] OTHER -> "REFUSED_RETRYABLE"
\* Defect: the provider's own word is stored.
AttemptKind_Raw(reply) == reply
AttemptKind(reply) ==
  CASE reply = "ACCEPTED"  -> "ACCEPTED"
    [] reply = "PERMANENT" -> "REFUSED_PERMANENT"
    [] reply = "RETRYABLE" -> "REFUSED_RETRYABLE"
    [] OTHER -> "UNKNOWN"

\* afterAttempt: the job once its attempt has come back.
AfterAttempt(w, m, reply, delay) ==
  IF reply = "ACCEPTED" THEN Released(m, "SENT")
  ELSE IF reply = "PERMANENT" THEN Released(m, "GAVE_UP")
  ELSE IF Number(w) >= MaxAttempts THEN Released(m, "EXHAUSTED")
  ELSE [Released(m, "READY") EXCEPT
          !.notBefore = Larger(now + Backoff(Number(w)), now + delay)]

\* settle: fenced by the claim, the attempt number and the claim's expiry.
Settle(w) ==
  LET m == pass[w].msg
      r == pass[w].reply
  IN /\ pc[w] = "answered" /\ Live(w)
     /\ HoldsFor(w, 0) /\ job[m].made = Number(w)
     /\ attempt[m][Number(w)].kind \in {"OPEN", "UNKNOWN"}
     /\ \E d \in IF r = "RETRYABLE" THEN RetryDelays ELSE {0} :
          job' = [job EXCEPT ![m] = AfterAttempt(w, m, r, Smaller(d, Hour))]
     /\ attempt' = [attempt EXCEPT ![m][Number(w)].kind = AttemptKind(r)]
     /\ IF r = "ACCEPTED"
        THEN /\ envelope' = [envelope EXCEPT ![m].pid = pass[w].key]
             /\ suppressed' = Reconciled(pass[w].key, envelope', events)
        ELSE UNCHANGED <<envelope, suppressed>>
     /\ Finish(w)
     /\ UNCHANGED <<now, epoch, events, minted, consent, provider, report, changes>>
-----------------------------------------------------------------------------
(* The provider, its webhooks, the operator and the world.                 *)

\* The provider takes a request off the network, long after its caller gave up
\* perhaps; it sends one mail per key, or none.
Provider(r) ==
  /\ r \in wire
  /\ wire' = wire \ {r}
  /\ accepted' \in {accepted, accepted \cup {r.key}}
  /\ UNCHANGED <<now, database, process, sent, consent, report, changes>>

\* recordEmailProviderEvent: a bounce or complaint for a mail the provider took,
\* possibly before the pass that sent it has settled, possibly again.
RecordEvent(k) ==
  /\ k \in accepted
  /\ k \notin events => Cardinality(events) < MaxBounces
  /\ events' = events \cup {k}
  /\ suppressed' = Reconciled(k, envelope, events')
  /\ UNCHANGED <<now, job, envelope, epoch, attempt, minted, process, consent,
                 provider, report, changes>>

\* Intake commits a job for a message nobody was told about yet.
NewJob == [state |-> "READY", made |-> 0, notBefore |-> now,
           by |-> None, until |-> 0, created |-> now]
Enqueue(m) ==
  /\ job[m].state = "ABSENT" /\ now <= LastEnqueue
  /\ job' = [job EXCEPT ![m] = NewJob]
  /\ standing' = standing \cup {m}
  /\ UNCHANGED <<now, envelope, epoch, attempt, suppressed, events, minted, process,
                 owner, optedIn, savedAt, lastOff, provider, report, changes>>

ChangeKinds == {"stop", "settings", "preferences", "owner", "incident"}
Change(kind) == kind \in Kinds /\ changes < MaxChanges /\ changes' = changes + 1

\* cancelStatement and classifyCancellation: the operator stops every
\* unfinished job created before a chosen instant.
\* Defect: the stop relabels what is already finished.
Stoppable_Finished(b) ==
  {m \in Messages : job[m].state # "ABSENT" /\ job[m].created < b}
Stoppable(b) ==
  {m \in Messages : job[m].state \in Claims /\ job[m].created < b}
\* Defect: only a live claim counts as a mail that may have gone.
Verdict_ClaimOnly(m) ==
  IF job[m].by # None THEN "MAY_HAVE_REACHED_PROVIDER" ELSE "STOPPED_BEFORE_ANY_ATTEMPT"
Verdict(m) ==
  IF job[m].made > 0 \/ job[m].by # None
  THEN "MAY_HAVE_REACHED_PROVIDER" ELSE "STOPPED_BEFORE_ANY_ATTEMPT"
Cancel(b) ==
  /\ Change("stop")
  /\ Stoppable(b) # {}
  /\ job' = [m \in Messages |->
               IF m \in Stoppable(b) THEN Released(m, "CANCELLED") ELSE job[m]]
  /\ report' = [m \in Messages |-> IF m \in Stoppable(b) THEN Verdict(m) ELSE report[m]]
  /\ UNCHANGED <<now, envelope, epoch, attempt, suppressed, events, minted, process,
                 consent, provider>>

\* A process is restarted with other settings.
Reconfigure(w, c) ==
  /\ Change("settings")
  /\ pc[w] = "idle" /\ cfg[w] # c
  /\ cfg' = [cfg EXCEPT ![w] = c]
  /\ UNCHANGED <<now, database, pc, pass, consent, provider, report>>

\* The owner saves notification preferences (or the alert's policy is saved):
\* any save moves the boundary.
SavePreferences(consents) ==
  /\ Change("preferences")
  /\ optedIn' = consents
  /\ savedAt' = now
  /\ lastOff' = IF optedIn /\ consents THEN lastOff ELSE now
  /\ UNCHANGED <<now, database, process, owner, standing, provider, report>>

\* The owner's confirmed address or membership changes.
ChangeOwner(a) ==
  /\ Change("owner")
  /\ owner # a /\ owner' = a
  /\ UNCHANGED <<now, database, process, optedIn, savedAt, standing, lastOff,
                 provider, report>>

\* An incident is handled, or needs attention again.
ChangeStanding(m) ==
  /\ Change("incident")
  /\ job[m].state # "ABSENT"
  /\ standing' = IF m \in standing THEN standing \ {m} ELSE standing \cup {m}
  /\ UNCHANGED <<now, database, process, owner, optedIn, savedAt, lastOff,
                 provider, report>>

\* Time passes, but not past the abort timer of a provider call.
Tick ==
  /\ now < MaxTime
  /\ \A w \in Workers : pc[w] = "sending" => now < pass[w].until
  /\ now' = now + 1
  /\ lastOff' = IF optedIn THEN lastOff ELSE now + 1
  /\ UNCHANGED <<database, process, owner, optedIn, savedAt, standing, provider,
                 report, changes>>

-----------------------------------------------------------------------------
Replies == {"ACCEPTED", "RETRYABLE", "PERMANENT", "UNKNOWN"}

Init ==
  /\ now = 1
  /\ job = [m \in Messages |-> NoJob]
  /\ envelope = [m \in Messages |-> NoEnvelope]
  /\ epoch = [a \in Activations |-> NoEpoch]
  /\ attempt = [m \in Messages |-> [n \in 1..MaxAttempts |-> NoAttempt]]
  /\ suppressed = {} /\ events = {} /\ minted = 0
  /\ pc = [w \in Workers |-> "idle"]
  /\ pass = [w \in Workers |-> NoPass]
  /\ cfg \in [Workers -> Configs]
  /\ owner \in Addresses /\ optedIn \in BOOLEAN /\ savedAt = 0
  /\ standing = {} /\ lastOff = (IF optedIn THEN 0 ELSE now)
  /\ wire = {} /\ accepted = {} /\ sent = {}
  /\ report = [m \in Messages |-> "NONE"]
  /\ changes = 0

\* One worker's pass.
Pass(w) ==
  \/ Begin(w) \/ CloseEpoch(w) \/ ClaimRegular(w) \/ ClaimControlled(w)
  \/ Resolve(w) \/ Open(w) \/ Recheck(w) \/ MaySend(w) \/ Send(w)
  \/ \E reply \in Replies : Answer(w, reply)
  \/ Withdraw(w) \/ Settle(w) \/ EndPass(w)

Environment ==
  \/ \E r \in wire : Provider(r)
  \/ \E k \in accepted : RecordEvent(k)
  \/ \E m \in Messages : Enqueue(m) \/ ChangeStanding(m)
  \/ \E b \in Times : Cancel(b + 1)
  \/ \E w \in Workers, c \in Configs : Reconfigure(w, c)
  \/ \E b \in BOOLEAN : SavePreferences(b)
  \/ \E a \in Addresses \cup {None} : ChangeOwner(a)

Next == Tick \/ Environment \/ \E w \in Workers : Pass(w)

Spec == Init /\ [][Next]_vars

\* The scheduler keeps calling, a process does not stop for ever, and it does not
\* die at every single claim: what a later pass leaves undone is not assumed.
Fairness ==
  /\ WF_vars(Tick)
  /\ \A w \in Workers : WF_vars(Pass(w)) /\ SF_vars(ClaimRegular(w))

FairSpec == Spec /\ Fairness
-----------------------------------------------------------------------------
(* Properties.                                                             *)

JobRecord == [state : Terminal \cup Claims \cup {"ABSENT"}, made : 0..MaxAttempts,
              notBefore : Int, by : Workers \cup {None}, until : Nat, created : Nat]
EnvelopeRecord ==
  [key : Nat, mode : Modes, act : Activations \cup {None}, rcpt : Addresses \cup {None},
   starts : Nat, created : Nat, expires : Nat, body : Bodies \cup {None}, pid : Nat]
EpochRecord == [cutoff : Nat, declared : Nat, rcpt : Addresses \cup {None}, closed : Nat]
AttemptRecord ==
  [at : Nat, kind : {"NONE", "OPEN", "UNKNOWN", "NOT_SENT", "ACCEPTED",
                     "REFUSED_RETRYABLE", "REFUSED_PERMANENT"}]
PassRecord == [deadline : Nat, msg : Messages \cup {None}, made : 0..MaxAttempts,
               key : Nat, body : Bodies \cup {None}, until : Nat,
               reply : Replies \cup {"NONE"}]
RequestRecord == [msg : Messages, no : Nat, key : Nat, body : Bodies \cup {None},
                  to : Addresses]
Stages == {"idle", "begun", "claimed", "opening", "opened", "vetoing", "cleared",
           "sending", "answered", "withdrawing"}


DatabaseOK ==
  /\ job \in [Messages -> JobRecord]
  /\ envelope \in [Messages -> EnvelopeRecord]
  /\ epoch \in [Activations -> EpochRecord]
  /\ attempt \in [Messages -> [1..MaxAttempts -> AttemptRecord]]
  /\ suppressed \subseteq Addresses \cup {None}
  /\ events \subseteq Nat /\ minted \in Nat
ProcessOK ==
  /\ pc \in [Workers -> Stages]
  /\ pass \in [Workers -> PassRecord]
  /\ cfg \in [Workers -> Configs]
ConsentOK ==
  /\ owner \in Addresses \cup {None} /\ optedIn \in BOOLEAN
  /\ savedAt \in Nat /\ lastOff \in Nat
  /\ standing \subseteq Messages
ProviderOK ==
  /\ wire \subseteq RequestRecord /\ sent \subseteq RequestRecord
  /\ accepted \subseteq Nat
ReportOK ==
  report \in [Messages -> {"NONE", "MAY_HAVE_REACHED_PROVIDER", "STOPPED_BEFORE_ANY_ATTEMPT"}]

\* The shape of the rows, of the passes and of the network: what the columns'
\* types and CHECK constraints and the pass's local variables allow.
TypeOK ==
  /\ now \in Times /\ changes \in Nat
  /\ DatabaseOK /\ ProcessOK /\ ConsentOK /\ ProviderOK /\ ReportOK

Sending(w) == pc[w] = "sending"

\* A provider call in progress is covered, to its end, by its caller's own live
\* claim and last reservation, unless the operator stopped the job under it: the
\* lease (30 s), the pass budget (25 s, 8 s left at the call) and the abort
\* timer (5 s) fit together whatever pauses the process suffers in between.
HandoffHeld ==
  \A w \in Workers : Sending(w) =>
    LET j == job[pass[w].msg]
    IN \/ j.state = "CANCELLED"
       \/ /\ j.state = "CLAIMED" /\ j.by = w /\ j.made = Number(w)
          /\ now <= pass[w].until /\ pass[w].until < j.until

\* Two processes never call the provider for one message at the same time, and
\* in regular mode not for two messages of the organisation either, since
\* REGULAR_LEASE_HELD outlives the admission's advisory lock; only a job that the
\* operator cancelled under a running call no longer holds the lease.
OneHandoff ==
  \A v, w \in Workers : v # w /\ Sending(v) /\ Sending(w) =>
    /\ pass[v].msg # pass[w].msg
    /\ \/ cfg[v].mode = "controlled" \/ cfg[w].mode = "controlled"
       \/ job[pass[v].msg].state = "CANCELLED" \/ job[pass[w].msg].state = "CANCELLED"

\* The budget of three is spent before HTTP: every request ever handed to the
\* network has a reservation row of its own number, rows and attempts_made agree,
\* and there are never more than three, crashes and unknown outcomes included.
ReservedFirst ==
  /\ \A m \in Messages :
       {n \in 1..MaxAttempts : attempt[m][n].at > 0} = 1..job[m].made
  /\ \A r \in sent : r.no <= job[r.msg].made

\* No reservation is handed off twice: a reservation covers one HTTP request.
NoSecondHandoff ==
  [][\A w \in Workers : pc[w] = "cleared" /\ pc'[w] = "sending" =>
       \A r \in sent : r.msg = pass[w].msg => r.no # Number(w)]_vars

\* Whatever is retried, after a crash or an unknown outcome, in any later pass of
\* any process, is the very same mail under the very same idempotency key, and
\* no two messages share a key: the provider can recognise every repetition.
FrozenMail ==
  \A r, s \in sent :
    /\ r.msg = s.msg => r.key = s.key /\ r.body = s.body /\ r.to = s.to
    /\ r.key = s.key => r.msg = s.msg

\* A reservation marked NOT_SENT_LOCAL_VETO never reached the network.
VetoTruthful ==
  \A r \in sent : attempt[r.msg][r.no].kind # "NOT_SENT"

\* SENT, the provider id on the envelope and an ACCEPTED attempt come together,
\* and only for a mail the provider did take.
AcceptedTogether ==
  \A m \in Messages :
    LET won == {n \in 1..MaxAttempts : attempt[m][n].kind = "ACCEPTED"}
    IN IF job[m].state = "SENT"
       THEN /\ envelope[m].pid = envelope[m].key /\ envelope[m].pid \in accepted
            /\ won = {job[m].made}
       ELSE envelope[m].pid = 0 /\ won = {}

\* A live claim is only ever changed by the pass that holds it, or cancelled by
\* the operator: a worker that lost its claim cannot settle, withdraw or defer.
ClaimFence ==
  [][\A m \in Messages : Leased(m) /\ job'[m] # job[m] =>
       job'[m].state = "CANCELLED" \/ pc'[job[m].by] # pc[job[m].by]]_vars

\* A finished job stays as it is: sent, refused, stopped and withdrawn mail is
\* never claimed, deferred, relabelled or resent.
TerminalFinal ==
  [][\A m \in Messages : job[m].state \in Terminal => job'[m] = job[m]]_vars

\* OFF: once an epoch is closed its mail is over within the rest of the passes
\* that were already running, and a new epoch never sends for its messages.
ClosedEpochSilent ==
  \A w \in Workers : Sending(w) /\ cfg[w].mode = "regular" =>
    LET e == epoch[cfg[w].act]
    IN /\ envelope[pass[w].msg].act = cfg[w].act
       /\ Known(cfg[w].act)
       /\ e.closed > 0 => now <= e.closed + Budget - SendBudget + Timeout

\* Admission is prospective: epochs of the organisation do not overlap, and a
\* regular envelope only ever belongs to a job created after its epoch's cutoff,
\* so nothing queued before, or under an earlier epoch, is adopted.
ProspectiveOnly ==
  /\ \A a, b \in Activations : a # b /\ Known(a) /\ Known(b) =>
       \/ epoch[a].closed > 0 /\ epoch[a].closed <= epoch[b].cutoff
       \/ epoch[b].closed > 0 /\ epoch[b].closed <= epoch[a].cutoff
  /\ \A m \in Messages : HasEnvelope(m) /\ envelope[m].mode = "regular" =>
       job[m].created >= epoch[envelope[m].act].cutoff

\* Turning consent off and on again cannot make older queued work eligible: what
\* passes the last check was queued after the last moment of refusal.
ConsentUnbroken ==
  [][\A w \in Workers :
       pc[w] = "vetoing" /\ pc'[w] = "cleared" /\ cfg[w].mode = "regular" =>
         lastOff <= job[pass[w].msg].created]_vars

\* A bounce or complaint suppresses the mail's frozen recipient as soon as the
\* message and its provider id are both known, in whichever order the webhook
\* and the settlement commit.
EventsReconciled ==
  \A m \in Messages : envelope[m].pid > 0 /\ envelope[m].pid \in events =>
    envelope[m].rcpt \in suppressed

\* What the operator was told was stopped before any attempt has not been, and
\* will never be, handed to the provider.
StopTruthful ==
  \A r \in sent : report[r.msg] # "STOPPED_BEFORE_ANY_ATTEMPT"

\* Neither the rows nor the operator's report call unsent what has left.
UnsentTruthful == VetoTruthful /\ StopTruthful

\* The provider's answers and events, in whatever order they commit, leave the
\* job, its envelope, its attempts and the suppressions in agreement.
OutcomesAgree == AcceptedTogether /\ EventsReconciled

\* One message per controlled activation, and its window overlaps no other
\* envelope of the organisation, neither regular nor of another activation.
ControlledAlone ==
  \A m, n \in Messages :
    /\ m # n /\ HasEnvelope(m) /\ HasEnvelope(n) /\ envelope[m].mode = "controlled"
    => /\ envelope[m].act # envelope[n].act
       /\ \/ envelope[m].expires <= envelope[n].starts
          \/ envelope[n].expires <= envelope[m].starts

\* Whatever the order of the settings, epochs, windows and the mail admitted under
\* them do not overlap.
SettingsApart == ProspectiveOnly /\ ControlledAlone

\* The rolling limits of regular mode, over every window of an hour.
RegularLimits ==
  /\ Cardinality({m \in RecentEnvelopes : envelope[m].mode = "regular"}) <= NewLimit
  /\ Cardinality({x \in RecentAttempts : envelope[x[1]].mode = "regular"}) <= AttemptLimit

\* A job queued after the cutoff of an epoch that stays open, for an owner who
\* stays opted in, comes to an end,
\* sent, refused, exhausted or withdrawn, even if every process dies in the middle
\* of every pass that claims it.
Drains ==
  \A m \in Messages, a \in Activations :
    (job[m].state \in Claims /\ optedIn /\ OpenEpoch(a) /\ job[m].created >= epoch[a].cutoff)
      ~> job[m].state \in Terminal
-----------------------------------------------------------------------------
(* The inductive invariant under the safety of the handoff.                *)

Holding == Stages \ {"idle", "begun"}                            \* has claimed
Spent   == {"opened", "vetoing", "cleared", "sending", "answered"}  \* has reserved
Unsent  == {"opened", "vetoing", "cleared"}                      \* has not called

\* A pass holds its claim to its deadline, unless the operator cancelled the job,
\* and knows how many reservations the row counts.
Held(w) ==
  LET j == job[pass[w].msg]
  IN \/ now > pass[w].deadline
     \/ /\ \/ j.state = "CLAIMED" /\ j.by = w /\ j.until > pass[w].deadline
           \/ j.state = "CANCELLED"
        /\ pc[w] \in {"claimed", "opening"} => j.made = pass[w].made
        /\ pc[w] \in Spent => j.made = Number(w)

PassInv ==
  \A w \in Workers :
    /\ pc[w] \in Holding => pass[w].msg \in Messages
    /\ pc[w] # "idle" => pass[w].deadline <= now + Budget
    /\ Sending(w) => pass[w].until <= pass[w].deadline /\ now <= pass[w].until

ClaimInv == \A w \in Workers : pc[w] \in Holding => Held(w)

\* No two passes hold the same reservation, and none that was handed off.
SpentInv ==
  \A w \in Workers : pc[w] \in Spent =>
    /\ Number(w) <= job[pass[w].msg].made
    /\ \A v \in Workers \ {w} :
         pc[v] \in Spent /\ pass[v].msg = pass[w].msg => Number(v) # Number(w)
    /\ pc[w] \in Unsent =>
         \A r \in sent : r.msg = pass[w].msg => r.no # Number(w)

RowsInv ==
  /\ \A m \in Messages : \A n \in 1..MaxAttempts :
       attempt[m][n].at > 0 <=> n <= job[m].made
  /\ \A m \in Messages : job[m].state = "ABSENT" => job[m].made = 0
  /\ \A r \in sent : r.no <= job[r.msg].made

IInv == TypeOK /\ PassInv /\ ClaimInv /\ SpentInv /\ RowsInv

(* What the other properties rest on, besides IInv.                        *)

\* A key belongs to one envelope for ever; what a pass holds after its reservation,
\* and whatever was handed off, is the envelope's mail.
MailInv ==
  /\ \A m \in Messages : HasEnvelope(m) => envelope[m].key <= minted
  /\ \A m, n \in Messages :
       HasEnvelope(m) /\ envelope[m].key = envelope[n].key => m = n
  /\ \A w \in Workers : pc[w] \in Spent =>
       LET v == envelope[pass[w].msg]
       IN /\ v.key > 0 /\ v.body # None
          /\ pass[w].key = v.key /\ pass[w].body = v.body
          /\ pc[w] \notin {"opened", "vetoing"} => cfg[w].rcpt = v.rcpt
  /\ \A r \in sent :
       LET v == envelope[r.msg]
       IN /\ v.key > 0 /\ v.body # None
          /\ r.key = v.key /\ r.body = v.body /\ r.to = v.rcpt

\* A pass that may still veto its reservation, or use it, can say of it truthfully
\* that it was not used, or was not vetoed.
VetoInv ==
  /\ \A w \in Workers : pc[w] = "withdrawing" /\ Live(w) /\ Mine(w) =>
       \A r \in sent : r.msg = pass[w].msg => r.no # Number(w)
  /\ \A w \in Workers : pc[w] \in Unsent /\ Live(w) =>
       attempt[pass[w].msg][Number(w)].kind # "NOT_SENT"
  /\ VetoTruthful

StopInv ==
  /\ \A m \in Messages : report[m] = "STOPPED_BEFORE_ANY_ATTEMPT" =>
       job[m].state = "CANCELLED" /\ job[m].made = 0
  /\ \A r \in sent : r.no > 0

OutcomeInv ==
  /\ \A w \in Workers : pc[w] = "answered" /\ pass[w].reply = "ACCEPTED" =>
       pass[w].key \in accepted
  /\ OutcomesAgree

\* While the owner is opted in, the last refusal lies before the last save.
ConsentInv ==
  /\ optedIn => lastOff <= savedAt
  /\ savedAt <= now

\* Of two regular passes within their deadlines, one lost its job to the operator.
LeaseInv ==
  \A v, w \in Workers :
    /\ v # w /\ pc[v] \in Holding /\ pc[w] \in Holding
    /\ cfg[v].mode = "regular" /\ cfg[w].mode = "regular"
    /\ now <= pass[v].deadline /\ now <= pass[w].deadline
    => job[pass[v].msg].state = "CANCELLED" \/ job[pass[w].msg].state = "CANCELLED"

\* Epochs lie in the past, and the mail of a pass is its activation's.
EpochInv ==
  /\ \A a \in Activations : Known(a) =>
       /\ epoch[a].cutoff <= now
       /\ ~OpenEpoch(a) => epoch[a].cutoff <= epoch[a].closed /\ epoch[a].closed <= now
  /\ \A w \in Workers : pc[w] # "idle" => cfg[w].starts <= now
  /\ \A w \in Workers : pc[w] \in Holding =>
       LET v == envelope[pass[w].msg]
       IN v.key > 0 /\ v.mode = cfg[w].mode /\ v.act = cfg[w].act
  /\ \A m \in Messages : HasEnvelope(m) =>
       /\ job[m].state # "ABSENT" /\ envelope[m].act \in Activations
       /\ \/ envelope[m].mode = "regular" /\ Known(envelope[m].act)
          \/ /\ envelope[m].mode = "controlled" /\ ~Known(envelope[m].act)
             /\ \A a \in Activations :
                  OpenEpoch(a) => envelope[m].expires <= epoch[a].cutoff

\* A regular pass that has reserved began before its epoch was closed.
ClosedInv ==
  /\ \A w \in Workers : pc[w] \in Spent /\ cfg[w].mode = "regular" =>
       LET e == epoch[cfg[w].act]
       IN e.closed > 0 => pass[w].deadline <= e.closed + Budget
  /\ \A w \in Workers : Sending(w) =>
       pass[w].until + SendBudget <= pass[w].deadline + Timeout

LimitInv ==
  /\ IsFiniteSet({m \in Messages : HasEnvelope(m)})
  /\ IsFiniteSet({x \in Messages \X (1..MaxAttempts) : attempt[x[1]][x[2]].at > 0})
  /\ RegularLimits

-----------------------------------------------------------------------------
(* What the passes implement.                                              *)

Ledger == INSTANCE EmailLedger WITH
  reserved <- [m \in Messages |-> job[m].made],
  handed   <- {<<r.msg, r.no>> : r \in sent},
  flight   <- {<<pass[w].msg, Number(w)>> : w \in {v \in Workers : Sending(v)}},
  over     <- {m \in Messages : job[m].state \in Terminal}

\* The passes of all processes together keep the ledger's promise.
KeepsLedger == Ledger!Spec
=============================================================================
