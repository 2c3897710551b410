# HawkView: verification development

HawkView watches the Microsoft 365 tenants of managed service providers (MSPs): it
collects evidence from Microsoft Graph, derives findings from it, turns findings into
incidents, in-app notices and e-mails, and shows them in a web console.  This directory
holds TLA+ models of its protocols, their TLC instances, and TLAPS proofs.  Paths without
a directory are under `src/backend/src/`.

## 1. Inventory

| Component | State it keeps | Operations | What makes it correct |
|---|---|---|---|
| **Live e-mail release** (`alerts/email-release*.ts`, `email-regular-release.ts`, `resend-email-transport.ts`, `email-delivery-reconciliation.ts`) | `alert_send_jobs`, `alert_email_envelopes`, `alert_email_regular_epochs`, `alert_send_attempts`, `alert_suppressed_addresses`, `alert_email_events` | scheduler pass: admit/claim, resolve, open (reserve), veto, send, settle, withdraw; close epoch; operator's cancel; provider event | one request per reservation, at most three; the same mail under the same key on every retry; no two calls at once; OFF, consent and suppression respected; rows tell what happened; jobs end |
| **Send queue** (`send-queue.ts`) and **drain worker** (`send-worker.ts`, `send-store.ts`) | the same jobs | claim, settle, cancel statements; drain loop (not provided by any module of the application) | terminal states final; a settlement only by the claim's holder |
| **Alert intake** (`finding-pipeline.ts`, `pipeline-store.ts`, `alert-intake.service.ts`) | `alert_incidents`, `notifications`, `alert_withheld_notices`, `alert_send_jobs` | tick: read findings and settings, skip the decided, decide, commit by chunks | a finding is told once or withheld once; incident, notice and job appear together; nothing lost when a tick yields or dies |
| **Alert lifecycle** (`alert-lifecycle.ts`, `alert-recurrence.ts`, `alert-clearing.ts`, `alert-episode*.ts`, `window-coverage.ts`) | none, pure functions over history | classify recurrence, clear, build episodes, judge coverage | a clearing needs full coverage; episodes neither overlap nor leave holes |
| **Delivery webhook** (`delivery-webhook.controller.ts`, `suppression-store.ts`) | events, suppressions | verify, deduplicate, record | idempotent; order of event and settlement irrelevant |
| **Settings, routing, operator tools** (`alert-dispositions.service.ts`, `routing-policy.ts`, `reconciliation.ts`, `scripts/alerting-*.mts`) | dispositions, preferences | save, preview, apply, revert, cancel | previews tell what the action will do |
| **Tenant synchronisation** (`tenants/tenant-sync.service.ts`, `scheduled-sync*.ts`, `source-work-planner.ts`) | `sync_states`, scheduler cursor | select due tenants, take the tenant lease, run collectors, record outcomes, advance the cursor | one owner per tenant; every tenant gets its turn; back-off ends |
| **M365 activity** (`tenants/m365-management-activity.service.ts`) | content rows, daily usage | reserve usage, claim content, release the unused part | caps hold under concurrency; reservations do not leak |
| **PIM schedules** (`tenants/pim-schedule-*.ts`) | scopes, attempts, observations | capture, begin, rotate, publish, expire | only the current attempt publishes, under its own scope and authority |
| **Role receipts and connection verification** (`tenants/directory-role-receipt-store.ts`, `*connection-verification-store.ts`) | role columns of `sync_states`, `tenant_connections` | begin, publish, revoke, remove tenant | a receipt is published only under the authority and connection it was collected with |
| **Managed Microsoft authority and consent** (`microsoft/*`) | `platform_microsoft_connectors`, `microsoft_consent_attempts` | publish/capture authority; issue, claim, finish consent; apply effects | no result under a rotated authority; replay harmless; a revision never returns |
| **Identity risk cycle** (`identity-risk/risk-global-*.ts`) | `identity_risk_scheduler_cursors`, attempts, causal heads | claim the cycle, next scope, record attempt, commit, release | one cycle at a time; a stale cycle commits nothing; every scope gets its turn |
| **Identity risk evaluation, risky-user detection** (`identity-risk/*`, `evaluation-core`, `risky-users-*`) | assessments, evidence | evaluate, persist, project | absence of evidence is never reported as absence of risk |
| **Console sessions** (`auth/console-session.service.ts`) | `console_sessions` | bootstrap, activity, end, history | an ended or expired session stays so |
| **Workspace** (`workspace/workspace.service.ts`) | memberships, invitations, audit rows | update, remove, invite, reset | an organisation keeps an active owner |
| **Rate limiting** (`rate-limiting/*`) | in-memory windows | admit, make room | limit respected within a window unless evicted |
| **Secrets, key store, canary, health, Prisma** | | | infrastructure |
| **Web console** (`src/app`, `src/components`, `src/lib`) | client stores | fetch and render; scoped request guard | an answer of an earlier scope or request is never shown |

**How they interact.** The scheduler calls HTTP endpoints: one collects due tenants
(`scheduled-sync.controller.ts`), runs the alert intake in what is left of its window, and
a final step calls the e-mail pass.  Everything else is shared state in PostgreSQL: intake
inserts jobs which the e-mail pass claims; the webhook inserts events which settlement
reads; consent rotates the connection whose incarnation role receipts check.
Several processes run side by side (deployments overlap, scheduler invocations
overlap), transactions run at READ COMMITTED with advisory locks and row locks, leases
carry exclusion beyond a transaction, and any process may stop between two of its
awaits.

**Hard behaviours.**  Leases that expire under a paused process; a provider whose answer
is lost; reservations that survive crashes; several generations of settings in
different processes at once; checks outside the transaction that acts; cursors moved
before the work; retries and replays.  `PROJECT.json` lists each at its line.

## 2. Plan

In this order, the most consequential behaviour first.

1. `EmailRelease`, the abstract `EmailLedger` it implements, and their proofs. **Done.**
2. `AlertIntake`: overlapping ticks, chunks, uncommitted writes under READ COMMITTED,
   dispositions that change; and its proofs for any number of workers and findings. **Done.**
3. `TenantAuthority`: authority publication and capture, consent operations, effects,
   verifications and role receipts over one authority row, clients of the abstract
   `AuthorityFence`. **Done.**
4. `WorkspaceMembers` and its proofs: an owner remains. **Done.** `ConsoleSession`: an
   ended session stays ended.
5. `ScheduledSync`: tenant lease with takeover, cursor compare-and-set, selection;
   liveness: every tenant gets its turn. **Done** but for the back-off of single resources.
6. `RiskCycle`: cycle lease, cursor before work, attempt fencing, commit guard; composed
   with the former in `ScheduledTicks`. **Done.**
7. `PimSchedules`: attempts, scopes and publication. **Done**, within `TenantAuthority`.
8. `ActivityBudget`: usage reservations and their release.
9. `AlertLifecycle`: recurrence, clearing, episodes and window coverage as functions,
   compared with reference definitions.
10. `FixedWindow` (rate limiting), `RequestGuard` (console), `SendQueue` (drain worker).

Every safety property that a passing run checks is also a theorem; liveness is left to TLC. Open on the side of the
proofs are the components of the plan that have no model yet.

## 3. Live e-mail release (`EmailRelease`)

### Correspondence with the code

| Variable | Code |
|---|---|
| `job` | `alert_send_jobs`: state, attempts_made (`made`), not_before_at, claimed_by (`by`), claim_expires_at (`until`), and the created_at of the notification it belongs to |
| `envelope` | `alert_email_envelopes`: idempotency key, mode, activation, frozen recipient, window, frozen body, provider message id (`pid`) |
| `epoch` | `alert_email_regular_epochs`: cutoff, declared start, recipient, closed_at |
| `attempt` | `alert_send_attempts`, by message and attempt number |
| `suppressed`, `events` | `alert_suppressed_addresses`, `alert_email_events` |
| `pc`, `pass`, `cfg` | the await at which a process's pass stands, its locals, its environment |
| `owner`, `optedIn`, `savedAt`, `standing` | what eligibility queries read: the eligible owner's confirmed address, the preferences, the `updated_at` boundary, and whether the incident still needs attention |
| `wire`, `accepted` | requests in the network, keys the provider took |
| `sent`, `lastOff`, `report`, `changes` | history, no code |

A pass is `Begin`, `ClaimRegular` or `ClaimControlled`, `Resolve`, `Open`, `Recheck`,
`MaySend`, `Send`, `Answer`, then `Settle` or `Withdraw`: one action for each database
transaction or read, because the pass may be overtaken between any two awaits.
`ClaimRegular` is the whole admission transaction: `epochFor` (register or refuse), the lease
test, eligibility, the head of the candidates, its stop, deferral or claim with envelope.
`EndPass` stands for every early return, exception and crash: after any step a pass may be
gone, leaving the database as its last committed transaction left it.  `CloseEpoch`
is the pass of a process whose mode is disabled.  `Provider` and `RecordEvent` are Resend and its
webhook; `Enqueue` is the commit of an intake chunk; `Cancel` is
`scripts/alerting-cancel.mts`.

Abstractions, each on the side of more behaviours:

* One organisation; every query of the path is scoped by organisation.
* One clock for processes and database. The code compares database times with database times;
  only the window of a controlled activation is also compared with the process's clock.
* A pass's deadline is `now + Budget`. A scheduler that gives it less only cuts behaviours that
  `EndPass` allows anyway.
* The abort timer of the provider call fires on time (`Tick` waits for it). All other
  pauses of a process are unbounded.
* `by` is the worker's name where the code draws a random uuid for each pass. A worker runs one pass at a
  time, and a dead pass's claim keeps its name, which makes the fence weaker than the code's.
* Suppression, notification severity, category, digest, tenant visibility and incident state are each
  one truth value or a set (`suppressed`, `optedIn`, `standing`).
* The provider remembers keys for the whole behaviour: its 24 hours exceed an envelope's hour.
* `LIMIT 1` among ties, and `SKIP LOCKED`, are a free choice.
* Stop codes, log lines and the answer of the endpoint are left out.

### Runs

The durations keep the code's order, 5 < 6 < 7 < 8 < 15 < 25 < 30 s, at the smallest scale
at which each margin can be met and missed: timeout 1, margins 1, budget 2, lease 3.

| Run | Instance | What it shows |
|---|---|---|
| `EmailRetries` | 2 processes, 1 message, 2 attempts, 2 renderings, clock to 6, one change among preferences, owner, incident, stop; one bounce | `TypeOK`, `HandoffHeld`, `ReservedFirst`, `NoSecondHandoff`, `FrozenMail`, `UnsentTruthful` (a job marked as never attempted, by a veto or by the stop, never left), `OutcomesAgree` (accepted rows agree with each other and with what the webhook brought), `TerminalFinal`, `ConsentUnbroken`, and refinement of `EmailLedger` (`KeepsLedger`) |
| `EmailSwitching` | 2 processes, 2 messages, 1 change of settings among regular, OFF, a second epoch, a controlled window | `OneHandoff`, `ClosedEpochSilent`, `SettingsApart` (a job is never adopted by later settings; a controlled window runs alone), `ClaimFence` |
| `EmailDrains` | 1 process that may die after any step, 2 messages, limits of one, clock to 8 under fairness | `RegularLimits`, `Drains` |

Two processes suffice for the races because every property relates at most two passes; two messages
suffice for the limits and for exclusion across messages because they are set to one.
Two attempts exercise first attempt, retry and exhaustion. The clock bound lets a claim run out and be
taken over (3), a retry happen after it, and an envelope reach its expiry.
The preview of `scripts/alerting-cancel.mts:107-115` lists withdrawn jobs, which `cancelStatement` leaves
alone, although its comment claims one WHERE clause.  No run repeats the two lists.
`docs/regular-email-release.md:50-52` counts controlled activity against the twelve attempts of an hour; the
reservation (`email-release-store.ts:116`) asks for the limit in regular mode only, so that a controlled window
may send beyond it. `RegularLimits` is therefore stated for regular reservations, and no run repeats the difference.

Deadlock is not checked in `EmailSwitching`: with e-mail off or all windows over and the clock at its
bound the system does stop.

**Fairness** (`EmailDrains`): `WF(Tick)`; `WF(Pass(w))`, a process that runs makes progress, one way or
another, since `EndPass` is one of its steps; `SF(ClaimRegular(w))`, the scheduler keeps calling and not every
pass dies at the very claim. Nothing is assumed about the steps after the claim: every
pass may die before it settles, and the job still ends, because `attempts_made` and
expiry are tested at the next claim.

### Proofs

`EmailRelease_proofs`, `EmailHandoff_proofs`, `EmailLedger_proofs` and `EmailPromises_proofs` prove every safety
property of the three runs, for any set of processes, messages, settings, renderings and addresses, any limits,
and any durations with `0 < Timeout <= SendBudget` and `0 < Budget < Lease` (`DurationAssumption`).

`IInv` carries the handoff. `HandoffHeld` alone is not inductive: it says nothing of a pass before its call. `IInv` adds that

* a pass that has claimed and is within its deadline still holds its claim, which
  outlives the deadline, unless the operator cancelled the job (`ClaimInv`): this is
  where `Budget < Lease` enters;
* it knows the row's number of reservations (`ClaimInv`), so that no two passes hold the
  same reservation and none that was handed off (`SpentInv`);
* the abort timer lies within the deadline (`PassInv`): this is where
  `Timeout <= SendBudget` enters;
* reservation rows are exactly `1..made` and cover every request (`RowsInv`).

`EmailRelease_proofs` shows that each action preserves `TypeOK`; `EmailHandoff_proofs` that each
preserves the other parts, by action, and derives `TypeCorrect`, `HandoffsHeld`, `ReservationsFirst`, `NoReservationTwice`;
`EmailLedger_proofs` derives `FinishedStays` and maps each action to a step of the ledger or a stutter (`LedgerKept`). The hard case there is
`Open`: a reservation must not be made while a call for the message is in flight, which
follows from the claim of the calling pass.

The other promises need little of each other, so each has its own invariant beside `IInv`, and `EmailPromises_proofs`
takes one after the other. It begins with who writes what (`Writes`): a variable of the database has few writers, and for most
actions a promise is kept because what it speaks of is untouched.

| Theorem | Property | What its invariant adds |
|---|---|---|
| `MailFrozen` | `FrozenMail` | `MailInv`: what a pass holds after its reservation, and whatever was handed off, is the envelope's key, body and recipient; a key above all minted ones is fresh |
| `ClaimsFenced` | `ClaimFence` | nothing: by action, from `ClaimInv`; a claim can be taken only when it is not live |
| `UnsentIsUnsent` | `UnsentTruthful` | `VetoInv`: while a pass may still veto its reservation no request bears it, and while it may still use it, it is not vetoed; `StopInv`: a job reported as stopped before any attempt is cancelled with no reservation, so none can follow |
| `OutcomesAlwaysAgree` | `OutcomesAgree` | `OutcomeInv`: a pass that was told "accepted" was told so of a key that the provider took; with `MailInv` that key leads to one envelope, whose events and settlement meet whichever commits second |
| `SettingsLieApart` | `SettingsApart` | `EpochInv`: epochs lie in the past, the mail of a pass is its activation's, and controlled mail expires before any open epoch begins |
| `ClosedEpochsFallSilent` | `ClosedEpochSilent` | `ClosedInv`: a regular pass that has reserved began before its epoch was closed, so that its deadline is at most one budget after |
| `ConsentNeverBroken` | `ConsentUnbroken` | `ConsentInv`: while the owner is opted in, the last refusal lies before the last save, which is what the code compares |
| `OneHandoffAtATime` | `OneHandoff` | `LeaseInv`: of two regular passes within their deadlines one lost its job to the operator; the durable lease at the admission is what establishes it |
| `LimitsHold` | `RegularLimits` | `LimitInv`: the counted rows are finitely many; an admission counts the last hour, and any hour that holds the new row is a part of that one up to it |

All of these invariants were checked by TLC on the instances of the runs before they were proved.

Only model-checked: liveness (`Drains`), which the provers cannot reach.
`notBefore` is typed as an integer because the provers cannot bound an exponential
back-off.

## 4. Alert intake (`AlertIntake`)

### Correspondence with the code

| Variable | Code |
|---|---|
| `finding` | `identity_risk_findings`: state (`CLOSED` stands for RESOLVED, EXPIRED and UNKNOWN) and observed_at |
| `tier`, `reachable` | the organisation's disposition of the alert type (or the catalogue's), `bool_or(email_enabled)` |
| `rows` | committed rows of `alert_incidents`, `notifications`, `alert_send_jobs`, `alert_withheld_notices`, by unique key |
| `mine` | rows that a worker's open transaction has inserted |
| `pc`, `tick` | the await at which a worker's tick stands, the locals of `runIntake` |
| `base`, `ever` | history: `rows` when a transaction began; which settings and observations there have been |

A tick is `Begin` (`findOpenFindings`), four `Load`s (`Promise.all`, with the two queries of
`loadDispositions` in their order), then for each chunk `Decide`, its `Statement`s and
`Commit`.  `Writes` is the pure `decide`.  `Statement` evaluates the `NOT EXISTS` against committed rows and its
own, inserts unless the row is committed, or waits for the transaction that has inserted it; `Resume`
goes on when that one is over.  A statement that waits nowhere is one action: what
commits between its snapshot and its insert is no different from what commits after it.
`EndTick` stands for a yield, a failed read or write and a crash, `BreakDeadlock` for PostgreSQL's
victim; both roll back.  Evaluators write findings by `UPSERT_STANDING`
(`PublishNative`), by `persistMatches` (`Evaluate`) and by `CloseNative`.

Abstractions:

* One organisation, one alert type: no row is shared between different ones. Rules without an alert type only
  occupy places of a chunk.
* Urgencies ACT_NOW and ACT_TODAY are one: they differ in the notification's tone.
* Expiry of a finding stands with its closing: `expires_at` lies 90 days after the observation or at
  the end of the evidence, the read window is a day.
* Ids are the findings' numbers, which settles the order of equal `observed_at` as the query does.

### Runs

| Run | Instance | What it shows |
|---|---|---|
| `AlertIntake` | 2 workers, 2 findings of one incident, chunks of 1, 2 changes of findings, 1 of settings | `TypeOK`; `Together`: an incident is there exactly when one of its findings was decided, and a job only with its incident; `JobsExplained`: an incident without job has a reason, and none is queued for history before the watermark; `DecisionsDurable`: no transaction contradicts a decision that was committed before it began; `BothOnlyJoining`: two ticks leave a finding both told and withheld only when another finding had opened its incident |
| `AlertIntakePairs` | 2 workers, 2 accounts, chunks of 2, 3 changes of findings | `Together` through deadlocks: the order of inserts follows `observed_at`, which moves |
| `AlertIntakeTicks` | 1 worker, 2 findings, chunks of 1, one tick that yields, fails or dies, clock to 2, fairness | `OpenDecided` |
| `AlertIntakeUpdated` (violation) | as `AlertIntakeTicks` | `NextTickRedoes`: the report's comment says that findings a tick missed are still OPEN; a second match makes them UPDATED, and no tick reads that |

`docs/alert-preferences.md:163-164` promises no new send identity for an old decision; the insert of the job
(`pipeline-store.ts:256-264`) lacks the guard that the insert of the notice has (`:247`), so that a tick with an older
view may add one. The model contains this; no run repeats it.

The comment at `finding-pipeline.ts:335-345` says that one of each row may exist for a finding;
`BothOnlyJoining` says when.  A tick that opens the incident inserts its row first and holds it
to the commit, so that a second tick waits there and then sees the notice; a tick that
read the incident as open inserts no incident and waits for nobody.

Two workers suffice: rows, decisions and waits relate pairs of transactions. The observation
times 0 and 1 lie on both sides of the watermark. Two changes let both findings appear, or one be updated; three
let one of two be observed again, which turns their order. The cap is as large as the set of findings: it
enters only the premise of `OpenDecided` (`InReach`), and an instance in which it cuts is left to a later
extension. Deadlock is not checked: once the bounded changes are used up and all is decided, ticks
have nothing left to write, and before the first finding none begins.

**Fairness** (`AlertIntakeTicks`): `WF(Progress(w))`: the scheduler keeps calling, the intake's window is not missed
for ever, and of the ticks only finitely many (`MaxFaults`) yield, fail or die. The code
promises no more: a chunk that fails every time is never decided.

### What is proved

For any sets of workers, findings and incidents, any chunk size and cap and any number of faults,
`AlertIntake_proofs` proves the five properties of the run `AlertIntake`, and with them `Together` of
`AlertIntakePairs`.  None of the row properties is inductive: they speak of committed rows, and what a commit adds
was decided earlier, from reads that are older still. The invariant `IInv` adds, for each worker,

* `ReadInv`: what a tick remembers was true once, and stays on record (committed rows and `ever` only grow);
* `ChunkInv`: the rows that its transaction has added or is to add, taken with the committed ones (`Ahead`), are already
  as `Together` and `JobsExplained` want the rows to be. A statement moves a row from planned to added, and one that
  finds the opposite decision drops a row that nothing depends on (`ChunkKept`);
* `FitInv`: a decision it has added, or waits to add, contradicts nothing it could see, and either it
  holds the row of the incident or another finding had opened that. Here the order of the tables matters: when the
  turn of a notice comes, no incident is left to write (`FitsNow`);

and between workers only `ApartInv`: an uncommitted row is one transaction's, and not committed. So the proof takes one
worker at a time: the steps of others keep its part because rows only grow (`OthersKeep`), and a commit makes `Ahead`
the rows (`CommitLeaves`). What a list of findings holds comes from `ListType`; that
there always is one, that a tick has a next statement, and `OpenDecided` are left to TLC.

## 5. Workspace members (`WorkspaceMembers`)

### Correspondence with the code

| Variable | Code |
|---|---|
| `users` | who has a row of `users` |
| `member` | `memberships` of the organisation: role and status, `None` without a row |
| `completed` | `organizations.onboarding_completed_at` is set |
| `req` | the await at which each request stands, its sender, the member it is about, the seat it will write |
| `overlapped` | history: the team changed since the request began |

`UpdateMember`, `RemoveMember`, `InviteMember` and `CompleteOnboarding` are `ownerContext`;
`FindMember`, `ReadOrganization` and `CountOwners` the queries of `memberForOwner` and
`protectOwner`; `WriteMember` the transaction, which repeats none of them. An invitation is
`CreateUser` and `Join`, two writes; `Complete` is the compare-and-set that ends the setup.
`EndRequest` is every refusal, exception, failed transaction and crash.

Abstractions: one organisation, since every query names it. A membership's id is its person: nobody joins an
organisation twice, because an invitation leaves whoever has an account alone.
Disabled accounts, and organisations that are not active, are left out: nothing in the service makes them so. The provider's call
before `CreateUser` changes no state here.

### Runs

| Run | Instance | What it shows |
|---|---|---|
| `WorkspaceTeam` | 3 people, 2 requests at once and any number in turn, roles owner and viewer | `TypeOK`; `FounderStays`: the founder is an active owner until the setup is complete; `InvitesOnlyAdd`: the upsert of an invitation never meets a membership; `LastOwnerOnlyByRace` and `NoSelfRemoval`: the last owner, and one's own ownership, go only when another request changed the team meanwhile |
| `WorkspaceRace` (violation) | 2 people | `OwnerRemains`: `README.md:207` of the repository excludes the removal of the last active owner; two owners who demote each other at the same time both count two |

Nothing is bounded but the people and the requests at a time. The other administrative roles differ in nothing the
service looks at here. Deadlock is not checked: an organisation without an active owner
accepts no request any more.

A remark on `protectOwner`: when no requests overlap, the sender is an owner and may not remove itself,
so that the refusal of self-removal alone keeps an owner. The count decides only in races,
and does not suffice there.

### Proofs

`WorkspaceMembers_proofs` proves all five properties of `WorkspaceTeam`, for any people, roles and number of
overlapping requests, from the assumptions that the founder is a person, that owner
and viewer are roles, and that `None` is neither a role, a status nor a membership.
The properties speak of the moment of a write, the decisions were taken earlier; `IInv` says of each request what they
are still worth:

* a request past its guard that takes the founder's seat has seen the setup complete, and the setup
  is never undone (`FounderInv`);
* the sender of a request that nobody overtook is an active owner, and a request that takes an ownership
  does not take its sender's (`SenderInv`);
* who is a member or about to join has an account, and no two requests are about to let one
  person join (`AccountInv`);
* a removal is judged as the change to a viewer (`RemovalInv`).

## 6. Tenant authority (`TenantAuthority`)

One connector reads every managed tenant. Requests take a context from the rows (which revision of the connector,
which incarnation of the connection, which scope of the role collection), talk to Microsoft for seconds or
minutes without any lock, and come back with a transaction that locks the authority, the tenant, the connection
and the roles in this order and compares. The modules follow the files:

| Module | Code |
|---|---|
| `ManagedAuthority` | `microsoft/managed-connector-authority.ts` and its caller `configureManagedConnector` |
| `TenantContext` | the rows on which the others meet: `customer_tenants`, `tenant_connections`, the DIRECTORY_ROLES row of `sync_states`, and the writes that several stores share |
| `ConsentOperations` | `microsoft/consent-operation-store.ts`, `managed-consent-effects.ts`, and the callers in `tenants.service.ts` |
| `ConnectionVerification` | `tenants/connection-verification-store.ts` and its callers |
| `DirectoryRoles` | `tenants/directory-role-receipt-store.ts`, the collector, the reader |
| `PimSchedules` | `tenants/pim-schedule-store.ts` and its orchestration, which nothing dispatches yet |
| `AuthorityFence` | the abstract specification: what a request that leaves the locks in between is promised |
| `TenantAuthority` | their composition, the refinement mappings, the properties |

| Variable | Code |
|---|---|
| `authority`, `revisions` | the row of `platform_microsoft_connectors`; the revisions and sealed secrets |
| `draft` | each configuration request: the revision it captured, where it stands, what it was answered |
| `tenant`, `connection`, `roles` | status of the tenant; status, incarnation, `updated_at` and Exchange grant of the connection; scope, switch, attempt and completed receipt of the role collection |
| `asked`, `operation`, `callback` | requests for a consent link; rows of `microsoft_consent_attempts`; loads of the callback page |
| `notices`, `legacy` | the two notifications of the connection; publications by older instances |
| `check` | verifications, discoveries, Exchange consents and synchronisations |
| `collector`, `control`, `reader` | runs of the role collector, requests that switch it, readers of its result |
| `pimScope`, `attempt`, `pimRun` | current scope, attempts, and runs of the schedule collection |
| `applied`, `concluded` | history: effects applied, operations that changed the connection |

A transaction is one action, because it holds the lock of the authority from its first statement to its commit.
The reader takes no lock and is two actions. Random identifiers are written as the request that made them
(revisions) or as the successor of the one they replace (incarnations, scopes, occurrences): nobody can
hold a fresh one. A deadline is a `live` flag which `Lapse` and `LapseAttempt` end at any moment.

Left out: the claim of a consent operation is never taken over from a dead process, in the code as in the model; the
operation is then superseded by the next link. `Publish` may be submitted twice, which the primitive is made for,
although `configureManagedConnector` submits once. The discovery of a new tenant enters with its first verification.

### The fence

`AuthorityFence` says that a client takes a context once, that no change of the rows makes a context good again
after it ceased to be, and that the client acts only while its context is good and only once. `Fenced` maps publications,
consents, checks, collections of roles and of their schedules, and controls to it. When a context is good is defined from the rows alone
(`PublisherGood`, `Open`, `CheckGood`, `CollectorGood`, `ControlGood`, `PimGood`), independently of the comparisons the code makes, so
that a comparison too few lets a client act on a bad context, and an identifier that returns makes a bad one good.

### Run

| Run | Instance | What it shows |
|---|---|---|
| `TenantAuthority` | 2 requests of every kind, 2 loads of each callback page, 1 reader, at most 3 requests in one behaviour (the first load of a callback page comes with its link and is not counted), 4 when only connector, connection and role collection are concerned | `TypeOK`; `Fenced`; `OneConsentOpen`: of all links given out at most one can still change the connection; `EffectsOnce`; `AnswersTruthful`; `ReaderTruthful`: the reader is right although it reads rows and authority in two statements, because a revision never returns; `EvidenceNotRevived`: evidence that ceased to be current stays so |

Three requests allow every pair of kinds to overlap and a third to put the rows back: a link, a second
link, and a removal or publication between them; two collections and their replacement. Evidence of roles exists only once the
collection was switched on and has run, so that two more requests are needed to see it lose and regain its standing,
or change under its reader (`RolesOnly`). What further requests would add is left to the proofs, which have no bound. All
requests of one kind are interchangeable, so the first starts first (`InTurn`). A behaviour ends when its requests
have, so deadlock is not checked.

### What is proved

`TenantAuthority_proofs` proves, for any number of requests of every kind and of changes, everything the run checks:
`TypeCorrect`, `ConsentsExclusive`, `AnswersAreTrue`, `ReadersAreTrue`, `EvidenceStaysPast`, `EffectsShownOnce`, and
`RequestsAreFenced`, the six refinements of the fence. The assumptions are that identifiers of requests are none of the
names the rows use themselves (`PublishersAssumption`, `ConsentsAssumption`, `NoneAssumption`) and that `MaxLegacy` is a natural number.

The argument has two halves. `Moved` says what any step may do to the rows on which the requests meet: a replaced revision is
never seen again, incarnations, versions and scopes only grow, the status and the switch change only together with
the number that stands for them, and a removed tenant stays removed. The other half says that what a request
captured is not ahead of the rows (`configuration \in Seen`, `connection <= connection.incarnation`, ...). Together: if a
context describes the rows after a step, the step did not touch what it describes (`CheckKept`, `OpenKept`, ...), which
is the fence's "no change makes a context good again". `IInv` joins both with the types and with what each kind
of request needs to know of itself: that a pending consent is the last one issued (`ConsentInv`), that a revision in force was
published by the request that bears its name (`AuthorityInv`), that a reader whose evidence was not current holds a
revision that will not return (`RoleInv`).

`EffectsOnce` follows the occurrences of the two notices through their writers (`EffectsInv`). An operation that was shown is
`Spent`: one notice has moved beyond what its terminal write recorded, so that the comparison of the occurrences refuses a second
time. An incident that a success closed is `Untouched`: every publication, also of an older instance, opens it again under
another occurrence. Both last because occurrences only grow and an operation that ended stays as it ended until it is
removed with its tenant (`EndsAreKept`).

## 7. Scheduled ticks (`ScheduledTicks`)

An external scheduler calls one endpoint every few minutes. A tick first takes a turn of the risk cycle, then collects
the tenants that are due, one after the other. Users ask for synchronisations beside it, deployments overlap, and all
meet in the rows of PostgreSQL: a cursor and a lease for the cycle, a cursor with a revision for the collection, and the USERS row
of each tenant, which is collection state and lease in one.

| Module | Code |
|---|---|
| `ScheduledSync` | `tenants/tenant-sync.service.ts` (window, order, lease, visit) and `tenants/scheduled-sync-selection.ts` (who is due) |
| `RiskCycle` | `identity-risk/risk-global-work-store.ts`, `risk-global-cycle.ts`, `risk-attempt-causality.ts`, `risk-global-commit-guard.ts` |
| `ScheduledTicks` | `tenants/scheduled-sync.controller.ts`: their composition, faults, fairness and the properties |
| `ScheduledTicks_proofs` | the theorems |

| Variable | Code |
|---|---|
| `cursor` | `scheduled_sync_cursors.after_tenant_id`; whether a reader still holds the current revision is `visit[w].seen` |
| `users`, `order` | status of the USERS row with the age that matters of it; the tenants by the clock of that row |
| `known` | whether the rows of the daily resources exist |
| `visit` | what a process does in the collection: window, cursor move, users, modules, the turn after its sign-ins |
| `riskCursor`, `lease` | `identity_risk_scheduler_cursors` |
| `head` | `identity_risk_attempt_heads`: the latest attempt of a tenant and whether a run completed it |
| `turn` | what a process does in the cycle; `same` says that the USERS row is still the one its sources came with |
| `lapsed`, `overtaken` | history: tenants of which a visit outlived its lease, workers after whom another claimed the cycle |
| `faults` | the bound of what goes wrong |

Abstractions:

* A worker is a process. Its memory lane runs one collection or turn at a time, so a process is in one visit or turn at
  most; the queue of sixteen before the lane is left out, and a user's request enters an idle process.
* Clocks are events. A USERS row becomes stale some time after its success (five minutes), a RUNNING row lapses some time
  after its claim (fifteen), the lease of the cycle ends some time after it (two). `order` keeps what the due times compare.
* Of the reasons to be due the model has the users' own and the first inventory. Hourly, daily and targeted retries add
  candidates in the code, which only makes the tenant due earlier, but their order among each other is not modelled.
* A lease or an attempt is named by its worker. The ids are random, so two of them are equal only if they are one; an attempt
  that nobody works on any more is `Nobody`'s, as no commit can name it.
* Reading both pages and sorting them is one step, the compare-and-set another: what matters between them is whether
  another scheduler moved the cursor. Pages read at different moments would differ in which tenants are due.
* A tenant whose connection fails stays connected. `LoseConnection` and `Refuse` are its visits; leaving the set of
  candidates for good is a business of section 6.
* `CommitAssessment` stands for the transaction of `persistCompletedRun`, with the guard's comparison of the directory
  row. The comparisons of sign-in and mailbox sources have the same form and only refuse more. An assessment that uses
  no authentication evidence does not compare the directory and is left out; so are replays and the rebuilt engine.
* A cycle has time for at least one tenant unless something goes wrong, since it is admitted with enough time left.

### Runs

| Run | Instance | What it shows |
|---|---|---|
| `ScheduledTicks` | 2 processes, 2 tenants, limits of one, one fault; one process serves users' requests, one finds sign-ins | `LeaseExcludes`, `AssessedOnSettledDirectory`, `OvertakenTurnsAreFenced`, and under fairness `EveryTenantAttempted` and `EveryTenantVisited` |
| `SyncStarvation` (violation) | 1 process, 2 tenants not collected yet, 1 visit per tick, no fault | `AttemptedTenantsYield`: the comment at `scheduled-sync-selection.ts:148-152` |

A fault is one of: a process stops anywhere, a release is lost, a lease ends under its holder, a cycle is deferred or cut
off, a visit outlives its lease, a tenant is refused, the request's time is over. The interesting cases need one fault and the
ordinary steps of another process: an overtaken turn goes on beside its successor, a visit finishes beside the one that
took its row over, a lost compare-and-set and a crash after the cursor moved skip a tenant for the round.
Two tenants give both cursors a place to be wrong, a wrap and a skip. The limits are one because a larger batch only makes the rounds
shorter. Crossing all roles over both processes multiplies the states without a new pair of roles, therefore each has one.

**Fairness.** `WF` of some process starting a tick: the scheduler keeps calling. `WF(Work(w))`: a process goes on unless it
stops; a step that can fail may fail every time (`FailUsers`, `EvaluationFails`, `RecordFails`). `WF(Age(t))`, `WF(LeaseAges)`: time passes, so a row
goes stale and an abandoned lease ends. Two promises are conditional, because the code makes them so:

* `EveryTenantAttempted` assumes that from some time on no tick finds the cycle held. `docs/identity-risk-global-availability.md:142-144`
  says the same: the fairness of the cursor applies only when capacity is obtained.
* `EveryTenantVisited` assumes `Window <= Limit`, that is, that a tick may serve all it read. Without it the run
  `SyncStarvation` is the answer.

### What the starvation run found

A tenant that was never collected has no rows of daily resources; a missing row counts as due since 1970. A visit that fails
with its users throws before any such row is written. The tenant stays a candidate, as FAILED, and the oldest. As many of them as a
tick has visits (ten by default) are served by every tick, and no other tenant of the window is. The comment promises that a tenant
attempted repeatedly yields to others. Two more roads to the same end, outside the instance:

* When all candidates fit the window the wrapped page ends at the old cursor, so that the cursor rests where it is, and
  the tenants with ids beyond it are the first segment of every tick. `docs/sync-reliability-audit-20261021.md:17` calls this
  priority the protection against starvation.
* A tenant that was collected once and whose users fail for more than a day has the same position through the
  old clocks of its daily resources.

Comments at `tenant-sync.service.ts:2042-2044` and `:2291-2292` say that the USERS claim serialises the modules of a visit. The row is SUCCEEDED
before the modules begin (`:2179-2196`), so across processes it serialises the users only, and `LeaseExcludes` says no more.

### What is proved

For any sets of tenants and processes, any limits and any number of faults, `ScheduledTicks_proofs` proves `LeaseExclusion`,
`Fencing` and `Assessment` for `Spec`, hence for `FairSpec`; the only assumption they use is that `Nobody` is no worker
(`NobodyAssumption`). The invariant `IInv` has these parts:

* `LeaseInv`: for a tenant none of whose visits outlived its lease, a visit in its users has the row RUNNING and is the only one.
  Exclusion is a part of it; that the row is RUNNING is what makes it inductive.
* `ApartInv`: a worker in a turn waits in its tick or its visit, so that it starts no second turn.
* `FenceInv`: a worker that was overtaken does not hold the lease and is in the middle of a turn, so that it
  cannot claim again before it is done. Every write of the cycle asks for the lease, or releases only an own one.
* `LoadedInv`: sources that still agree with the USERS row belong to one that succeeded. With `LeaseInv`: at a commit
  nobody has it RUNNING.
* `Shape`: what `EXCEPT` needs to know of the functions and records.

The liveness properties are model-checked only.

## 8. What is not modelled

The components with status `not_modelled` in `PROJECT.json`, each with its reason. In short: those of the plan above
that are still open; and, without a plan, evaluation rules and projections (domain content),
rendering, cryptography, token verification, Graph collectors and pages, which have no
protocol of their own that a model checker would reach better than their tests do.
