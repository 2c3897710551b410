--------------------------- MODULE TenantAuthority ---------------------------
(***************************************************************************)
(* The connector, the rows of one tenant and everything that works on      *)
(* them, together: publications of a connector, consents, verifications    *)
(* and synchronisations, collections of roles and of their schedules, the  *)
(* control of the former and their readers.                                *)
(***************************************************************************)
EXTENDS ConsentOperations, ConnectionVerification, DirectoryRoles, PimSchedules

vars == <<authorityVars, tenantVars, consentVars, check, roleVars, pimVars>>

Init ==
  /\ AuthorityInit
  /\ TenantInit
  /\ ConsentInit
  /\ VerificationInit
  /\ DirectoryRolesInit
  /\ PimInit

ConfigureManagedConnector ==
  /\ \E p \in Publishers : PublisherStep(p)
  /\ UNCHANGED <<tenantVars, consentVars, check, roleVars, pimVars>>

\* A synchronisation that finds a mutable credential upgrades it first.
UpgradeBeforeSync ==
  /\ Usable
  /\ \E v \in Checks : check[v].at = "new"
  /\ UpgradeLegacy
  /\ UNCHANGED <<tenantVars, consentVars, check, roleVars, pimVars>>

Consent == ConsentStep /\ UNCHANGED <<authorityVars, check, roleVars, pimVars>>

Verification == VerificationStep /\ UNCHANGED <<authorityVars, consentVars, roleVars, pimVars>>

Collection == DirectoryRolesStep /\ UNCHANGED <<authorityVars, consentVars, check, pimVars>>

Schedules == PimStep /\ UNCHANGED <<authorityVars, consentVars, check, roleVars>>

Removal ==
  /\ \E d \in Controls : RemoveManagedDirectoryTenant(d)
  /\ ForgetConsents
  /\ ForgetPimSchedules
  /\ UNCHANGED <<authorityVars, check>>

Next ==
  \/ ConfigureManagedConnector
  \/ UpgradeBeforeSync
  \/ Consent
  \/ Verification
  \/ Collection
  \/ Schedules
  \/ Removal

Spec == Init /\ [][Next]_vars

-----------------------------------------------------------------------------
(* The contexts of the six kinds of requests, as clients of a fence, and  *)
(* when each context still describes the rows.                             *)

PublisherGood(p) ==
  draft[p].at \in {"verifying", "sending"} /\ draft[p].expected = authority.revision

\* The operation could still change the connection.
Open(o) ==
  /\ operation[o].state \in {"ISSUED", "CLAIMED"}
  /\ operation[o].configuration = authority.revision
  /\ Present
  /\ operation[o].connection = connection.incarnation

CheckGood(v) ==
  /\ check[v].at = "captured"
  /\ Present
  /\ check[v].configuration = authority.revision
  /\ check[v].incarnation = connection.incarnation
  /\ check[v].version = connection.version
  /\ check[v].kind # "verify" =>
       check[v].scope = roles.scope /\ check[v].enabled = roles.enabled

CollectorGood(k) ==
  /\ collector[k].at = "collecting"
  /\ roles.attempt.id = k /\ Running
  /\ collector[k].configuration = authority.revision
  /\ collector[k].connection = connection.incarnation
  /\ collector[k].scope = roles.scope

ControlGood(d) ==
  /\ control[d].at = "shown"
  /\ Present
  /\ control[d].context = ControlContext

PimGood(q) ==
  /\ pimRun[q].at = "acquiring"
  /\ q \in InFlight /\ attempt[q].live
  /\ pimRun[q].configuration = authority.revision
  /\ Present
  /\ pimRun[q].connection = connection.incarnation
  /\ pimRun[q].scope = pimScope

PublisherFence == INSTANCE AuthorityFence WITH
  Clients <- Publishers,
  taken <- {p \in Publishers : draft[p].at # "new"},
  good <- {p \in Publishers : PublisherGood(p)},
  used <- Publishers \cap revisions

ConsentFence == INSTANCE AuthorityFence WITH
  Clients <- Consents,
  taken <- {o \in Consents : asked[o].at = "issued"},
  good <- {o \in Consents : Open(o)},
  used <- concluded

CheckFence == INSTANCE AuthorityFence WITH
  Clients <- Checks,
  taken <- {v \in Checks : check[v].at # "new"},
  good <- {v \in Checks : CheckGood(v)},
  used <- {v \in Checks : check[v].at = "applied"}

CollectorFence == INSTANCE AuthorityFence WITH
  Clients <- Collectors,
  taken <- {k \in Collectors : collector[k].at \notin {"new", "busy"}},
  good <- {k \in Collectors : CollectorGood(k)},
  used <- {k \in Collectors : collector[k].at = "committed"}

ControlFence == INSTANCE AuthorityFence WITH
  Clients <- Controls,
  taken <- {d \in Controls : control[d].at # "new"},
  good <- {d \in Controls : ControlGood(d)},
  used <- {d \in Controls : control[d].at = "changed"}

PimFence == INSTANCE AuthorityFence WITH
  Clients <- PimRuns,
  taken <- {q \in PimRuns : pimRun[q].at \notin {"new", "captured"}},
  good <- {q \in PimRuns : PimGood(q)},
  used <- {q \in PimRuns : pimRun[q].at = "published"}

-----------------------------------------------------------------------------
(* Properties                                                              *)

Nullable(S) == S \cup {None}
Revisions == Publishers \cup {"absent", "legacy", "upgraded"}
Configuration == Nullable(Revisions)

AuthorityTypeOK ==
  /\ authority \in [revision : Revisions, immutable : BOOLEAN, operation : Nullable(Publishers)]
  /\ revisions \subseteq Revisions \ {"absent"}
  /\ draft \in [Publishers -> [at : {"new", "verifying", "sending", "done"},
                               expected : Revisions, retried : BOOLEAN,
                               answer : {None, "refused", "published", "replayed",
                                         "superseded", "conflict"}]]

TenantTypeOK ==
  /\ tenant \in {"PENDING", "ACTIVE", "SUSPENDED", "REMOVED"}
  /\ connection \in [status : {"PENDING_CONSENT", "CONNECTED", "ERROR", "REVOKED"},
                     incarnation : Nat, version : Nat, exchange : BOOLEAN]
  /\ roles \in [scope : Nat, enabled : BOOLEAN,
                attempt : [id : Nullable(Collectors), connection : Nat,
                           configuration : Configuration, scope : Nat,
                           outcome : {None, "RUNNING", "FAILED", "PARTIAL", "EXPIRED", "COMPLETE"},
                           live : BOOLEAN],
                complete : [id : Nullable(Collectors), connection : Nat,
                            configuration : Configuration, scope : Nat]]

ConsentTypeOK ==
  /\ asked \in [Consents -> [at : {"new", "found", "prepared", "issued", "refused"},
                             incarnation : Nat, configuration : Configuration]]
  /\ operation \in [Consents -> [state : {None, "ISSUED", "CLAIMED"} \cup Terminal,
                                 configuration : Configuration, connection : Nat,
                                 claim : Nullable(Browsers), result : Nat,
                                 snapshot : Nullable([Keys -> Nat]),
                                 live : BOOLEAN]]
  /\ callback \in [Consents -> [Browsers ->
                     [at : {"new", "verifying", "finishing", "orphaned", "effects", "done"},
                      verdict : Nullable(Verdicts)]]]
  /\ notices \in [Keys -> [occurrence : Nat, by : Nullable(Consents),
                           resolvedBy : Nullable(Consents)]]
  /\ legacy \in 0 .. MaxLegacy
  /\ applied \in [Consents -> Nat]
  /\ concluded \subseteq Consents

CollectionTypeOK ==
  /\ check \in [Checks -> [at : {"new", "captured", "applied", "superseded", "stopped"},
                           kind : Nullable(CheckKinds \cup {"refreshed"}), version : Nat, incarnation : Nat,
                           configuration : Configuration, scope : Nat, enabled : BOOLEAN]]
  /\ collector \in [Collectors -> [at : {"new", "busy", "collecting", "ended", "committed"},
                                   connection : Nat, configuration : Configuration, scope : Nat]]
  /\ control \in [Controls -> [at : {"new", "shown", "changed", "refused"},
                               context : Nullable(Revisions \X Nat \X Nat \X BOOLEAN)]]
  /\ reader \in [Readers -> [at : {"new", "rows", "current", "superseded"},
                             configuration : Configuration, bound : BOOLEAN, was : BOOLEAN]]

PimTypeOK ==
  /\ pimScope \in Nat
  /\ attempt \in [PimRuns -> [outcome : {None, "IN_FLIGHT", "COMMITTED", "FAILED", "ABANDONED"},
                             live : BOOLEAN, current : BOOLEAN]]
  /\ pimRun \in [PimRuns -> [at : {"new", "captured", "acquiring", "published", "failed", "refused"},
                            configuration : Configuration, connection : Nat, scope : Nat]]

\* Every variable keeps its type.
TypeOK == AuthorityTypeOK /\ TenantTypeOK /\ ConsentTypeOK /\ CollectionTypeOK /\ PimTypeOK

(***************************************************************************)
(* A request that spoke with Microsoft between two transactions changes    *)
(* something only if nothing it relied on has changed meanwhile, not even  *)
(* there and back again, and only once: publications of a connector,       *)
(* consents, verifications and synchronisations, collections of roles and  *)
(* of their schedules, and the control of the former are all clients of    *)
(* the fence.                                                              *)
(***************************************************************************)
Fenced ==
  /\ PublisherFence!Spec
  /\ ConsentFence!Spec
  /\ CheckFence!Spec
  /\ CollectorFence!Spec
  /\ ControlFence!Spec
  /\ PimFence!Spec

(***************************************************************************)
(* Of all the consent links that were given out at most one can still      *)
(* change the connection; while it can, the connection waits for it and no *)
(* role collection is in flight.  Of the loads of one callback page at     *)
(* most one talks to Microsoft, the one whose claim is stored              *)
(* (issueConsentOperation, claimConsentOperation).                         *)
(***************************************************************************)
OneConsentOpen ==
  /\ \A o \in Consents : Open(o) =>
       /\ connection.status = "PENDING_CONSENT"
       /\ roles.attempt = NoAttempt
       /\ \A other \in Consents : Open(other) => other = o
  /\ \A o \in Consents, b \in Browsers :
       callback[o][b].at \in {"verifying", "finishing", "orphaned"} =>
         operation[o].state = None \/ (operation[o].state = "CLAIMED" /\ operation[o].claim = b)

(***************************************************************************)
(* The effects of an operation are shown at most once, whichever load of   *)
(* the callback page shows them and whatever older instances publish in    *)
(* between, and its success never closes an incident that was published    *)
(* after the operation ended (applyManagedConsentEffects).                 *)
(***************************************************************************)
EffectsOnce ==
  \A o \in Consents :
    /\ applied[o] <= 1
    /\ notices["connection"].resolvedBy = o /\ operation[o].state # None =>
         notices["connection"].occurrence = operation[o].snapshot["connection"]

(***************************************************************************)
(* What the operator is told of his configuration: "published" only if it  *)
(* was in force, "superseded" at the first submission only if it never     *)
(* was, and never that his fresh revision was in use already.              *)
(***************************************************************************)
AnswersTruthful ==
  \A p \in Publishers :
    /\ draft[p].answer \in {"published", "replayed"} => p \in revisions
    /\ draft[p].answer = "superseded" /\ ~draft[p].retried => p \notin revisions
    /\ draft[p].answer # "conflict"

(***************************************************************************)
(* Completed evidence is retained under the identity it was collected      *)
(* with.  Once it is not current it never becomes current again; only a    *)
(* new completion is (invalidateRoles: never current).                     *)
(***************************************************************************)
EvidenceNotRevived ==
  [][ReceiptCurrent' /\ ~ReceiptCurrent => roles'.complete # roles.complete]_vars

(***************************************************************************)
(* The reader says "current" only of rows that were current when it read   *)
(* them, although it reads the authority in a later statement.             *)
(***************************************************************************)
ReaderTruthful == \A r \in Readers : reader[r].at = "current" => reader[r].was
=============================================================================
