-------------------------- MODULE ConsentOperations --------------------------
(***************************************************************************)
(* The consent of the administrator of an existing managed tenant:         *)
(* backend/src/microsoft/consent-operation-store.ts, what                  *)
(* managed-consent-effects.ts shows of its outcome, and their callers in   *)
(* tenants.service.ts.                                                     *)
(*                                                                         *)
(* Issuing an operation puts the connection into PENDING_CONSENT under a   *)
(* new incarnation.  The browser comes back from Microsoft with a callback,*)
(* perhaps more than once, perhaps late, perhaps after the connector or    *)
(* the connection changed.                                                 *)
(***************************************************************************)
EXTENDS TenantContext

CONSTANTS
  Consents,    \* requests for a consent link
  Browsers,    \* the loads of the callback page of one consent
  MaxLegacy    \* bound: how often an older instance publishes a notice

ASSUME LegacyAssumption == MaxLegacy \in Nat
ASSUME ConsentsAssumption == None \notin Consents

VARIABLES
  asked,       \* what each request for a link knows and where it stands
  operation,   \* the rows of microsoft_consent_attempts
  callback,    \* where each load of the callback page stands
  notices,     \* the two notifications of the connection
  legacy,      \* how often an older instance has published one
  applied,     \* history: how often the effects of an operation were applied
  concluded    \* history: the operations that changed the connection

consentVars == <<asked, operation, callback, notices, legacy, applied, concluded>>

Terminal == {"SUCCEEDED", "FAILED", "SUPERSEDED", "EXPIRED"}
Verdicts == {"SUCCEEDED", "FAILED"}
Keys == {"connection", "authorized"}

NoOperation == [state |-> None, configuration |-> None, connection |-> 0, claim |-> None,
                result |-> 0, snapshot |-> None, live |-> FALSE]
NewAsk == [at |-> "new", incarnation |-> 0, configuration |-> None]

\* occurrence identifies id, occurrence_count and last_occurred_at together.
NoNotice == [occurrence |-> 0, by |-> None, resolvedBy |-> None]
Occurrences == [k \in Keys |-> notices[k].occurrence]

ConsentInit ==
  /\ asked = [o \in Consents |-> NewAsk]
  /\ operation = [o \in Consents |-> NoOperation]
  /\ callback = [o \in Consents |-> [b \in Browsers |-> [at |-> "new", verdict |-> None]]]
  /\ notices = [k \in Keys |-> NoNotice]
  /\ legacy = 0
  /\ applied = [o \in Consents |-> 0]
  /\ concluded = {}

-----------------------------------------------------------------------------
(* A link is issued in three steps: the tenant is looked up, the authority *)
(* is captured, and the operation is inserted under both.                  *)

Answer(at) == [NewAsk EXCEPT !.at = at]

LookUp(o) ==
  /\ asked[o].at = "new"
  /\ Present
  /\ asked' = [asked EXCEPT ![o].at = "found", ![o].incarnation = connection.incarnation]
  /\ UNCHANGED <<operation, callback, notices, legacy, applied, concluded, tenantVars>>

Prepare(o) ==
  /\ asked[o].at = "found"
  /\ asked' = IF Immutable
              THEN [asked EXCEPT ![o].at = "prepared", ![o].configuration = authority.revision]
              ELSE [asked EXCEPT ![o] = Answer("refused")]
  /\ UNCHANGED <<operation, callback, notices, legacy, applied, concluded, tenantVars>>

Issuable(o) ==
  /\ authority.revision = asked[o].configuration
  /\ Immutable
  /\ Present
  /\ connection.status # "REVOKED"
  /\ connection.incarnation = asked[o].incarnation

\* Defect: the connection keeps its incarnation.
Issue_NotRotated(o) ==
  /\ asked[o].at = "prepared"
  /\ Issuable(o)
  /\ asked' = [asked EXCEPT ![o] = Answer("issued")]
  /\ operation' = [operation EXCEPT ![o] =
       [NoOperation EXCEPT !.state = "ISSUED", !.configuration = authority.revision,
                           !.connection = connection.incarnation, !.live = TRUE]]
  /\ connection' = ConnectionWith("PENDING_CONSENT", connection.incarnation)
  /\ roles' = RolesWithoutAttempt
  /\ UNCHANGED <<tenant, callback, notices, legacy, applied, concluded>>

Issue(o) ==
  /\ asked[o].at = "prepared"
  /\ Issuable(o)
  /\ asked' = [asked EXCEPT ![o] = Answer("issued")]
  /\ operation' = [operation EXCEPT ![o] =
       [NoOperation EXCEPT !.state = "ISSUED", !.configuration = authority.revision,
                           !.connection = NewIncarnation, !.live = TRUE]]
  /\ connection' = ConnectionWith("PENDING_CONSENT", NewIncarnation)
  /\ roles' = RolesWithoutAttempt
  /\ UNCHANGED <<tenant, callback, notices, legacy, applied, concluded>>

IssueRefused(o) ==
  /\ asked[o].at = "prepared"
  /\ ~Issuable(o)
  /\ asked' = [asked EXCEPT ![o] = Answer("refused")]
  /\ UNCHANGED <<operation, callback, notices, legacy, applied, concluded, tenantVars>>

\* CONSENT_ENTRY_MS runs out before the claim, or CONSENT_FINAL_MS after it.
Lapse(o) ==
  /\ operation[o].live
  /\ operation' = [operation EXCEPT ![o].live = FALSE]
  /\ UNCHANGED <<asked, callback, notices, legacy, applied, concluded, tenantVars>>

-----------------------------------------------------------------------------
(* The callback: claim, verify at Microsoft, finish, show the effects.     *)

Standing(o, b, at) ==
  /\ callback' = [callback EXCEPT ![o][b] = [at |-> at, verdict |-> None]]
  /\ UNCHANGED <<asked, notices, legacy, applied>>

\* endWithoutAuthority
EndAlone(o, state) ==
  operation' = [operation EXCEPT ![o].state = state, ![o].live = FALSE]

\* Defect: a claim in progress is claimed again.
ClaimConsentOperation_Shared(o, b) ==
  /\ asked[o].at = "issued"
  /\ callback[o][b].at = "new"
  /\ IF operation[o].state \in {"ISSUED", "CLAIMED"} /\ operation[o].live
     THEN /\ operation' = [operation EXCEPT ![o].state = "CLAIMED", ![o].claim = b]
          /\ Standing(o, b, "verifying")
     ELSE UNCHANGED operation /\ Standing(o, b, "effects")
  /\ UNCHANGED <<tenantVars, concluded>>

ClaimConsentOperation(o, b) ==
  /\ asked[o].at = "issued"
  /\ callback[o][b].at = "new"
  /\ \/ /\ operation[o].state = "ISSUED" /\ operation[o].live
        /\ operation' = [operation EXCEPT ![o].state = "CLAIMED", ![o].claim = b]
        /\ Standing(o, b, "verifying")
     \/ /\ operation[o].state = "ISSUED" /\ ~operation[o].live
        /\ EndAlone(o, "EXPIRED")
        /\ Standing(o, b, "effects")
     \/ /\ operation[o].state \in Terminal
        /\ UNCHANGED operation
        /\ Standing(o, b, "effects")
     \/ /\ operation[o].state \in {"CLAIMED", None}   \* BUSY, UNTRUSTED
        /\ UNCHANGED operation
        /\ Standing(o, b, "done")
  /\ UNCHANGED <<tenantVars, concluded>>

\* A denial, another tenant, missing permissions or a failing check: all FAILED.
VerifyConsent(o, b) ==
  /\ callback[o][b].at = "verifying"
  /\ \E verdict \in Verdicts :
       callback' = [callback EXCEPT ![o][b] = [at |-> "finishing", verdict |-> verdict]]
  /\ UNCHANGED <<asked, operation, notices, legacy, applied, concluded, tenantVars>>

\* Defect: the connection is not compared with the one of the operation.
StillExpected_AnyConnection(o) ==
  Present /\ connection.status = "PENDING_CONSENT"

\* The connection is still the one that the operation left behind.
StillExpected(o) ==
  /\ Present
  /\ connection.status = "PENDING_CONSENT"
  /\ connection.incarnation = operation[o].connection

Conclude(o, verdict) ==
  /\ tenant' = IF verdict = "SUCCEEDED" THEN "ACTIVE" ELSE tenant
  /\ connection' = ConnectionWith(IF verdict = "SUCCEEDED" THEN "CONNECTED" ELSE "ERROR",
                                  NewIncarnation)
  /\ roles' = RolesWithoutAttempt
  /\ operation' = [operation EXCEPT ![o] =
       [state |-> verdict, configuration |-> @.configuration, connection |-> @.connection,
        claim |-> @.claim, result |-> NewIncarnation, snapshot |-> Occurrences, live |-> FALSE]]
  /\ concluded' = concluded \cup {o}

\* finishConsentOperation while the configuration of the operation is in force.
FinishConsentOperation(o, b) ==
  /\ callback[o][b].at = "finishing"
  /\ operation[o].state = "CLAIMED"
  /\ operation[o].configuration = authority.revision
  /\ \/ /\ operation[o].live /\ StillExpected(o)
        /\ Conclude(o, callback[o][b].verdict)
     \/ /\ ~operation[o].live
        /\ EndAlone(o, "EXPIRED")
        /\ UNCHANGED <<tenantVars, concluded>>
     \/ /\ operation[o].live /\ ~StillExpected(o)
        /\ EndAlone(o, "SUPERSEDED")
        /\ UNCHANGED <<tenantVars, concluded>>
  /\ Standing(o, b, "effects")

\* It is not: the transaction ends, and another one terminates the operation alone.
FinishSuperseded(o, b) ==
  /\ callback[o][b].at = "finishing"
  /\ operation[o].state = "CLAIMED"
  /\ operation[o].configuration # authority.revision
  /\ Standing(o, b, "orphaned")
  /\ UNCHANGED <<operation, tenantVars, concluded>>

FinishAlone(o, b) ==
  /\ callback[o][b].at = "orphaned"
  /\ operation[o].state = "CLAIMED"
  /\ EndAlone(o, IF operation[o].live THEN "SUPERSEDED" ELSE "EXPIRED")
  /\ Standing(o, b, "effects")
  /\ UNCHANGED <<tenantVars, concluded>>

\* The tenant, and the operation with it, are gone: UNTRUSTED.
FinishUntrusted(o, b) ==
  /\ callback[o][b].at \in {"finishing", "orphaned"}
  /\ operation[o].state = None
  /\ Standing(o, b, "done")
  /\ UNCHANGED <<operation, tenantVars, concluded>>

\* The process dies, or the answer of its last commit is lost.
CallbackDies(o, b) ==
  /\ callback[o][b].at \in {"verifying", "finishing", "orphaned", "effects"}
  /\ Standing(o, b, "done")
  /\ UNCHANGED <<operation, tenantVars, concluded>>

-----------------------------------------------------------------------------
(* applyManagedConsentEffects                                              *)

Target(o) == IF operation[o].state = "SUCCEEDED" THEN "authorized" ELSE "connection"

EffectsAdmitted(o) ==
  /\ operation[o].state \in Verdicts
  /\ operation[o].configuration = authority.revision
  /\ Present
  /\ connection.incarnation = operation[o].result
  /\ connection.status = IF operation[o].state = "SUCCEEDED" THEN "CONNECTED" ELSE "ERROR"

\* Defect: the effects are not compared with the occurrences of the terminal write.
EffectsFirst_NoSnapshot(o) == notices[Target(o)].by # o

\* Not a replay, and both notices are exactly those of the terminal write.
EffectsFirst(o) ==
  /\ notices[Target(o)].by # o
  /\ Occurrences = operation[o].snapshot

NewOccurrence == 1 + notices["connection"].occurrence + notices["authorized"].occurrence

ShowEffects(o) ==
  LET success == operation[o].state = "SUCCEEDED"
      shown == [notices EXCEPT ![Target(o)] =
                  [occurrence |-> NewOccurrence, by |-> o, resolvedBy |-> None]]
      open == notices["connection"].occurrence # 0 /\ notices["connection"].resolvedBy = None
  IN /\ notices' = IF success /\ open
                   THEN [shown EXCEPT !["connection"].resolvedBy = o] ELSE shown
     /\ applied' = [applied EXCEPT ![o] = @ + 1]

(***************************************************************************)
(* Stale otherwise; also when the clocks cannot order an occurrence before *)
(* the terminal write, and "unavailable" when the database fails.          *)
(***************************************************************************)
ApplyEffects(o, b) ==
  /\ callback[o][b].at = "effects"
  /\ \/ EffectsAdmitted(o) /\ EffectsFirst(o) /\ ShowEffects(o)
     \/ UNCHANGED <<notices, applied>>
  /\ callback' = [callback EXCEPT ![o][b] = [at |-> "done", verdict |-> None]]
  /\ UNCHANGED <<asked, operation, legacy, concluded, tenantVars>>

\* publishIncident of an instance that is still draining takes none of the locks.
LegacyPublishes(k) ==
  /\ Present /\ legacy < MaxLegacy
  /\ notices' = [notices EXCEPT ![k] = [occurrence |-> NewOccurrence, by |-> None, resolvedBy |-> None]]
  /\ legacy' = legacy + 1
  /\ UNCHANGED <<asked, operation, callback, applied, concluded, tenantVars>>

\* The rows that are deleted together with the tenant; notices stay.
ForgetConsents ==
  /\ operation' = [o \in Consents |-> NoOperation]
  /\ UNCHANGED <<asked, callback, notices, legacy, applied, concluded>>

ConsentStep ==
  \/ \E o \in Consents : LookUp(o) \/ Prepare(o) \/ Issue(o) \/ IssueRefused(o) \/ Lapse(o)
  \/ \E o \in Consents, b \in Browsers :
       \/ ClaimConsentOperation(o, b) \/ VerifyConsent(o, b)
       \/ FinishConsentOperation(o, b) \/ FinishSuperseded(o, b) \/ FinishAlone(o, b)
       \/ FinishUntrusted(o, b) \/ CallbackDies(o, b) \/ ApplyEffects(o, b)
  \/ \E k \in Keys : LegacyPublishes(k)
=============================================================================
