--------------------------- MODULE DirectoryRoles ---------------------------
(***************************************************************************)
(* The collection of directory role assignments of a managed tenant:       *)
(* backend/src/tenants/directory-role-receipt-store.ts, the collector, and *)
(* the reader that says whether what is stored may be presented as current.*)
(***************************************************************************)
EXTENDS TenantContext

CONSTANTS
  Collectors,  \* runs of the collector
  Controls,    \* requests that switch the collection on or off, or remove the tenant
  Readers      \* requests that show the stored roles

VARIABLES
  collector,   \* the attempt each run claimed and where it stands
  control,     \* what each control request read and where it stands
  reader       \* what each reader found and what it answered

roleVars == <<collector, control, reader>>

NoCollection == [at |-> "new", connection |-> 0, configuration |-> None, scope |-> 0]
NothingRead == [at |-> "new", configuration |-> None, bound |-> FALSE, was |-> FALSE]

DirectoryRolesInit ==
  /\ collector = [k \in Collectors |-> NoCollection]
  /\ control = [d \in Controls |-> [at |-> "new", context |-> None]]
  /\ reader = [r \in Readers |-> NothingRead]

-----------------------------------------------------------------------------
(* captureRoleAttempt.  A live attempt under the same configuration keeps  *)
(* others out; any other attempt is replaced.                              *)

Running == roles.attempt.outcome = "RUNNING"

CaptureRoleAttempt(k) ==
  /\ collector[k].at = "new"
  /\ Usable /\ Immutable
  /\ roles.enabled /\ connection.incarnation # 0
  /\ IF Running /\ roles.attempt.configuration = authority.revision /\ roles.attempt.live
     THEN /\ collector' = [collector EXCEPT ![k].at = "busy"]
          /\ UNCHANGED roles
     ELSE /\ collector' = [collector EXCEPT ![k] =
               [at |-> "collecting", connection |-> connection.incarnation,
                configuration |-> authority.revision, scope |-> roles.scope]]
          /\ roles' = [roles EXCEPT !.attempt =
               [id |-> k, connection |-> connection.incarnation,
                configuration |-> authority.revision, scope |-> roles.scope,
                outcome |-> "RUNNING", live |-> TRUE]]
  /\ UNCHANGED <<tenant, connection, control, reader>>

\* ROLE_ATTEMPT_MS runs out.
LapseAttempt ==
  /\ Running /\ roles.attempt.live
  /\ roles' = [roles EXCEPT !.attempt.live = FALSE]
  /\ UNCHANGED <<tenant, connection, roleVars>>

\* Defect: the attempt is not asked whose it is.
Owned_ByContext(k) ==
  /\ authority.revision = collector[k].configuration
  /\ Usable
  /\ connection.incarnation = collector[k].connection
  /\ roles.scope = collector[k].scope /\ roles.enabled

\* underAuthority, lockScope, matches and owns.
Owned(k) ==
  /\ authority.revision = collector[k].configuration
  /\ Usable
  /\ connection.incarnation = collector[k].connection
  /\ roles.scope = collector[k].scope /\ roles.enabled
  /\ roles.attempt.id = k /\ Running
  /\ roles.attempt.connection = collector[k].connection
  /\ roles.attempt.configuration = collector[k].configuration
  /\ roles.attempt.scope = collector[k].scope

End(k, at) == collector' = [collector EXCEPT ![k] = [NoCollection EXCEPT !.at = at]]

Settle(k, outcome) ==
  /\ roles' = [roles EXCEPT !.attempt.outcome = outcome]
  /\ End(k, "ended")

\* finishRoleAttempt, after the provider failed or answered in part.
FinishRoleAttempt(k) ==
  /\ collector[k].at = "collecting"
  /\ Owned(k)
  /\ \E outcome \in {"FAILED", "PARTIAL"} :
       Settle(k, IF roles.attempt.live THEN outcome ELSE "EXPIRED")
  /\ UNCHANGED <<tenant, connection, control, reader>>

\* completeRoleAttempt: the snapshot and the receipt, unless the attempt expired.
CompleteRoleAttempt(k) ==
  /\ collector[k].at = "collecting"
  /\ Owned(k)
  /\ \/ /\ ~roles.attempt.live
        /\ Settle(k, "EXPIRED")
     \/ /\ roles.attempt.live
        /\ roles' = [roles EXCEPT !.attempt.outcome = "COMPLETE",
                                  !.complete = [id |-> k, connection |-> collector[k].connection,
                                                configuration |-> collector[k].configuration,
                                                scope |-> collector[k].scope]]
        /\ End(k, "committed")
  /\ UNCHANGED <<tenant, connection, control, reader>>

\* Refused for a changed authority, connection, scope or owner; or the run dies.
CollectionLost(k) ==
  /\ collector[k].at = "collecting"
  /\ End(k, "ended")
  /\ UNCHANGED <<tenantVars, control, reader>>

-----------------------------------------------------------------------------
(* The control of the collection by an administrator, who acts on what he  *)
(* was shown.                                                              *)

ReadDirectoryRoleControl(d) ==
  /\ control[d].at = "new"
  /\ Present
  /\ control' = [control EXCEPT ![d] = [at |-> "shown", context |-> ControlContext]]
  /\ UNCHANGED <<tenantVars, collector, reader>>

\* Defect: what the administrator was shown is not compared.
SameControl_Ignored(d) == Present

SameControl(d) == Present /\ control[d].context = ControlContext

Decide(d, at) == control' = [control EXCEPT ![d] = [at |-> at, context |-> None]]

\* activateRoleScope; a connection without an incarnation gets its first.
ActivateRoleScope ==
  /\ Usable /\ Immutable
  /\ connection' = ConnectionWith(connection.status,
                     IF connection.incarnation = 0 THEN NewIncarnation ELSE connection.incarnation)
  /\ roles' = [RolesWithoutAttempt EXCEPT !.enabled = TRUE, !.scope = NewScope]

\* writeRevokedScope
RevokeScope ==
  /\ roles' = [RolesWithoutAttempt EXCEPT !.enabled = FALSE, !.scope = NewScope]
  /\ UNCHANGED connection

SetDirectoryRoleControl(d) ==
  /\ control[d].at = "shown"
  /\ SameControl(d)
  /\ ActivateRoleScope \/ RevokeScope
  /\ Decide(d, "changed")
  /\ UNCHANGED <<tenant, collector, reader>>

\* Superseded, refused because nothing usable can be switched on, or given up.
ControlRefused(d) ==
  /\ control[d].at = "shown"
  /\ Decide(d, "refused")
  /\ UNCHANGED <<tenantVars, collector, reader>>

RemoveManagedDirectoryTenant(d) ==
  /\ control[d].at = "shown"
  /\ SameControl(d)
  /\ RemoveTenant
  /\ Decide(d, "changed")
  /\ UNCHANGED <<collector, reader>>

-----------------------------------------------------------------------------
(* readDirectoryRoleResults: one statement reads the rows of the tenant, a *)
(* later one the authority.                                                *)

\* The receipt is bound to the scope and the connection, and they are usable.
ReceiptBound ==
  /\ Usable /\ connection.incarnation # 0
  /\ roles.enabled /\ roles.scope # 0
  /\ roles.complete.id # None
  /\ roles.complete.scope = roles.scope
  /\ roles.complete.connection = connection.incarnation

\* What is stored may be presented as a current success.
ReceiptCurrent ==
  ReceiptBound /\ Immutable /\ roles.complete.configuration = authority.revision

ReadRoleRows(r) ==
  /\ reader[r].at = "new"
  /\ reader' = [reader EXCEPT ![r] =
       [at |-> "rows", configuration |-> roles.complete.configuration,
        bound |-> ReceiptBound, was |-> ReceiptCurrent]]
  /\ UNCHANGED <<tenantVars, collector, control>>

\* Defect: the configuration of the receipt is not compared.
ReadRoleAuthority_AnyConfiguration(r) ==
  /\ reader[r].at = "rows"
  /\ reader' = [reader EXCEPT ![r].at = IF reader[r].bound /\ Immutable
                                        THEN "current" ELSE "superseded"]
  /\ UNCHANGED <<tenantVars, collector, control>>

ReadRoleAuthority(r) ==
  /\ reader[r].at = "rows"
  /\ reader' = [reader EXCEPT ![r].at =
       IF /\ reader[r].bound /\ Immutable
          /\ reader[r].configuration = authority.revision
       THEN "current" ELSE "superseded"]
  /\ UNCHANGED <<tenantVars, collector, control>>

DirectoryRolesStep ==
  \/ \E k \in Collectors : \/ CaptureRoleAttempt(k) \/ FinishRoleAttempt(k)
                           \/ CompleteRoleAttempt(k) \/ CollectionLost(k)
  \/ LapseAttempt
  \/ \E d \in Controls : \/ ReadDirectoryRoleControl(d) \/ SetDirectoryRoleControl(d)
                         \/ ControlRefused(d)
  \/ \E r \in Readers : ReadRoleRows(r) \/ ReadRoleAuthority(r)
=============================================================================
