----------------------- MODULE ConnectionVerification -----------------------
(***************************************************************************)
(* Checks of a managed connection at Microsoft:                            *)
(* backend/src/tenants/connection-verification-store.ts and its callers,   *)
(* the verification an administrator asks for, the callback of a newly     *)
(* discovered tenant, the read-only Exchange consent, and a                *)
(* synchronisation, which refreshes the connection or reports that         *)
(* Microsoft refused it.                                                   *)
(***************************************************************************)
EXTENDS TenantContext

CONSTANT Checks   \* requests and synchronisations that check the connection

VARIABLE check    \* what each of them captured and where it stands

CheckKinds == {"verify", "discover", "exchange", "sync"}

NoCheck == [at |-> "new", kind |-> None, version |-> 0, incarnation |-> 0,
            configuration |-> None, scope |-> 0, enabled |-> FALSE]

VerificationInit == check = [v \in Checks |-> NoCheck]

(***************************************************************************)
(* The captured context.  updated_at of the tenant and of the connection   *)
(* is the version; a plain verification does not capture the role scope.   *)
(***************************************************************************)
Captured(kind) ==
  [at |-> "captured", kind |-> kind, version |-> connection.version,
   incarnation |-> connection.incarnation, configuration |-> authority.revision,
   scope |-> IF kind = "verify" THEN 0 ELSE roles.scope,
   enabled |-> IF kind = "verify" THEN FALSE ELSE roles.enabled]

CaptureConnectionVerification(v) ==
  /\ check[v].at = "new"
  /\ Present /\ connection.status # "REVOKED"
  /\ Immutable
  /\ \E kind \in CheckKinds :
       /\ kind = "sync" => Usable
       /\ check' = [check EXCEPT ![v] = Captured(kind)]
  /\ UNCHANGED tenantVars

\* Defect: only the incarnation of the connection is compared.
SameCapturedContext_Incarnation(v) ==
  /\ Present /\ connection.status # "REVOKED"
  /\ check[v].incarnation = connection.incarnation

\* sameCapturedContext and sameCapturedScope
SameCapturedContext(v) ==
  /\ Present /\ connection.status # "REVOKED"
  /\ Immutable
  /\ Captured(check[v].kind) = check[v]

Report(v, answer) == check' = [check EXCEPT ![v] = [NoCheck EXCEPT !.at = answer]]

\* Defect: a published verification leaves the incarnation as it was.
Publication_NotRotated(connected) ==
  /\ tenant' = IF connected THEN "ACTIVE" ELSE "SUSPENDED"
  /\ connection' = ConnectionWith(IF connected THEN "CONNECTED" ELSE "ERROR",
                                  connection.incarnation)
  /\ roles' = RolesWithoutAttempt

\* The writes of publishConnectionVerification.
Publication(connected) ==
  /\ tenant' = IF connected THEN "ACTIVE" ELSE "SUSPENDED"
  /\ connection' = ConnectionWith(IF connected THEN "CONNECTED" ELSE "ERROR",
                                  NewIncarnation)
  /\ roles' = RolesWithoutAttempt

\* Verified, verified with permissions missing, or failed.
PublishConnectionVerification(v) ==
  /\ check[v].at = "captured"
  /\ SameCapturedContext(v)
  /\ \/ check[v].kind \in {"verify", "discover"} /\ \E connected \in BOOLEAN : Publication(connected)
     \/ check[v].kind \in {"sync", "refreshed"} /\ Publication(FALSE)
  /\ Report(v, "applied")

\* publishCapturedConnectionRefresh: a new grant rotates, a time stamp does not; a
\* synchronisation goes on with what it has written.
PublishCapturedConnectionRefresh(v) ==
  /\ check[v].at = "captured"
  /\ SameCapturedContext(v)
  /\ \/ /\ check[v].kind = "exchange" /\ ~connection.exchange
        /\ connection' = [ConnectionWith(connection.status, NewIncarnation) EXCEPT !.exchange = TRUE]
        /\ roles' = RolesWithoutAttempt
        /\ Report(v, "applied")
     \/ /\ check[v].kind = "exchange" /\ connection.exchange
        /\ connection' = ConnectionWith(connection.status, connection.incarnation)
        /\ UNCHANGED roles
        /\ Report(v, "applied")
     \/ /\ check[v].kind = "sync"
        /\ connection' = ConnectionWith(connection.status, connection.incarnation)
        /\ UNCHANGED roles
        /\ check' = [check EXCEPT ![v].kind = "refreshed", ![v].version = connection'.version]
  /\ UNCHANGED tenant

VerificationSuperseded(v) ==
  /\ check[v].at = "captured"
  /\ ~SameCapturedContext(v)
  /\ Report(v, "superseded")
  /\ UNCHANGED tenantVars

\* The credentials cannot be read, the process dies, Microsoft does not answer.
VerificationStops(v) ==
  /\ check[v].at = "captured"
  /\ Report(v, "stopped")
  /\ UNCHANGED tenantVars

VerificationStep ==
  \E v \in Checks :
    \/ CaptureConnectionVerification(v) \/ PublishConnectionVerification(v)
    \/ PublishCapturedConnectionRefresh(v) \/ VerificationSuperseded(v)
    \/ VerificationStops(v)
=============================================================================
