---------------------------- MODULE TenantContext ----------------------------
(***************************************************************************)
(* The rows of one managed customer tenant on which its consents,          *)
(* verifications and role collections meet: customer_tenants,              *)
(* tenant_connections and the DIRECTORY_ROLES row of sync_states.          *)
(*                                                                         *)
(* Every transaction that uses them locks them in one order, the authority *)
(* first, then the tenant, the connection and the roles, and holds the     *)
(* locks until its commit.  What a request learnt from them before it      *)
(* talked to Microsoft it has to find again under the locks: that is what  *)
(* the incarnations are for.  They are random identifiers; here they are    *)
(* numbers, and a new one is the successor of the one it replaces, which   *)
(* nobody can hold yet.                                                    *)
(***************************************************************************)
EXTENDS ManagedAuthority

VARIABLES
  tenant,      \* customer_tenants.status, REMOVED once the row is deleted
  connection,  \* the row of tenant_connections
  roles        \* the DIRECTORY_ROLES row of sync_states

tenantVars == <<tenant, connection, roles>>

(***************************************************************************)
(* A collection attempt and the completed receipt are bound to the         *)
(* connection, the configuration and the scope they were claimed under.    *)
(* Incarnation and scope 0 stand for NULL.                                 *)
(***************************************************************************)
NoAttempt == [id |-> None, connection |-> 0, configuration |-> None, scope |-> 0,
              outcome |-> None, live |-> FALSE]
NoReceipt == [id |-> None, connection |-> 0, configuration |-> None, scope |-> 0]

\* A tenant from before the migration, or one discovered a moment ago.
TenantInit ==
  /\ tenant \in {"ACTIVE", "PENDING"}
  /\ connection = [status |-> IF tenant = "ACTIVE" THEN "CONNECTED" ELSE "PENDING_CONSENT",
                   incarnation |-> 0, version |-> 0, exchange |-> FALSE]
  /\ roles = [scope |-> 0, enabled |-> FALSE, attempt |-> NoAttempt, complete |-> NoReceipt]

Present == tenant # "REMOVED"
Usable == tenant = "ACTIVE" /\ connection.status = "CONNECTED"

NewIncarnation == connection.incarnation + 1
NewScope == roles.scope + 1

\* Defect: a connection in error loses its incarnation.
ConnectionWith_Cleared(status, incarnation) ==
  [connection EXCEPT !.status = status, !.version = @ + 1,
                     !.incarnation = IF status = "ERROR" THEN None ELSE incarnation]

\* A write of tenant_connections also moves updated_at.
ConnectionWith(status, incarnation) ==
  [status |-> status, incarnation |-> incarnation, version |-> connection.version + 1,
   exchange |-> connection.exchange]

\* invalidateRoles: no attempt is in flight; completed evidence stays where it is.
RolesWithoutAttempt == [roles EXCEPT !.attempt = NoAttempt]

\* What an administrator sees of the roles, and has to find again to change them.
ControlContext == <<authority.revision, connection.incarnation, roles.scope, roles.enabled>>

\* removeManagedDirectoryTenant: everything of the tenant goes with its row.
RemoveTenant ==
  /\ tenant' = "REMOVED"
  /\ connection' = ConnectionWith("REVOKED", NewIncarnation)
  /\ roles' = [scope |-> NewScope, enabled |-> FALSE, attempt |-> NoAttempt, complete |-> NoReceipt]
=============================================================================
