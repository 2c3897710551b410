-------------------------- MODULE ManagedAuthority --------------------------
(***************************************************************************)
(* The one connector through which every managed tenant is read, and the   *)
(* requests that replace it: backend/src/microsoft/                        *)
(* managed-connector-authority.ts and its caller, configureManagedConnector*)
(* of microsoft-consent.service.ts.                                        *)
(*                                                                         *)
(* Every transaction takes the advisory lock of the authority first,       *)
(* shared to use it and exclusively to replace it, and keeps it until the  *)
(* commit; each transaction is therefore one action.  What is said to      *)
(* Microsoft is said between transactions.                                 *)
(***************************************************************************)
EXTENDS Naturals

CONSTANTS
  Publishers,  \* requests of the operator that configure a new connector
  None

ASSUME PublishersAssumption == Publishers \cap {None, "absent", "legacy", "upgraded"} = {}
ASSUME NoneAssumption ==
  /\ None \notin {"ISSUED", "CLAIMED", "SUCCEEDED", "FAILED", "SUPERSEDED", "EXPIRED"}
  /\ None \notin {"refused", "published", "replayed", "superseded", "conflict"}
  /\ None \notin {"RUNNING", "IN_FLIGHT"}

VARIABLES
  authority,   \* the row of platform_microsoft_connectors
  revisions,   \* managed_connector_authority_revisions and the sealed secrets
  draft        \* what each configuration request knows and where it stands

authorityVars == <<authority, revisions, draft>>

(***************************************************************************)
(* A row older than the migration has a revision, but its credential is a  *)
(* mutable secret; a published one refers to the secret sealed for exactly *)
(* its revision, and remembers the request that published it.  The revision*)
(* and the name of a request are random identifiers made for that request: *)
(* both are written as the request.                                        *)
(***************************************************************************)
NoAuthority == [revision |-> "absent", immutable |-> FALSE, operation |-> None]
LegacyAuthority == [NoAuthority EXCEPT !.revision = "legacy"]
Configured == authority.revision # "absent"
Immutable == authority.immutable

NewDraft == [at |-> "new", expected |-> "absent", retried |-> FALSE, answer |-> None]

AuthorityInit ==
  /\ authority \in {NoAuthority, LegacyAuthority}
  /\ revisions = {}
  /\ draft = [p \in Publishers |-> NewDraft]

-----------------------------------------------------------------------------
(* A configuration request captures the authority before it asks Microsoft *)
(* and never again, so that what it found stale stays stale.               *)

CapturePublication(p) ==
  /\ draft[p].at = "new"
  /\ draft' = [draft EXCEPT ![p].at = "verifying", ![p].expected = authority.revision]
  /\ UNCHANGED <<authority, revisions>>

VerifyPublication(p) ==
  /\ draft[p].at = "verifying"
  /\ \/ draft' = [draft EXCEPT ![p].at = "sending"]
     \/ draft' = [draft EXCEPT ![p].at = "done", ![p].answer = "refused"]
  /\ UNCHANGED <<authority, revisions>>

\* The writes of publishManagedAuthority, in one transaction.
Install(operation, revision) ==
  /\ authority' = [revision |-> revision, immutable |-> TRUE, operation |-> operation]
  /\ revisions' = (revisions \cup {authority.revision, revision}) \ {"absent"}

\* Defect: a stale publication goes through.
PublicationAnswer_Unchecked(p) ==
  IF authority.operation = p THEN "replayed"
  ELSE IF p \in revisions THEN "conflict" ELSE "published"

\* What publishManagedAuthority answers a submission of p.
PublicationAnswer(p) ==
  IF authority.operation = p THEN "replayed"
  ELSE IF authority.revision # draft[p].expected THEN "superseded"
  ELSE IF p \in revisions THEN "conflict"
  ELSE "published"

\* The answer arrives, or it is lost and the same publication is submitted again,
\* for which the replay is there; configureManagedConnector itself does not retry.
Answered(p, answer) ==
  \/ draft' = [draft EXCEPT ![p].at = "done", ![p].answer = answer]
  \/ /\ ~draft[p].retried
     /\ draft' = [draft EXCEPT ![p].retried = TRUE]

Publish(p) ==
  /\ draft[p].at = "sending"
  /\ IF PublicationAnswer(p) = "published"
     THEN Install(p, p)
     ELSE UNCHANGED <<authority, revisions>>
  /\ Answered(p, PublicationAnswer(p))

PublisherStep(p) == CapturePublication(p) \/ VerifyPublication(p) \/ Publish(p)

-----------------------------------------------------------------------------
(* upgradeLegacyManagedAuthority: the first synchronisation that meets the *)
(* legacy row seals a copy of its secret under a new revision.             *)

UpgradeLegacy ==
  /\ Configured /\ ~Immutable
  /\ Install(None, "upgraded")
  /\ UNCHANGED draft
=============================================================================
