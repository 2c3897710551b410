----------------------- MODULE TenantAuthority_proofs -----------------------
(***************************************************************************)
(* What the compare-and-set of the authority and of the incarnations       *)
(* guarantees, proved for any number of requests of every kind.            *)
(*                                                                         *)
(* The argument has two halves.  Moved says what any step may do to the    *)
(* rows on which the requests meet: revisions, incarnations, versions and  *)
(* scopes are never used again.  Behind says that what a request captured  *)
(* is not ahead of the rows.  Together a captured context that no longer   *)
(* describes the rows never describes them again.                          *)
(***************************************************************************)
EXTENDS TenantAuthority, TLAPS

USE PublishersAssumption, NoneAssumption, LegacyAssumption

(* The revisions that are in force, were in force, or stand for none.      *)
Seen == revisions \cup {authority.revision, "absent"}

(* The connector: a published revision is that of its request, and a       *)
(* request that has published cannot be told otherwise.                    *)
AuthorityInv ==
  /\ authority.immutable => authority.revision \in revisions
  /\ ~authority.immutable => authority.revision \in {"absent", "legacy"} /\ revisions = {}
  /\ \A p \in Publishers : authority.revision = p <=> authority.operation = p
  /\ \A p \in Publishers :
       /\ draft[p].expected \in Seen
       /\ p \in revisions => draft[p].at \in {"sending", "done"}
       /\ p \in revisions /\ draft[p].at = "sending" =>
            draft[p].retried /\ draft[p].expected # authority.revision

(* Evidence and the attempt in flight are bound to what has been.          *)
EvidenceInv ==
  roles.complete.id # None =>
    /\ roles.complete.configuration \in revisions
    /\ roles.complete.connection <= connection.incarnation
    /\ roles.complete.scope <= roles.scope

-----------------------------------------------------------------------------
(* What a step may do to the rows on which the requests meet.              *)
AuthorityMoved ==
  /\ revisions \subseteq revisions'
  /\ Seen \subseteq Seen'
  /\ authority' = authority \/ authority'.revision \notin Seen

TenantMoved ==
  /\ Present' => Present
  /\ connection'.incarnation >= connection.incarnation
  /\ connection'.version >= connection.version
  /\ connection' # connection => connection'.version > connection.version
  /\ connection'.incarnation = connection.incarnation =>
       tenant' = tenant /\ connection'.status = connection.status
  /\ roles'.scope >= roles.scope
  /\ roles'.scope = roles.scope => roles'.enabled = roles.enabled

(* Every step but those of the collections leaves an attempt alone or ends *)
(* it.                                                                     *)
AttemptKept == roles'.attempt \in {roles.attempt, NoAttempt}

Moved == AuthorityMoved /\ TenantMoved

-----------------------------------------------------------------------------
(* The connector.                                                          *)
LEMMA PublisherNames ==
  ASSUME NEW p \in Publishers
  PROVE  p # None /\ p \notin {"absent", "legacy", "upgraded"}
OBVIOUS

(* The invariant of the connector holds at the start.                      *)
LEMMA InitAuthority ==
  ASSUME AuthorityInit
  PROVE  AuthorityTypeOK /\ AuthorityInv
<1> USE DEF AuthorityInit, NewDraft
<1>0. /\ NoAuthority.revision = "absent" /\ NoAuthority.operation = None /\ ~NoAuthority.immutable
      /\ NoAuthority \in [revision : Revisions, immutable : BOOLEAN, operation : Nullable(Publishers)]
      /\ "legacy" \in Revisions
  BY DEF NoAuthority, Revisions, Nullable
<1>2. /\ authority.revision \in {"absent", "legacy"} /\ authority.operation = None
      /\ ~authority.immutable
      /\ authority \in [revision : Revisions, immutable : BOOLEAN, operation : Nullable(Publishers)]
  BY <1>0 DEF LegacyAuthority
<1>1. AuthorityTypeOK
  BY <1>2 DEF AuthorityTypeOK, Revisions
<1>3. AuthorityInv
  BY <1>2, PublisherNames DEF AuthorityInv, Seen
<1> QED
  BY <1>1, <1>3

(* A new revision is installed, one that was never in force.               *)
LEMMA InstallMoved ==
  ASSUME AuthorityTypeOK, AuthorityInv,
         NEW operation_ \in Nullable(Publishers), NEW revision \in Revisions,
         Install(operation_, revision), revision \notin Seen
  PROVE  /\ AuthorityMoved
         /\ authority' = [revision |-> revision, immutable |-> TRUE, operation |-> operation_]
         /\ authority' \in [revision : Revisions, immutable : BOOLEAN,
                            operation : Nullable(Publishers)]
         /\ revisions' \subseteq Revisions \ {"absent"}
         /\ revision \in revisions'
         /\ \A p \in Publishers : p \in revisions' => p \in revisions \/ p = revision
BY DEF AuthorityTypeOK, AuthorityInv, Install, AuthorityMoved, Seen

(* An answer that arrives or is lost.                                      *)
LEMMA AnsweredDraft ==
  ASSUME AuthorityTypeOK, NEW p \in Publishers, draft[p].at = "sending",
         Answered(p, PublicationAnswer(p))
  PROVE  /\ draft' \in [Publishers -> [at : {"new", "verifying", "sending", "done"},
                                       expected : Revisions, retried : BOOLEAN,
                                       answer : {None, "refused", "published", "replayed",
                                                 "superseded", "conflict"}]]
         /\ \A q \in Publishers :
              /\ draft'[q].expected = draft[q].expected
              /\ q # p => draft'[q] = draft[q]
              /\ q = p => \/ draft'[q].at = "done" /\ draft'[q].answer = PublicationAnswer(p)
                            /\ draft'[q].retried = draft[q].retried
                         \/ /\ draft'[q].at = "sending" /\ draft'[q].retried
                            /\ draft'[q].answer = draft[q].answer
<1> DEFINE answer == PublicationAnswer(p)
<1>1. answer \in {"published", "replayed", "superseded", "conflict"}
  BY DEF PublicationAnswer
<1>2. Answered(p, answer)
  OBVIOUS
<1> HIDE DEF answer
<1>3. CASE draft' = [draft EXCEPT ![p].at = "done", ![p].answer = answer]
  <2>1. draft'[p] = [draft[p] EXCEPT !.at = "done", !.answer = answer]
    BY <1>3 DEF AuthorityTypeOK
  <2>2. \A q \in Publishers : q # p => draft'[q] = draft[q]
    BY <1>3 DEF AuthorityTypeOK
  <2>3. draft'[p].at = "done" /\ draft'[p].answer = answer
        /\ draft'[p].expected = draft[p].expected /\ draft'[p].retried = draft[p].retried
    BY <2>1 DEF AuthorityTypeOK
  <2>4. draft' \in [Publishers -> [at : {"new", "verifying", "sending", "done"},
                                  expected : Revisions, retried : BOOLEAN,
                                  answer : {None, "refused", "published", "replayed",
                                            "superseded", "conflict"}]]
    BY <1>1, <1>3 DEF AuthorityTypeOK
  <2> QED
    BY <2>2, <2>3, <2>4 DEF answer
<1>4. CASE draft' = [draft EXCEPT ![p].retried = TRUE]
  BY <1>1, <1>4 DEF AuthorityTypeOK
<1> QED
  BY <1>2, <1>3, <1>4 DEF Answered, answer

(* A step of a publication keeps the invariant of the connector.           *)
LEMMA PublisherStepInv ==
  ASSUME AuthorityTypeOK, AuthorityInv, NEW p \in Publishers, PublisherStep(p)
  PROVE  AuthorityTypeOK' /\ AuthorityInv' /\ AuthorityMoved
<1> p \in Revisions /\ p \in Nullable(Publishers) /\ authority.revision \in Revisions
  BY DEF Revisions, Nullable, AuthorityTypeOK
<1>1. CASE CapturePublication(p)
  <2>1. AuthorityTypeOK'
    BY <1>1 DEF CapturePublication, AuthorityTypeOK
  <2>2. AuthorityInv'
    BY <1>1 DEF CapturePublication, AuthorityTypeOK, AuthorityInv, Seen
  <2> QED
    BY <1>1, <2>1, <2>2 DEF CapturePublication, AuthorityMoved, Seen
<1>2. CASE VerifyPublication(p)
  <2>1. AuthorityTypeOK'
    BY <1>2 DEF VerifyPublication, AuthorityTypeOK
  <2>2. AuthorityInv'
    BY <1>2 DEF VerifyPublication, AuthorityTypeOK, AuthorityInv, Seen
  <2> QED
    BY <1>2, <2>1, <2>2 DEF VerifyPublication, AuthorityMoved, Seen
<1>3. CASE Publish(p) /\ PublicationAnswer(p) = "published"
  <2>1. p \notin Seen
    BY <1>3 DEF PublicationAnswer, AuthorityInv, Seen
  <2>2. Install(p, p)
    BY <1>3 DEF Publish
  <2>3. /\ AuthorityMoved
        /\ authority' = [revision |-> p, immutable |-> TRUE, operation |-> p]
        /\ authority' \in [revision : Revisions, immutable : BOOLEAN,
                           operation : Nullable(Publishers)]
        /\ revisions' \subseteq Revisions \ {"absent"}
        /\ p \in revisions'
        /\ \A q \in Publishers : q \in revisions' => q \in revisions \/ q = p
    BY <2>1, <2>2, InstallMoved
  <2>4. \A q \in Publishers : draft[q].expected \in Seen
    BY DEF AuthorityInv
  <2>5. AuthorityTypeOK'
    BY <1>3, <2>3, AnsweredDraft DEF Publish, AuthorityTypeOK
  <2>6. \A q \in Publishers :
          /\ draft'[q].expected = draft[q].expected
          /\ q # p => draft'[q] = draft[q]
          /\ q = p => draft'[q].at = "done" \/ (draft'[q].at = "sending" /\ draft'[q].retried)
    BY <1>3, AnsweredDraft DEF Publish
  <2>7. AuthorityInv'
    BY <2>1, <2>3, <2>4, <2>6 DEF AuthorityInv, AuthorityMoved
  <2> QED
    BY <2>3, <2>5, <2>7
<1>4. CASE Publish(p) /\ PublicationAnswer(p) # "published"
  <2>1. UNCHANGED <<authority, revisions>>
    BY <1>4 DEF Publish
  <2>2. AuthorityTypeOK'
    BY <1>4, <2>1, AnsweredDraft DEF Publish, AuthorityTypeOK
  <2>3. AuthorityInv'
    BY <1>4, <2>1, AnsweredDraft DEF Publish, AuthorityInv, Seen
  <2> QED
    BY <2>1, <2>2, <2>3 DEF AuthorityMoved, Seen
<1> QED
  BY <1>1, <1>2, <1>3, <1>4 DEF PublisherStep

(* So does the upgrade of a mutable credential.                            *)
LEMMA UpgradeInv ==
  ASSUME AuthorityTypeOK, AuthorityInv, UpgradeLegacy
  PROVE  AuthorityTypeOK' /\ AuthorityInv' /\ AuthorityMoved
<1>1. "upgraded" \notin Seen /\ revisions = {} /\ authority.revision = "legacy"
  BY DEF UpgradeLegacy, Configured, Immutable, AuthorityInv, AuthorityTypeOK, Seen
<1>2. Install(None, "upgraded") /\ UNCHANGED draft
  BY DEF UpgradeLegacy
<1>3. "upgraded" \in Revisions /\ None \in Nullable(Publishers)
  BY DEF Revisions, Nullable
<1>4. /\ AuthorityMoved
      /\ authority' = [revision |-> "upgraded", immutable |-> TRUE, operation |-> None]
      /\ authority' \in [revision : Revisions, immutable : BOOLEAN,
                         operation : Nullable(Publishers)]
      /\ revisions' \subseteq Revisions \ {"absent"}
      /\ "upgraded" \in revisions'
      /\ \A q \in Publishers : q \in revisions' => q \in revisions \/ q = "upgraded"
  BY <1>1, <1>2, <1>3, InstallMoved
<1>5. AuthorityTypeOK'
  BY <1>2, <1>4 DEF AuthorityTypeOK
<1>6. AuthorityInv'
  BY <1>1, <1>2, <1>4 DEF AuthorityInv, AuthorityMoved
<1> QED
  BY <1>4, <1>5, <1>6

(* What the operator was told.                                             *)
AnswersInv ==
  /\ AnswersTruthful
  /\ \A p \in Publishers : draft[p].answer = "superseded" => draft[p].at = "done"

(* Nobody has been told anything at the start.                             *)
LEMMA InitAnswers ==
  ASSUME AuthorityInit
  PROVE  AnswersInv
BY DEF AuthorityInit, NewDraft, AnswersInv, AnswersTruthful

(* A publication is answered according to what it did.                     *)
LEMMA PublisherAnswers ==
  ASSUME AuthorityTypeOK, AuthorityInv, AnswersInv, NEW p \in Publishers, PublisherStep(p)
  PROVE  AnswersInv'
<1>1. CASE CapturePublication(p) \/ VerifyPublication(p)
  BY <1>1 DEF CapturePublication, VerifyPublication, AuthorityTypeOK, AnswersInv, AnswersTruthful
<1>2. CASE Publish(p)
  <2>1. /\ draft[p].at = "sending"
        /\ \A q \in Publishers :
             /\ q # p => draft'[q] = draft[q]
             /\ q = p => \/ draft'[q].at = "done" /\ draft'[q].answer = PublicationAnswer(p)
                            /\ draft'[q].retried = draft[q].retried
                         \/ /\ draft'[q].at = "sending" /\ draft'[q].retried
                            /\ draft'[q].answer = draft[q].answer
    BY <1>2, AnsweredDraft DEF Publish
  <2>2. /\ PublicationAnswer(p) # "conflict"
        /\ PublicationAnswer(p) = "replayed" => p \in revisions
        /\ PublicationAnswer(p) = "superseded" /\ ~draft[p].retried => p \notin revisions
    BY <2>1, PublisherNames DEF PublicationAnswer, AuthorityInv
  <2>3. CASE PublicationAnswer(p) = "published"
    <3>1. /\ Install(p, p) /\ p \notin Seen /\ p \in Revisions /\ p \in Nullable(Publishers)
      BY <1>2, <2>3, PublisherNames
         DEF Publish, PublicationAnswer, AuthorityInv, Seen, Revisions, Nullable
    <3>2. /\ p \in revisions' /\ revisions \subseteq revisions'
          /\ \A q \in Publishers : q \in revisions' => q \in revisions \/ q = p
      BY <3>1, InstallMoved DEF AuthorityMoved
    <3> QED
      BY <2>1, <2>3, <3>2 DEF AnswersInv, AnswersTruthful
  <2>4. CASE PublicationAnswer(p) # "published"
    <3>1. UNCHANGED revisions
      BY <1>2, <2>4 DEF Publish
    <3>2. PublicationAnswer(p) \in {"replayed", "superseded"}
      BY <2>2, <2>4 DEF PublicationAnswer
    <3> QED
      BY <2>1, <2>2, <3>1, <3>2 DEF AnswersInv, AnswersTruthful
  <2> QED
    BY <2>3, <2>4
<1> QED
  BY <1>1, <1>2 DEF PublisherStep

(* The upgrade answers nobody.                                             *)
LEMMA UpgradeAnswers ==
  ASSUME AuthorityTypeOK, AuthorityInv, AnswersInv, UpgradeLegacy
  PROVE  AnswersInv'
<1>1. /\ revisions = {} /\ authority.revision \in {"absent", "legacy"}
      /\ Install(None, "upgraded") /\ UNCHANGED draft
  BY DEF UpgradeLegacy, Immutable, AuthorityInv
<1>2. \A q \in Publishers : q \notin revisions'
  BY <1>1, PublisherNames DEF Install
<1> QED
  BY <1>1, <1>2 DEF AnswersInv, AnswersTruthful

(* A step that leaves the connector alone keeps the answers.               *)
LEMMA AnswersUnchanged ==
  ASSUME AnswersInv, UNCHANGED authorityVars
  PROVE  AnswersInv'
BY DEF authorityVars, AnswersInv, AnswersTruthful

-----------------------------------------------------------------------------
(* The rows of the tenant.                                                 *)
RowsInv == TenantTypeOK /\ EvidenceInv

ConnectionType ==
  [status : {"PENDING_CONSENT", "CONNECTED", "ERROR", "REVOKED"},
   incarnation : Nat, version : Nat, exchange : BOOLEAN]

AttemptType ==
  [id : Nullable(Collectors), connection : Nat, configuration : Configuration, scope : Nat,
   outcome : {None, "RUNNING", "FAILED", "PARTIAL", "EXPIRED", "COMPLETE"}, live : BOOLEAN]

ReceiptType ==
  [id : Nullable(Collectors), connection : Nat, configuration : Configuration, scope : Nat]

RolesType == [scope : Nat, enabled : BOOLEAN, attempt : AttemptType, complete : ReceiptType]

(* The types of the rows of a tenant, one variable at a time.              *)
LEMMA RowsType ==
  TenantTypeOK <=> /\ tenant \in {"PENDING", "ACTIVE", "SUSPENDED", "REMOVED"}
                   /\ connection \in ConnectionType
                   /\ roles \in RolesType
BY DEF TenantTypeOK, ConnectionType, RolesType, AttemptType, ReceiptType

(* The same after a step.                                                  *)
LEMMA RowsTypeNext ==
  TenantTypeOK' <=> /\ tenant' \in {"PENDING", "ACTIVE", "SUSPENDED", "REMOVED"}
                    /\ connection' \in ConnectionType
                    /\ roles' \in RolesType
BY DEF TenantTypeOK, ConnectionType, RolesType, AttemptType, ReceiptType

(* The empty attempt and the empty receipt are typed.                      *)
LEMMA NothingType ==
  NoAttempt \in AttemptType /\ NoReceipt \in ReceiptType /\ NoAttempt.outcome # "RUNNING"
BY DEF NoAttempt, NoReceipt, AttemptType, ReceiptType, Nullable, Configuration

(* The rows of the tenant at the start.                                    *)
LEMMA InitRows ==
  ASSUME TenantInit
  PROVE  RowsInv
<1>1. connection \in ConnectionType
  BY DEF TenantInit, ConnectionType
<1>2. roles \in RolesType /\ roles.complete.id = None
  BY NothingType DEF TenantInit, RolesType, NoReceipt
<1> QED
  BY <1>1, <1>2, RowsType DEF TenantInit, RowsInv, EvidenceInv

(* A write of the connection.                                              *)
LEMMA ConnectionWritten ==
  ASSUME TenantTypeOK,
         NEW status \in {"PENDING_CONSENT", "CONNECTED", "ERROR", "REVOKED"},
         NEW incarnation \in Nat
  PROVE  /\ ConnectionWith(status, incarnation) \in ConnectionType
         /\ ConnectionWith(status, incarnation).status = status
         /\ ConnectionWith(status, incarnation).incarnation = incarnation
         /\ ConnectionWith(status, incarnation).version = connection.version + 1
         /\ connection.incarnation \in Nat /\ NewIncarnation \in Nat
         /\ connection.version \in Nat /\ roles.scope \in Nat /\ NewScope \in Nat
         /\ NewIncarnation > connection.incarnation /\ NewScope > roles.scope
<1>1. /\ connection \in ConnectionType /\ roles.scope \in Nat
      /\ connection.incarnation \in Nat /\ connection.version \in Nat
  BY DEF TenantTypeOK, ConnectionType
<1>2. /\ ConnectionWith(status, incarnation) \in ConnectionType
      /\ ConnectionWith(status, incarnation).status = status
      /\ ConnectionWith(status, incarnation).incarnation = incarnation
      /\ ConnectionWith(status, incarnation).version = connection.version + 1
  BY <1>1 DEF ConnectionWith, ConnectionType
<1> QED
  BY <1>1, <1>2 DEF NewIncarnation, NewScope

(* The attempt is dropped, nothing else of the roles.                      *)
LEMMA AttemptDropped ==
  ASSUME TenantTypeOK
  PROVE  /\ RolesWithoutAttempt \in RolesType
         /\ RolesWithoutAttempt.attempt = NoAttempt
         /\ RolesWithoutAttempt.complete = roles.complete
         /\ RolesWithoutAttempt.scope = roles.scope
         /\ RolesWithoutAttempt.enabled = roles.enabled
<1>1. roles \in RolesType
  BY RowsType
<1> QED
  BY <1>1, NothingType DEF RolesWithoutAttempt, RolesType

(* A new incarnation, whatever else is written with it.                    *)
LEMMA RotationMoved ==
  ASSUME RowsInv, UNCHANGED <<authority, revisions>>,
         tenant' \in {"PENDING", "ACTIVE", "SUSPENDED", "REMOVED"}, Present,
         connection' \in ConnectionType,
         connection'.incarnation = connection.incarnation + 1,
         connection'.version = connection.version + 1,
         roles' = RolesWithoutAttempt
  PROVE  RowsInv' /\ TenantMoved /\ AttemptKept
<1>1. /\ connection.incarnation \in Nat /\ connection.version \in Nat
      /\ roles.scope \in Nat
  BY DEF RowsInv, TenantTypeOK
<1>2. TenantTypeOK'
  BY AttemptDropped, RowsTypeNext DEF RowsInv
<1>3. EvidenceInv'
  <2>1. EvidenceInv /\ roles \in RolesType
    BY RowsType DEF RowsInv
  <2> QED
    BY <1>1, <2>1, AttemptDropped DEF RowsInv, EvidenceInv, RolesType, ReceiptType
<1> QED
  BY <1>1, <1>2, <1>3, AttemptDropped DEF RowsInv, TenantMoved, AttemptKept, Present

(* Only a time stamp.                                                      *)
LEMMA StampMoved ==
  ASSUME RowsInv, UNCHANGED <<authority, revisions, tenant, roles>>,
         connection' = ConnectionWith(connection.status, connection.incarnation)
  PROVE  RowsInv' /\ TenantMoved /\ AttemptKept
<1>1. /\ connection.incarnation \in Nat /\ connection.version \in Nat
      /\ roles.scope \in Nat
      /\ connection.status \in {"PENDING_CONSENT", "CONNECTED", "ERROR", "REVOKED"}
  BY DEF RowsInv, TenantTypeOK
<1>2. /\ connection' \in ConnectionType
      /\ connection'.status = connection.status
      /\ connection'.incarnation = connection.incarnation
      /\ connection'.version = connection.version + 1
  BY <1>1, ConnectionWritten DEF RowsInv
<1>3. TenantTypeOK'
  BY <1>2, RowsType, RowsTypeNext DEF RowsInv
<1>4. EvidenceInv'
  BY <1>2 DEF RowsInv, EvidenceInv
<1> QED
  BY <1>1, <1>2, <1>3, <1>4 DEF RowsInv, TenantMoved, AttemptKept, Present

(* Nothing of the tenant is written.                                       *)
LEMMA RowsUnchanged ==
  ASSUME RowsInv, UNCHANGED tenantVars, revisions \subseteq revisions'
  PROVE  RowsInv' /\ TenantMoved /\ AttemptKept
<1>1. /\ connection.incarnation \in Nat /\ connection.version \in Nat
      /\ roles.scope \in Nat
  BY DEF RowsInv, TenantTypeOK
<1> QED
  BY <1>1 DEF tenantVars, RowsInv, TenantTypeOK, EvidenceInv, TenantMoved, AttemptKept, Present

(* Nothing of the connector moves when its variables do not.               *)
LEMMA AuthorityUnchanged ==
  ASSUME AuthorityTypeOK, AuthorityInv, UNCHANGED authorityVars
  PROVE  AuthorityTypeOK' /\ AuthorityInv' /\ AuthorityMoved
BY DEF authorityVars, AuthorityTypeOK, AuthorityInv, AuthorityMoved, Seen

(* The control of the collection, and the removal of the tenant.           *)
LEMMA ScopeMoved ==
  ASSUME RowsInv, UNCHANGED <<authority, revisions, tenant>>,
         ActivateRoleScope \/ RevokeScope
  PROVE  RowsInv' /\ TenantMoved /\ AttemptKept
<1>1. /\ connection.incarnation \in Nat /\ connection.version \in Nat
      /\ roles.scope \in Nat
      /\ connection.status \in {"PENDING_CONSENT", "CONNECTED", "ERROR", "REVOKED"}
      /\ connection \in ConnectionType /\ roles \in RolesType
  BY RowsType DEF RowsInv, TenantTypeOK
<1>2. /\ NewScope = roles.scope + 1 /\ NewScope \in Nat
  BY <1>1 DEF NewScope
<1>3. /\ roles' \in RolesType /\ roles'.attempt = NoAttempt
      /\ roles'.complete = roles.complete /\ roles'.scope = NewScope
  BY <1>2, AttemptDropped DEF ActivateRoleScope, RevokeScope, RowsInv, RolesType
<1>4. /\ connection' \in ConnectionType
      /\ connection'.status = connection.status
      /\ connection'.incarnation >= connection.incarnation
      /\ connection'.version >= connection.version
      /\ connection' # connection => connection'.version > connection.version
  <2>1. CASE connection' = connection
    BY <1>1, <2>1
  <2>2. CASE connection' = ConnectionWith(connection.status, connection.incarnation)
    <3>1. /\ connection' \in ConnectionType /\ connection'.status = connection.status
          /\ connection'.incarnation = connection.incarnation
          /\ connection'.version = connection.version + 1
      BY <1>1, <2>2, ConnectionWritten DEF RowsInv
    <3> QED
      BY <1>1, <3>1
  <2>3. CASE connection' = ConnectionWith(connection.status, NewIncarnation)
    <3>0. NewIncarnation \in Nat /\ NewIncarnation = connection.incarnation + 1
      BY <1>1 DEF NewIncarnation
    <3>1. /\ connection' \in ConnectionType /\ connection'.status = connection.status
          /\ connection'.incarnation = NewIncarnation
          /\ connection'.version = connection.version + 1
      BY <1>1, <2>3, <3>0, ConnectionWritten DEF RowsInv
    <3> QED
      BY <1>1, <3>0, <3>1
  <2> QED
    BY <2>1, <2>2, <2>3 DEF ActivateRoleScope, RevokeScope
<1>5. TenantTypeOK'
  BY <1>3, <1>4, RowsType, RowsTypeNext DEF RowsInv
<1>6. EvidenceInv'
  BY <1>1, <1>2, <1>3, <1>4 DEF RowsInv, EvidenceInv, RolesType, ReceiptType, ConnectionType
<1> QED
  BY <1>1, <1>2, <1>3, <1>4, <1>5, <1>6 DEF RowsInv, TenantMoved, AttemptKept, Present

(* The removal of the tenant rotates everything.                           *)
LEMMA RemovalMoved ==
  ASSUME RowsInv, UNCHANGED <<authority, revisions>>, RemoveTenant
  PROVE  RowsInv' /\ TenantMoved /\ AttemptKept /\ ~Present'
<1>1. /\ connection.incarnation \in Nat /\ connection.version \in Nat
      /\ roles.scope \in Nat
  BY DEF RowsInv, TenantTypeOK
<1>2. /\ NewScope = roles.scope + 1 /\ NewScope \in Nat
      /\ NewIncarnation = connection.incarnation + 1 /\ NewIncarnation \in Nat
  BY <1>1 DEF NewScope, NewIncarnation
<1>3. /\ roles' \in RolesType /\ roles'.attempt = NoAttempt
      /\ roles'.complete.id = None /\ roles'.scope = NewScope
  BY <1>2, NothingType DEF RemoveTenant, RolesType, NoReceipt
<1>4. /\ connection' \in ConnectionType
      /\ connection'.incarnation = NewIncarnation
      /\ connection'.version = connection.version + 1
  BY <1>2, ConnectionWritten DEF RemoveTenant, RowsInv
<1>5. tenant' = "REMOVED"
  BY DEF RemoveTenant
<1>6. RowsInv'
  BY <1>3, <1>4, <1>5, RowsTypeNext DEF RowsInv, EvidenceInv
<1> QED
  BY <1>1, <1>2, <1>3, <1>4, <1>5, <1>6 DEF TenantMoved, AttemptKept, Present
-----------------------------------------------------------------------------
(* The consents.  Waiting says that only the configuration can still stand *)
(* between an operation and the connection.                                *)
Pending(o) == operation[o].state \in {"ISSUED", "CLAIMED"}

Waiting(o) == Pending(o) /\ Present /\ operation[o].connection = connection.incarnation

Talking(o, b) == callback[o][b].at \in {"verifying", "finishing", "orphaned"}

ConsentInv ==
  /\ \A o \in Consents : asked[o].at # "issued" =>
       operation[o].state = None /\ o \notin concluded /\ \A b \in Browsers : callback[o][b].at = "new"
  /\ \A o \in concluded : ~Pending(o)
  /\ \A o \in Consents : Pending(o) =>
       operation[o].configuration \in Seen /\ operation[o].connection <= connection.incarnation
  /\ \A o \in Consents : Waiting(o) =>
       /\ connection.status = "PENDING_CONSENT"
       /\ roles.attempt = NoAttempt
       /\ \A other \in Consents : Waiting(other) => other = o
  /\ \A o \in Consents, b \in Browsers : Talking(o, b) =>
       operation[o].state = None \/ (operation[o].state = "CLAIMED" /\ operation[o].claim = b)
  /\ \A o \in Consents, b \in Browsers :
       callback[o][b].at = "finishing" => callback[o][b].verdict \in Verdicts

(* An attempt appears or ends only while the connection is usable.         *)
AttemptMoved ==
  roles'.attempt \notin {roles.attempt, NoAttempt} => Usable \/ Running

(* No consent was asked for at the start.                                  *)
LEMMA InitConsent ==
  ASSUME ConsentInit
  PROVE  ConsentTypeOK /\ ConsentInv
<1>1. ConsentTypeOK
  <2>1. asked \in [Consents -> [at : {"new", "found", "prepared", "issued", "refused"},
                               incarnation : Nat, configuration : Configuration]]
    BY DEF Nullable, Configuration, ConsentInit, NewAsk, NoOperation
  <2>2. operation \in [Consents -> [state : {None, "ISSUED", "CLAIMED"} \cup Terminal,
                                   configuration : Configuration, connection : Nat,
                                   claim : Nullable(Browsers), result : Nat,
                                   snapshot : Nullable([Keys -> Nat]), live : BOOLEAN]]
    BY DEF Nullable, Configuration, ConsentInit, NewAsk, NoOperation
  <2>3. callback \in [Consents -> [Browsers ->
                       [at : {"new", "verifying", "finishing", "orphaned", "effects", "done"},
                        verdict : Nullable(Verdicts)]]]
    BY DEF Nullable, ConsentInit, NoNotice
  <2>4. notices \in [Keys -> [occurrence : Nat, by : Nullable(Consents),
                             resolvedBy : Nullable(Consents)]]
    BY DEF Nullable, ConsentInit, NoNotice
  <2>5. legacy \in 0 .. MaxLegacy /\ applied \in [Consents -> Nat] /\ concluded \subseteq Consents
    BY DEF ConsentInit
  <2> QED
    BY <2>1, <2>2, <2>3, <2>4, <2>5 DEF ConsentTypeOK
<1>2. ConsentInv
  BY DEF ConsentInit, NewAsk, NoOperation, ConsentInv, Pending, Waiting, Talking
<1> QED
  BY <1>1, <1>2

(* Steps of others.                                                        *)
LEMMA ConsentFrame ==
  ASSUME RowsInv, ConsentTypeOK, ConsentInv, UNCHANGED consentVars,
         Moved, AttemptMoved, connection' \in ConnectionType
  PROVE  ConsentTypeOK' /\ ConsentInv'
<1> USE DEF consentVars
<1>1. /\ connection.incarnation \in Nat /\ connection'.incarnation \in Nat
  BY DEF RowsInv, TenantTypeOK, ConnectionType
<1>2. ConsentTypeOK'
  BY DEF ConsentTypeOK
<1>3. \A o \in Consents : /\ Pending(o)' <=> Pending(o)
                          /\ \A b \in Browsers : Talking(o, b)' <=> Talking(o, b)
                          /\ Pending(o) => operation[o].connection \in Nat
  BY DEF Pending, Talking, ConsentTypeOK
<1>4. \A o \in Consents : Waiting(o)' => Waiting(o) /\ connection'.incarnation = connection.incarnation
  BY <1>1, <1>3 DEF Waiting, Moved, TenantMoved, ConsentInv
<1>5. \A o \in Consents : Waiting(o) => ~Usable /\ ~Running
  BY NothingType DEF ConsentInv, Usable, Running
<1>6. \A o \in Consents : Waiting(o)' =>
        /\ connection'.status = "PENDING_CONSENT"
        /\ roles'.attempt = NoAttempt
        /\ \A other \in Consents : Waiting(other)' => other = o
  BY <1>4, <1>5 DEF ConsentInv, AttemptMoved, Moved, TenantMoved
<1>7. \A o \in Consents : Pending(o)' =>
        operation'[o].configuration \in Seen' /\ operation'[o].connection <= connection'.incarnation
  BY <1>1, <1>3 DEF ConsentInv, Moved, AuthorityMoved, TenantMoved
<1>8. /\ \A o \in Consents : asked'[o] = asked[o] /\ operation'[o] = operation[o]
                             /\ callback'[o] = callback[o]
      /\ concluded' = concluded
  OBVIOUS
<1>9. \A o \in concluded' : ~Pending(o)'
  BY <1>3, <1>8 DEF ConsentInv, ConsentTypeOK
<1>10. \A o \in Consents, b \in Browsers : Talking(o, b)' =>
         operation'[o].state = None
           \/ (operation'[o].state = "CLAIMED" /\ operation'[o].claim = b)
  BY <1>3, <1>8 DEF ConsentInv
<1>11. \A o \in Consents : asked'[o].at # "issued" =>
         /\ operation'[o].state = None /\ o \notin concluded'
         /\ \A b \in Browsers : callback'[o][b].at = "new"
  BY <1>8 DEF ConsentInv
<1>12. \A o \in Consents, b \in Browsers :
         callback'[o][b].at = "finishing" => callback'[o][b].verdict \in Verdicts
  BY <1>8 DEF ConsentInv
<1> QED
  BY <1>2, <1>6, <1>7, <1>9, <1>10, <1>11, <1>12 DEF ConsentInv

(* Steps of a consent that leave the rows of the tenant alone.             *)
LEMMA QuietConsent ==
  ASSUME ConsentInv, ConsentTypeOK', UNCHANGED <<authority, revisions, tenantVars, concluded>>,
         \A o \in Consents : asked'[o].at = "issued" <=> asked[o].at = "issued",
         \A o \in Consents : asked[o].at # "issued" =>
           operation'[o].state = None /\ \A b \in Browsers : callback'[o][b].at = "new",
         \A o \in Consents : Pending(o)' =>
           /\ Pending(o)
           /\ operation'[o].configuration = operation[o].configuration
           /\ operation'[o].connection = operation[o].connection,
         \A o \in Consents, b \in Browsers : Talking(o, b)' =>
           operation'[o].state = None
             \/ (operation'[o].state = "CLAIMED" /\ operation'[o].claim = b),
         \A o \in Consents, b \in Browsers :
           callback'[o][b].at = "finishing" => callback'[o][b].verdict \in Verdicts
  PROVE  ConsentInv'
<1> USE DEF tenantVars
<1>1. \A o \in Consents : Waiting(o)' => Waiting(o)
  BY DEF Waiting, Present
<1>2. \A o \in Consents : Waiting(o)' =>
        /\ connection'.status = "PENDING_CONSENT"
        /\ roles'.attempt = NoAttempt
        /\ \A other \in Consents : Waiting(other)' => other = o
  BY <1>1 DEF ConsentInv
<1>3. \A o \in Consents : Pending(o)' =>
        operation'[o].configuration \in Seen' /\ operation'[o].connection <= connection'.incarnation
  BY DEF ConsentInv, Seen
<1>4. \A o \in concluded' : ~Pending(o)'
  BY DEF ConsentInv, ConsentTypeOK
<1> QED
  BY <1>2, <1>3, <1>4 DEF ConsentInv

CallbackType ==
  [Consents -> [Browsers ->
     [at : {"new", "verifying", "finishing", "orphaned", "effects", "done"},
      verdict : Nullable(Verdicts)]]]

AskType ==
  [Consents -> [at : {"new", "found", "prepared", "issued", "refused"},
                incarnation : Nat, configuration : Configuration]]

OperationRecord ==
  [state : {None, "ISSUED", "CLAIMED"} \cup Terminal,
   configuration : Configuration, connection : Nat, claim : Nullable(Browsers), result : Nat,
   snapshot : Nullable([Keys -> Nat]), live : BOOLEAN]

NoticeType ==
  [Keys -> [occurrence : Nat, by : Nullable(Consents), resolvedBy : Nullable(Consents)]]

(* The types of the consents, one variable at a time.                      *)
LEMMA ConsentType ==
  ConsentTypeOK <=> /\ asked \in AskType /\ operation \in [Consents -> OperationRecord]
                    /\ callback \in CallbackType /\ notices \in NoticeType
                    /\ legacy \in 0 .. MaxLegacy /\ applied \in [Consents -> Nat]
                    /\ concluded \subseteq Consents
BY DEF ConsentTypeOK, AskType, OperationRecord, CallbackType, NoticeType

(* The same after a step.                                                  *)
LEMMA ConsentTypeNext ==
  ConsentTypeOK' <=> /\ asked' \in AskType /\ operation' \in [Consents -> OperationRecord]
                     /\ callback' \in CallbackType /\ notices' \in NoticeType
                     /\ legacy' \in 0 .. MaxLegacy /\ applied' \in [Consents -> Nat]
                     /\ concluded' \subseteq Consents
BY DEF ConsentTypeOK, AskType, OperationRecord, CallbackType, NoticeType

(* One load of a callback page moves.                                      *)
LEMMA StandingMoved ==
  ASSUME callback \in CallbackType, NEW o \in Consents, NEW b \in Browsers,
         NEW at \in {"new", "verifying", "finishing", "orphaned", "effects", "done"},
         NEW verdict \in Nullable(Verdicts),
         callback' = [callback EXCEPT ![o][b] = [at |-> at, verdict |-> verdict]]
  PROVE  /\ callback' \in CallbackType
         /\ callback'[o][b].at = at /\ callback'[o][b].verdict = verdict
         /\ \A oo \in Consents, bb \in Browsers :
              oo # o \/ bb # b => callback'[oo][bb] = callback[oo][bb]
BY DEF CallbackType

(* An operation changes its state.                                         *)
LEMMA EndAloneMoved ==
  ASSUME operation \in [Consents -> OperationRecord], NEW o \in Consents,
         NEW state \in Terminal, EndAlone(o, state)
  PROVE  /\ operation' \in [Consents -> OperationRecord]
         /\ operation'[o].state = state
         /\ \A oo \in Consents : oo # o => operation'[oo] = operation[oo]
BY DEF OperationRecord, EndAlone

(* The request for a link moves.                                           *)
LEMMA AskStepInv ==
  ASSUME RowsInv, AuthorityTypeOK, ConsentTypeOK, ConsentInv,
         UNCHANGED <<authority, revisions>>, NEW o \in Consents,
         LookUp(o) \/ Prepare(o) \/ IssueRefused(o)
  PROVE  ConsentTypeOK' /\ ConsentInv'
<1> USE DEF LookUp, Prepare, IssueRefused
<1>1. /\ connection.incarnation \in Nat /\ authority.revision \in Configuration
      /\ asked \in AskType /\ asked[o].at \in {"new", "found", "prepared"}
      /\ NewAsk.incarnation = 0 /\ NewAsk.configuration = None
      /\ Answer("refused") \in
           [at : {"new", "found", "prepared", "issued", "refused"},
            incarnation : Nat, configuration : Configuration]
      /\ Answer("refused").at = "refused"
  BY ConsentType
     DEF RowsInv, TenantTypeOK, AuthorityTypeOK, Configuration, Nullable, NewAsk, Answer
<1>2. UNCHANGED <<operation, callback, notices, legacy, applied, concluded, tenantVars>>
  OBVIOUS
<1>3. /\ asked' \in AskType
      /\ asked'[o].at # "issued"
      /\ \A oo \in Consents : oo # o => asked'[oo] = asked[oo]
  BY <1>1 DEF AskType
<1>4. ConsentTypeOK'
  BY <1>2, <1>3, ConsentType, ConsentTypeNext
<1>5. ConsentInv'
  BY <1>1, <1>2, <1>3, <1>4, QuietConsent DEF ConsentInv, Pending, Talking
<1> QED
  BY <1>4, <1>5

(* A link is issued: the operation waits under a fresh incarnation.        *)
LEMMA IssueInv ==
  ASSUME RowsInv, AuthorityTypeOK, ConsentTypeOK, ConsentInv,
         UNCHANGED <<authority, revisions>>, NEW o \in Consents, Issue(o)
  PROVE  ConsentTypeOK' /\ ConsentInv' /\ RowsInv' /\ TenantMoved /\ AttemptKept
<1> USE DEF Issue
<1>1. /\ connection.incarnation \in Nat /\ NewIncarnation \in Nat
      /\ NewIncarnation = connection.incarnation + 1
      /\ tenant \in {"PENDING", "ACTIVE", "SUSPENDED", "REMOVED"}
      /\ asked \in AskType /\ operation \in [Consents -> OperationRecord]
      /\ callback \in CallbackType /\ authority.revision \in Configuration
  BY ConsentType DEF RowsInv, TenantTypeOK, NewIncarnation, AuthorityTypeOK, Configuration, Nullable
<1>2. /\ connection' \in ConnectionType
      /\ connection'.status = "PENDING_CONSENT"
      /\ connection'.incarnation = NewIncarnation
      /\ connection'.version = connection.version + 1
  BY <1>1, ConnectionWritten DEF RowsInv
<1>3. RowsInv' /\ TenantMoved /\ AttemptKept
  BY <1>1, <1>2, RotationMoved DEF Issuable
<1>4. /\ operation' \in [Consents -> OperationRecord]
      /\ operation'[o].state = "ISSUED"
      /\ operation'[o].configuration = authority.revision
      /\ operation'[o].connection = NewIncarnation
      /\ \A oo \in Consents : oo # o => operation'[oo] = operation[oo]
  BY <1>1 DEF NoOperation, OperationRecord, Nullable
<1>5. /\ asked' \in AskType /\ asked'[o].at = "issued"
      /\ \A oo \in Consents : oo # o => asked'[oo] = asked[oo]
  BY <1>1 DEF AskType, Answer, NewAsk, Configuration, Nullable
<1>6. UNCHANGED <<callback, notices, legacy, applied, concluded>>
  OBVIOUS
<1>7. ConsentTypeOK'
  BY <1>4, <1>5, <1>6, ConsentType, ConsentTypeNext
<1>8. \A oo \in Consents : Pending(oo)' =>
        /\ operation'[oo].configuration \in Seen'
        /\ operation'[oo].connection <= connection'.incarnation
        /\ oo # o => operation'[oo].connection < connection'.incarnation
  <2> SUFFICES ASSUME NEW oo \in Consents, Pending(oo)'
               PROVE  /\ operation'[oo].configuration \in Seen'
                      /\ operation'[oo].connection <= connection'.incarnation
                      /\ oo # o => operation'[oo].connection < connection'.incarnation
    OBVIOUS
  <2>1. CASE oo = o
    BY <1>1, <1>2, <1>4, <2>1 DEF Seen
  <2>2. CASE oo # o
    <3>1. Pending(oo) /\ operation[oo].connection \in Nat
      BY <1>1, <1>4, <2>2 DEF Pending, OperationRecord
    <3> QED
      BY <1>1, <1>2, <1>4, <2>2, <3>1 DEF ConsentInv, Seen
  <2> QED
    BY <2>1, <2>2
<1>9. \A oo \in Consents : Waiting(oo)' => oo = o
  <2>1. \A oo \in Consents : operation'[oo].connection \in Nat
    BY <1>4 DEF OperationRecord
  <2> QED
    BY <1>1, <1>2, <1>8, <2>1 DEF Waiting
<1>10. roles'.attempt = NoAttempt
  BY AttemptDropped DEF RowsInv
<1>11. o \notin concluded /\ \A b \in Browsers : callback[o][b].at = "new"
  BY DEF ConsentInv
<1>12. \A oo \in concluded' : ~Pending(oo)'
  BY <1>4, <1>6, <1>11, ConsentType DEF ConsentInv, Pending
<1>13. \A oo \in Consents, b \in Browsers : Talking(oo, b)' =>
         operation'[oo].state = None
           \/ (operation'[oo].state = "CLAIMED" /\ operation'[oo].claim = b)
  BY <1>4, <1>6, <1>11 DEF ConsentInv, Talking
<1>14. \A oo \in Consents : asked'[oo].at # "issued" =>
         /\ operation'[oo].state = None /\ oo \notin concluded'
         /\ \A b \in Browsers : callback'[oo][b].at = "new"
  BY <1>4, <1>5, <1>6 DEF ConsentInv
<1>16. \A oo \in Consents, b \in Browsers :
         callback'[oo][b].at = "finishing" => callback'[oo][b].verdict \in Verdicts
  BY <1>6 DEF ConsentInv
<1>15. ConsentInv'
  BY <1>2, <1>8, <1>9, <1>10, <1>12, <1>13, <1>14, <1>16 DEF ConsentInv
<1> QED
  BY <1>3, <1>7, <1>15

(* The time of an operation runs out.                                      *)
LEMMA LapseInv ==
  ASSUME ConsentTypeOK, ConsentInv,
         UNCHANGED <<authority, revisions>>, NEW o \in Consents, Lapse(o)
  PROVE  ConsentTypeOK' /\ ConsentInv'
<1>1. /\ UNCHANGED <<asked, callback, notices, legacy, applied, concluded, tenantVars>>
      /\ operation' = [operation EXCEPT ![o].live = FALSE]
  BY DEF Lapse
<1>2. /\ operation' \in [Consents -> OperationRecord]
      /\ \A oo \in Consents :
           /\ operation'[oo].state = operation[oo].state
           /\ operation'[oo].claim = operation[oo].claim
           /\ operation'[oo].configuration = operation[oo].configuration
           /\ operation'[oo].connection = operation[oo].connection
  BY <1>1, ConsentType DEF OperationRecord
<1>3. ConsentTypeOK'
  BY <1>1, <1>2, ConsentType, ConsentTypeNext
<1> QED
  BY <1>1, <1>2, <1>3, QuietConsent DEF ConsentInv, Pending, Talking

(* A load of the callback page moves and its operation may end with it.    *)
LEMMA CallbackMoves ==
  ASSUME ConsentTypeOK, ConsentInv, UNCHANGED <<authority, revisions, tenantVars>>,
         UNCHANGED <<asked, legacy, concluded>>,
         notices' \in NoticeType, applied' \in [Consents -> Nat],
         NEW o \in Consents, NEW b \in Browsers, asked[o].at = "issued",
         callback' \in CallbackType,
         callback'[o][b].at = "finishing" => callback'[o][b].verdict \in Verdicts,
         \A oo \in Consents, bb \in Browsers :
           oo # o \/ bb # b => callback'[oo][bb] = callback[oo][bb],
         operation' \in [Consents -> OperationRecord],
         \A oo \in Consents : oo # o => operation'[oo] = operation[oo],
         \/ operation'[o] = operation[o] /\ (Talking(o, b)' => Talking(o, b))
         \/ /\ operation'[o].state \notin {"ISSUED", "CLAIMED"}
            /\ ~Talking(o, b)'
            /\ \A bb \in Browsers : bb # b => ~Talking(o, bb)
         \/ /\ operation[o].state = "ISSUED"
            /\ operation'[o].state = "CLAIMED" /\ operation'[o].claim = b
            /\ operation'[o].configuration = operation[o].configuration
            /\ operation'[o].connection = operation[o].connection
  PROVE  ConsentTypeOK' /\ ConsentInv'
<1>1. ConsentTypeOK'
  BY ConsentType, ConsentTypeNext
<1>2. \A oo \in Consents : Pending(oo)' =>
           /\ Pending(oo)
           /\ operation'[oo].configuration = operation[oo].configuration
           /\ operation'[oo].connection = operation[oo].connection
  BY DEF Pending
<1>3. \A oo \in Consents, bb \in Browsers : Talking(oo, bb)' =>
           operation'[oo].state = None
             \/ (operation'[oo].state = "CLAIMED" /\ operation'[oo].claim = bb)
  <2> SUFFICES ASSUME NEW oo \in Consents, NEW bb \in Browsers, Talking(oo, bb)'
               PROVE  operation'[oo].state = None
                        \/ (operation'[oo].state = "CLAIMED" /\ operation'[oo].claim = bb)
    OBVIOUS
  <2>1. CASE oo # o
    BY <2>1 DEF ConsentInv, Talking
  <2>2. CASE oo = o /\ bb # b
    BY <2>2 DEF ConsentInv, Talking
  <2>3. CASE oo = o /\ bb = b
    BY <2>3 DEF ConsentInv
  <2> QED
    BY <2>1, <2>2, <2>3
<1>4. \A oo \in Consents : asked[oo].at # "issued" =>
           operation'[oo].state = None /\ \A bb \in Browsers : callback'[oo][bb].at = "new"
  BY DEF ConsentInv
<1>5. \A oo \in Consents, bb \in Browsers :
        callback'[oo][bb].at = "finishing" => callback'[oo][bb].verdict \in Verdicts
  BY DEF ConsentInv
<1> QED
  BY <1>1, <1>2, <1>3, <1>4, <1>5, QuietConsent

(* A load of the callback page claims the operation, or learns its end.    *)
LEMMA ClaimInv ==
  ASSUME ConsentTypeOK, ConsentInv, UNCHANGED <<authority, revisions>>,
         NEW o \in Consents, NEW b \in Browsers, ClaimConsentOperation(o, b)
  PROVE  ConsentTypeOK' /\ ConsentInv'
<1> USE DEF ClaimConsentOperation, Standing
<1>1. /\ callback \in CallbackType /\ operation \in [Consents -> OperationRecord]
      /\ notices \in NoticeType /\ applied \in [Consents -> Nat]
      /\ None \in Nullable(Verdicts) /\ asked[o].at = "issued"
  BY ConsentType DEF Nullable
<1>2. UNCHANGED <<asked, notices, legacy, applied, concluded, tenantVars>>
  OBVIOUS
<1>3. PICK at \in {"verifying", "effects", "done"} :
        callback' = [callback EXCEPT ![o][b] = [at |-> at, verdict |-> None]]
  OBVIOUS
<1>4. /\ callback' \in CallbackType /\ callback'[o][b].at = at
      /\ \A oo \in Consents, bb \in Browsers :
           oo # o \/ bb # b => callback'[oo][bb] = callback[oo][bb]
  BY <1>1, <1>3, StandingMoved
<1>5. CASE /\ operation[o].state = "ISSUED" /\ operation[o].live
           /\ operation' = [operation EXCEPT ![o].state = "CLAIMED", ![o].claim = b]
  <2>1. /\ operation' \in [Consents -> OperationRecord]
        /\ operation'[o].state = "CLAIMED" /\ operation'[o].claim = b
        /\ operation'[o].configuration = operation[o].configuration
        /\ operation'[o].connection = operation[o].connection
        /\ \A oo \in Consents : oo # o => operation'[oo] = operation[oo]
    BY <1>1, <1>5 DEF OperationRecord, Nullable
  <2> QED
    BY <1>1, <1>2, <1>4, <1>5, <2>1, CallbackMoves
<1>6. CASE operation[o].state = "ISSUED" /\ ~operation[o].live /\ EndAlone(o, "EXPIRED")
           /\ Standing(o, b, "effects")
  <2>1. /\ operation' \in [Consents -> OperationRecord]
        /\ operation'[o].state = "EXPIRED"
        /\ \A oo \in Consents : oo # o => operation'[oo] = operation[oo]
    BY <1>1, <1>6, EndAloneMoved DEF Terminal
  <2>2. callback'[o][b].at = "effects"
    BY <1>1, <1>6, StandingMoved
  <2>3. ~Talking(o, b)' /\ \A bb \in Browsers : ~Talking(o, bb)
    BY <1>6, <2>2 DEF ConsentInv, Talking
  <2> QED
    BY <1>1, <1>2, <1>4, <2>1, <2>3, CallbackMoves
<1>7. CASE UNCHANGED operation /\ (Standing(o, b, "effects") \/ Standing(o, b, "done"))
  <2>1. callback'[o][b].at \in {"effects", "done"}
    BY <1>1, <1>7, StandingMoved
  <2>2. ~Talking(o, b)'
    BY <2>1 DEF Talking
  <2> QED
    BY <1>1, <1>2, <1>4, <1>7, <2>2, CallbackMoves
<1> QED
  BY <1>5, <1>6, <1>7

(* Microsoft answers; no row moves.                                        *)
LEMMA VerifyInv ==
  ASSUME ConsentTypeOK, ConsentInv, UNCHANGED <<authority, revisions>>,
         NEW o \in Consents, NEW b \in Browsers, VerifyConsent(o, b)
  PROVE  ConsentTypeOK' /\ ConsentInv'
<1>1. /\ callback \in CallbackType /\ operation \in [Consents -> OperationRecord]
      /\ notices \in NoticeType /\ applied \in [Consents -> Nat]
      /\ asked[o].at = "issued" /\ Talking(o, b)
  BY ConsentType DEF VerifyConsent, ConsentInv, Talking
<1>2. UNCHANGED <<asked, operation, notices, legacy, applied, concluded, tenantVars>>
  BY DEF VerifyConsent
<1>3. PICK verdict \in Verdicts :
        callback' = [callback EXCEPT ![o][b] = [at |-> "finishing", verdict |-> verdict]]
  BY DEF VerifyConsent
<1>4. /\ callback' \in CallbackType /\ callback'[o][b].verdict \in Verdicts
      /\ \A oo \in Consents, bb \in Browsers :
           oo # o \/ bb # b => callback'[oo][bb] = callback[oo][bb]
  <2>1. verdict \in Nullable(Verdicts)
    BY DEF Nullable
  <2>2. /\ callback' \in CallbackType /\ callback'[o][b].verdict = verdict
        /\ \A oo \in Consents, bb \in Browsers :
             oo # o \/ bb # b => callback'[oo][bb] = callback[oo][bb]
    BY <1>1, <1>3, <2>1 DEF CallbackType
  <2> QED
    BY <2>2
<1> QED
  BY <1>1, <1>2, <1>4, CallbackMoves

(* The loads of a callback page that end without the connection.           *)
LEMMA FinishAsideInv ==
  ASSUME ConsentTypeOK, ConsentInv, UNCHANGED <<authority, revisions>>,
         NEW o \in Consents, NEW b \in Browsers,
         FinishSuperseded(o, b) \/ FinishAlone(o, b) \/ FinishUntrusted(o, b) \/ CallbackDies(o, b)
  PROVE  ConsentTypeOK' /\ ConsentInv'
<1> USE DEF FinishSuperseded, FinishAlone, FinishUntrusted, CallbackDies, Standing
<1>1. /\ callback \in CallbackType /\ operation \in [Consents -> OperationRecord]
      /\ notices \in NoticeType /\ applied \in [Consents -> Nat]
      /\ None \in Nullable(Verdicts) /\ asked[o].at = "issued"
  BY ConsentType DEF Nullable, ConsentInv
<1>2. UNCHANGED <<asked, notices, legacy, applied, concluded, tenantVars>>
  OBVIOUS
<1>3. PICK at \in {"orphaned", "effects", "done"} :
        /\ callback' = [callback EXCEPT ![o][b] = [at |-> at, verdict |-> None]]
        /\ at = "orphaned" => callback[o][b].at = "finishing"
  OBVIOUS
<1>4. /\ callback' \in CallbackType /\ callback'[o][b].at = at
      /\ \A oo \in Consents, bb \in Browsers :
           oo # o \/ bb # b => callback'[oo][bb] = callback[oo][bb]
  BY <1>1, <1>3, StandingMoved
<1>5. CASE UNCHANGED operation
  <2>1. Talking(o, b)' => Talking(o, b)
    BY <1>3, <1>4 DEF Talking
  <2> QED
    BY <1>1, <1>2, <1>4, <1>5, <2>1, CallbackMoves
<1>6. CASE FinishAlone(o, b)
  <2>1. PICK state \in {"SUPERSEDED", "EXPIRED"} : EndAlone(o, state)
    BY <1>6
  <2>2. /\ operation' \in [Consents -> OperationRecord]
        /\ operation'[o].state = state
        /\ \A oo \in Consents : oo # o => operation'[oo] = operation[oo]
    BY <1>1, <2>1, EndAloneMoved DEF Terminal
  <2>3. callback'[o][b].at = "effects"
    BY <1>1, <1>6, StandingMoved
  <2>4. ~Talking(o, b)'
    BY <2>3 DEF Talking
  <2>5. \A bb \in Browsers : bb # b => ~Talking(o, bb)
    BY <1>6 DEF ConsentInv, Talking
  <2> QED
    BY <1>1, <1>2, <1>4, <2>2, <2>4, <2>5, CallbackMoves
<1> QED
  BY <1>5, <1>6

(* Notices.                                                                *)
LEMMA NoticeTypes ==
  ASSUME ConsentTypeOK
  PROVE  NewOccurrence \in Nat
BY DEF ConsentTypeOK, NewOccurrence, Keys

(* The effects are shown; the operation stays as it ended.                 *)
LEMMA ApplyInv ==
  ASSUME ConsentTypeOK, ConsentInv, UNCHANGED <<authority, revisions>>,
         NEW o \in Consents, NEW b \in Browsers, ApplyEffects(o, b)
  PROVE  ConsentTypeOK' /\ ConsentInv'
<1>1. /\ callback \in CallbackType /\ operation \in [Consents -> OperationRecord]
      /\ notices \in NoticeType /\ applied \in [Consents -> Nat]
      /\ asked[o].at = "issued"
  BY ConsentType DEF ApplyEffects, ConsentInv
<1>2. UNCHANGED <<asked, operation, legacy, concluded, tenantVars>>
  BY DEF ApplyEffects
<1>3. /\ callback' \in CallbackType /\ callback'[o][b].at = "done"
      /\ \A oo \in Consents, bb \in Browsers :
           oo # o \/ bb # b => callback'[oo][bb] = callback[oo][bb]
  BY <1>1, StandingMoved DEF ApplyEffects, Nullable
<1>4. ~Talking(o, b)'
  BY <1>3 DEF Talking
<1>5. notices' \in NoticeType /\ applied' \in [Consents -> Nat]
  <2>1. CASE UNCHANGED <<notices, applied>>
    BY <1>1, <2>1
  <2>2. CASE ShowEffects(o)
    <3> DEFINE shown == [notices EXCEPT ![Target(o)] =
                  [occurrence |-> NewOccurrence, by |-> o, resolvedBy |-> None]]
    <3>1. Target(o) \in Keys
      BY DEF Target, Keys
    <3>2. shown \in NoticeType
      BY <1>1, <3>1, NoticeTypes DEF NoticeType, Nullable
    <3>3. notices' = shown \/ notices' = [shown EXCEPT !["connection"].resolvedBy = o]
      BY <2>2 DEF ShowEffects
    <3> HIDE DEF shown
    <3>4. notices' \in NoticeType
      BY <3>2, <3>3 DEF NoticeType, Nullable
    <3>5. applied' \in [Consents -> Nat]
      BY <1>1, <2>2 DEF ShowEffects
    <3> QED
      BY <3>4, <3>5
  <2> QED
    BY <2>1, <2>2 DEF ApplyEffects
<1> QED
  BY <1>1, <1>2, <1>3, <1>4, <1>5, CallbackMoves

(* An older instance publishes a notice.                                   *)
LEMMA LegacyInv ==
  ASSUME ConsentTypeOK, ConsentInv, UNCHANGED <<authority, revisions>>,
         NEW k \in Keys, LegacyPublishes(k)
  PROVE  ConsentTypeOK' /\ ConsentInv'
<1>1. UNCHANGED <<asked, operation, callback, applied, concluded, tenantVars>>
  BY DEF LegacyPublishes
<1>2. notices' \in NoticeType /\ legacy' \in 0 .. MaxLegacy
  <2>1. notices \in NoticeType /\ legacy \in 0 .. MaxLegacy /\ NewOccurrence \in Nat
    BY NoticeTypes, ConsentType
  <2>2. [occurrence |-> NewOccurrence, by |-> None, resolvedBy |-> None]
          \in [occurrence : Nat, by : Nullable(Consents), resolvedBy : Nullable(Consents)]
    BY <2>1 DEF Nullable
  <2>3. notices' \in NoticeType
    BY <2>1, <2>2 DEF LegacyPublishes, NoticeType
  <2>4. legacy' \in 0 .. MaxLegacy
    BY <2>1 DEF LegacyPublishes
  <2> QED
    BY <2>3, <2>4
<1>3. ConsentTypeOK'
  BY <1>1, <1>2, ConsentType, ConsentTypeNext
<1> QED
  BY <1>1, <1>3, QuietConsent DEF ConsentInv, Pending, Talking

(* The verdict changes the connection under a new incarnation.             *)
LEMMA ConcludeInv ==
  ASSUME RowsInv, AuthorityTypeOK, ConsentTypeOK, ConsentInv, UNCHANGED <<authority, revisions>>,
         NEW o \in Consents, NEW b \in Browsers, NEW verdict \in Verdicts,
         operation[o].state = "CLAIMED", Talking(o, b), Present,
         Conclude(o, verdict), Standing(o, b, "effects")
  PROVE  ConsentTypeOK' /\ ConsentInv' /\ RowsInv' /\ TenantMoved /\ AttemptKept
<1> USE DEF Conclude
<1>1. /\ connection.incarnation \in Nat /\ NewIncarnation \in Nat
      /\ NewIncarnation = connection.incarnation + 1
      /\ tenant \in {"PENDING", "ACTIVE", "SUSPENDED", "REMOVED"}
      /\ operation \in [Consents -> OperationRecord] /\ callback \in CallbackType
      /\ notices \in NoticeType
      /\ None \in Nullable(Verdicts)
  BY ConsentType DEF RowsInv, TenantTypeOK, NewIncarnation, Nullable
<1>2. /\ connection' \in ConnectionType
      /\ connection'.incarnation = NewIncarnation
      /\ connection'.version = connection.version + 1
  BY <1>1, ConnectionWritten DEF RowsInv
<1>3. RowsInv' /\ TenantMoved /\ AttemptKept
  BY <1>1, <1>2, RotationMoved
<1>4. /\ operation' \in [Consents -> OperationRecord]
      /\ operation'[o].state = verdict
      /\ \A oo \in Consents : oo # o => operation'[oo] = operation[oo]
  <2>1. Occurrences \in Nullable([Keys -> Nat])
    BY <1>1 DEF Occurrences, NoticeType, Nullable
  <2> DEFINE ended == [state |-> verdict, configuration |-> operation[o].configuration,
                       connection |-> operation[o].connection, claim |-> operation[o].claim,
                       result |-> NewIncarnation, snapshot |-> Occurrences, live |-> FALSE]
  <2>3. operation' = [operation EXCEPT ![o] = ended]
    OBVIOUS
  <2>4. ended \in OperationRecord
    BY <1>1, <2>1 DEF OperationRecord, Verdicts, Terminal
  <2> HIDE DEF ended
  <2>5. operation' \in [Consents -> OperationRecord] /\ operation'[o] = ended
        /\ \A oo \in Consents : oo # o => operation'[oo] = operation[oo]
    BY <1>1, <2>3, <2>4
  <2> QED
    BY <2>5 DEF ended
<1>5. /\ callback' \in CallbackType /\ callback'[o][b].at = "effects"
      /\ \A oo \in Consents, bb \in Browsers :
           oo # o \/ bb # b => callback'[oo][bb] = callback[oo][bb]
      /\ UNCHANGED <<asked, notices, legacy, applied>>
  BY <1>1, StandingMoved DEF Standing
<1>6. ConsentTypeOK'
  BY <1>4, <1>5, ConsentType, ConsentTypeNext
<1>7. \A bb \in Browsers : ~Talking(o, bb)'
  <2>1. \A bb \in Browsers : bb # b => ~Talking(o, bb)
    BY DEF ConsentInv
  <2> QED
    BY <1>5, <2>1 DEF Talking
<1>8. ~Pending(o)' /\ asked[o].at = "issued"
  BY <1>4 DEF Pending, Verdicts, ConsentInv
<1>9. \A oo \in Consents : Pending(oo)' =>
        /\ oo # o /\ Pending(oo)
        /\ operation'[oo].configuration \in Seen'
        /\ operation'[oo].connection < connection'.incarnation
        /\ operation'[oo].connection <= connection'.incarnation
  <2> SUFFICES ASSUME NEW oo \in Consents, Pending(oo)'
               PROVE  /\ oo # o /\ Pending(oo)
                      /\ operation'[oo].configuration \in Seen'
                      /\ operation'[oo].connection < connection'.incarnation
                      /\ operation'[oo].connection <= connection'.incarnation
    OBVIOUS
  <2>1. oo # o /\ operation'[oo] = operation[oo]
    BY <1>4, <1>8
  <2>2. Pending(oo)
    BY <2>1 DEF Pending
  <2>3. operation[oo].connection \in Nat
    BY <1>1 DEF OperationRecord
  <2> QED
    BY <1>1, <1>2, <2>1, <2>2, <2>3 DEF ConsentInv, Seen
<1>10. \A oo \in Consents : ~Waiting(oo)'
  <2>1. \A oo \in Consents : operation'[oo].connection \in Nat
    BY <1>4 DEF OperationRecord
  <2> QED
    BY <1>1, <1>2, <1>9, <2>1 DEF Waiting
<1>11. \A oo \in concluded' : ~Pending(oo)'
  BY <1>8, <1>9 DEF ConsentInv, ConsentTypeOK
<1>12. \A oo \in Consents, bb \in Browsers : Talking(oo, bb)' =>
         operation'[oo].state = None
           \/ (operation'[oo].state = "CLAIMED" /\ operation'[oo].claim = bb)
  BY <1>4, <1>5, <1>7 DEF ConsentInv, Talking
<1>13. \A oo \in Consents : asked'[oo].at # "issued" =>
         /\ operation'[oo].state = None /\ oo \notin concluded'
         /\ \A bb \in Browsers : callback'[oo][bb].at = "new"
  BY <1>4, <1>5, <1>8 DEF ConsentInv
<1>15. \A oo \in Consents, bb \in Browsers :
         callback'[oo][bb].at = "finishing" => callback'[oo][bb].verdict \in Verdicts
  BY <1>5 DEF ConsentInv
<1>14. ConsentInv'
  BY <1>9, <1>10, <1>11, <1>12, <1>13, <1>15 DEF ConsentInv
<1> QED
  BY <1>3, <1>6, <1>14

(* A finished operation is concluded or ended alone.                       *)
LEMMA FinishInv ==
  ASSUME RowsInv, AuthorityTypeOK, ConsentTypeOK, ConsentInv, UNCHANGED <<authority, revisions>>,
         NEW o \in Consents, NEW b \in Browsers, FinishConsentOperation(o, b)
  PROVE  ConsentTypeOK' /\ ConsentInv' /\ RowsInv' /\ TenantMoved /\ AttemptKept
<1>1. /\ callback \in CallbackType /\ operation \in [Consents -> OperationRecord]
      /\ notices \in NoticeType /\ applied \in [Consents -> Nat]
      /\ None \in Nullable(Verdicts) /\ Talking(o, b) /\ asked[o].at = "issued"
      /\ operation[o].state = "CLAIMED" /\ Standing(o, b, "effects")
  BY ConsentType DEF FinishConsentOperation, Talking, ConsentInv, Nullable
<1>5. callback[o][b].verdict \in Verdicts
  BY DEF ConsentInv, FinishConsentOperation
<1>2. CASE operation[o].live /\ StillExpected(o) /\ Conclude(o, callback[o][b].verdict)
  BY <1>1, <1>2, <1>5, ConcludeInv DEF StillExpected
<1>3. CASE UNCHANGED <<tenantVars, concluded>>
           /\ (EndAlone(o, "EXPIRED") \/ EndAlone(o, "SUPERSEDED"))
  <2>1. PICK state \in {"SUPERSEDED", "EXPIRED"} : EndAlone(o, state)
    BY <1>3
  <2>2. /\ operation' \in [Consents -> OperationRecord]
        /\ operation'[o].state = state
        /\ \A oo \in Consents : oo # o => operation'[oo] = operation[oo]
    BY <1>1, <2>1, EndAloneMoved DEF Terminal
  <2>3. /\ callback' \in CallbackType /\ callback'[o][b].at = "effects"
        /\ \A oo \in Consents, bb \in Browsers :
             oo # o \/ bb # b => callback'[oo][bb] = callback[oo][bb]
        /\ UNCHANGED <<asked, notices, legacy, applied>>
    BY <1>1, StandingMoved DEF Standing
  <2>4. ~Talking(o, b)' /\ \A bb \in Browsers : bb # b => ~Talking(o, bb)
    BY <1>1, <2>3 DEF ConsentInv, Talking
  <2>5. ConsentTypeOK' /\ ConsentInv'
    BY <1>1, <1>3, <2>2, <2>3, <2>4, CallbackMoves
  <2> QED
    BY <1>3, <2>5, RowsUnchanged
<1> QED
  BY <1>2, <1>3 DEF FinishConsentOperation

(* The tenant is removed, and the operations with it.                      *)
LEMMA ForgetInv ==
  ASSUME ConsentTypeOK, ConsentInv, ForgetConsents
  PROVE  ConsentTypeOK' /\ ConsentInv' /\ \A o \in Consents : ~Pending(o)'
<1>1. UNCHANGED <<asked, callback, notices, legacy, applied, concluded>>
  BY DEF ForgetConsents
<1>2. NoOperation \in OperationRecord /\ NoOperation.state = None
  BY DEF NoOperation, OperationRecord, Nullable, Configuration
<1>3. /\ operation' \in [Consents -> OperationRecord]
      /\ \A o \in Consents : operation'[o].state = None
  BY <1>2 DEF ForgetConsents
<1>4. ConsentTypeOK'
  BY <1>1, <1>3, ConsentType, ConsentTypeNext
<1>5. \A o \in Consents : ~Pending(o)' /\ ~Waiting(o)'
  BY <1>3 DEF Pending, Waiting
<1>6. ConsentInv'
  BY <1>1, <1>3, <1>4, <1>5 DEF ConsentInv, ConsentTypeOK
<1> QED
  BY <1>4, <1>5, <1>6

(* Every step of the consents.                                             *)
LEMMA ConsentStepInv ==
  ASSUME RowsInv, AuthorityTypeOK, ConsentTypeOK, ConsentInv,
         UNCHANGED authorityVars, ConsentStep
  PROVE  ConsentTypeOK' /\ ConsentInv' /\ RowsInv' /\ TenantMoved /\ AttemptKept
<1>1. UNCHANGED <<authority, revisions>> /\ revisions \subseteq revisions'
  BY DEF authorityVars
<1>2. ASSUME NEW o \in Consents,
             LookUp(o) \/ Prepare(o) \/ IssueRefused(o)
      PROVE  ConsentTypeOK' /\ ConsentInv' /\ UNCHANGED tenantVars
  BY <1>1, <1>2, AskStepInv DEF LookUp, Prepare, IssueRefused
<1>3. ASSUME NEW o \in Consents, Lapse(o)
      PROVE  ConsentTypeOK' /\ ConsentInv' /\ UNCHANGED tenantVars
  BY <1>1, <1>3, LapseInv DEF Lapse
<1>4. ASSUME NEW o \in Consents, NEW b \in Browsers,
             \/ ClaimConsentOperation(o, b) \/ VerifyConsent(o, b) \/ ApplyEffects(o, b)
             \/ FinishSuperseded(o, b) \/ FinishAlone(o, b) \/ FinishUntrusted(o, b)
             \/ CallbackDies(o, b)
      PROVE  ConsentTypeOK' /\ ConsentInv' /\ UNCHANGED tenantVars
  <2>1. UNCHANGED tenantVars
    BY <1>4 DEF ClaimConsentOperation, VerifyConsent, ApplyEffects, FinishSuperseded,
                FinishAlone, FinishUntrusted, CallbackDies
  <2> QED
    BY <1>1, <1>4, <2>1, ClaimInv, VerifyInv, ApplyInv, FinishAsideInv
<1>5. ASSUME NEW k \in Keys, LegacyPublishes(k)
      PROVE  ConsentTypeOK' /\ ConsentInv' /\ UNCHANGED tenantVars
  BY <1>1, <1>5, LegacyInv DEF LegacyPublishes
<1>6. ASSUME NEW o \in Consents, Issue(o)
      PROVE  ConsentTypeOK' /\ ConsentInv' /\ RowsInv' /\ TenantMoved /\ AttemptKept
  BY <1>1, <1>6, IssueInv
<1>7. ASSUME NEW o \in Consents, NEW b \in Browsers, FinishConsentOperation(o, b)
      PROVE  ConsentTypeOK' /\ ConsentInv' /\ RowsInv' /\ TenantMoved /\ AttemptKept
  BY <1>1, <1>7, FinishInv
<1> QED
  BY <1>1, <1>2, <1>3, <1>4, <1>5, <1>6, <1>7, RowsUnchanged DEF ConsentStep

-----------------------------------------------------------------------------
(* The checks of the connection.                                           *)
CheckInv ==
  \A v \in Checks : check[v].at = "captured" =>
    /\ check[v].configuration \in Seen
    /\ check[v].incarnation <= connection.incarnation
    /\ check[v].version <= connection.version
    /\ check[v].kind # "verify" => check[v].scope <= roles.scope

CheckRecord ==
  [at : {"new", "captured", "applied", "superseded", "stopped"},
   kind : Nullable(CheckKinds \cup {"refreshed"}), version : Nat, incarnation : Nat,
   configuration : Configuration, scope : Nat, enabled : BOOLEAN]

CheckTypeOK == check \in [Checks -> CheckRecord]

(* No verification has begun at the start.                                 *)
LEMMA InitCheck ==
  ASSUME VerificationInit
  PROVE  CheckTypeOK /\ CheckInv
<1>1. NoCheck \in CheckRecord /\ NoCheck.at = "new"
  BY DEF NoCheck, CheckRecord, Nullable, Configuration
<1> QED
  BY <1>1 DEF VerificationInit, CheckTypeOK, CheckInv

(* What a verification captured stays behind the rows when others move.    *)
LEMMA CheckFrame ==
  ASSUME RowsInv, CheckTypeOK, CheckInv, UNCHANGED check, Moved,
         connection' \in ConnectionType, roles' \in RolesType
  PROVE  CheckTypeOK' /\ CheckInv'
<1>1. CheckTypeOK'
  BY DEF CheckTypeOK
<1>2. /\ connection.incarnation \in Nat /\ connection.version \in Nat /\ roles.scope \in Nat
      /\ connection'.incarnation \in Nat /\ connection'.version \in Nat
      /\ roles'.scope \in Nat
  BY DEF RowsInv, TenantTypeOK, ConnectionType, RolesType
<1>3. CheckInv'
  BY <1>2 DEF CheckInv, CheckTypeOK, CheckRecord, Moved, AuthorityMoved, TenantMoved
<1> QED
  BY <1>1, <1>3

(* The rows of the tenant move and one check with them.                    *)
LEMMA CheckMoves ==
  ASSUME RowsInv, CheckTypeOK, CheckInv, Moved, RowsInv', NEW v \in Checks,
         NEW c \in CheckRecord, check' = [check EXCEPT ![v] = c],
         c.at = "captured" =>
           /\ c.configuration \in Seen'
           /\ c.incarnation <= connection'.incarnation
           /\ c.version <= connection'.version
           /\ c.kind # "verify" => c.scope <= roles'.scope
  PROVE  CheckTypeOK' /\ CheckInv'
<1>1. CheckTypeOK'
  BY DEF CheckTypeOK
<1>2. /\ connection.incarnation \in Nat /\ connection.version \in Nat /\ roles.scope \in Nat
      /\ connection'.incarnation \in Nat /\ connection'.version \in Nat
      /\ roles'.scope \in Nat
  BY DEF RowsInv, TenantTypeOK
<1>3. check'[v] = c /\ \A u \in Checks : u # v => check'[u] = check[u]
  BY DEF CheckTypeOK
<1>4. CheckInv'
  BY <1>2, <1>3 DEF CheckInv, CheckTypeOK, CheckRecord, Moved, AuthorityMoved, TenantMoved
<1> QED
  BY <1>1, <1>4

(* A captured context is typed and is that of the rows.                    *)
LEMMA CapturedFields ==
  ASSUME RowsInv, AuthorityTypeOK, NEW kind \in CheckKinds \cup {"refreshed"}
  PROVE  /\ Captured(kind) \in CheckRecord
         /\ Captured(kind).at = "captured" /\ Captured(kind).kind = kind
         /\ Captured(kind).configuration = authority.revision
         /\ Captured(kind).incarnation = connection.incarnation
         /\ Captured(kind).version = connection.version
         /\ kind # "verify" => Captured(kind).scope = roles.scope
                                 /\ Captured(kind).enabled = roles.enabled
<1>1. /\ connection.incarnation \in Nat /\ connection.version \in Nat /\ roles.scope \in Nat
      /\ roles.enabled \in BOOLEAN
      /\ authority.revision \in Configuration
      /\ kind \in Nullable(CheckKinds \cup {"refreshed"})
  BY DEF RowsInv, TenantTypeOK, AuthorityTypeOK, Configuration, Nullable
<1> QED
  BY <1>1 DEF Captured, CheckRecord

(* The record of a verification that has reported.                         *)
LEMMA ReportedCheck ==
  ASSUME NEW answer \in {"applied", "superseded", "stopped"}
  PROVE  /\ [NoCheck EXCEPT !.at = answer] \in CheckRecord
         /\ [NoCheck EXCEPT !.at = answer].at = answer
<1>1. NoCheck \in CheckRecord
  BY DEF NoCheck, CheckRecord, Nullable, Configuration
<1> QED
  BY <1>1 DEF CheckRecord

(* A published verification rotates the incarnation.                       *)
LEMMA PublicationMoved ==
  ASSUME RowsInv, UNCHANGED <<authority, revisions>>, Present,
         NEW connected \in BOOLEAN, Publication(connected)
  PROVE  RowsInv' /\ TenantMoved /\ AttemptKept
         /\ connection'.incarnation = connection.incarnation + 1
<1>1. NewIncarnation \in Nat /\ NewIncarnation = connection.incarnation + 1
  BY DEF RowsInv, TenantTypeOK, NewIncarnation
<1>2. /\ connection' \in ConnectionType
      /\ connection'.incarnation = NewIncarnation
      /\ connection'.version = connection.version + 1
  BY <1>1, ConnectionWritten DEF Publication, RowsInv
<1> QED
  BY <1>1, <1>2, RotationMoved DEF Publication

(* What a refresh of the connection writes, and what becomes of the check. *)
LEMMA RefreshMoved ==
  ASSUME RowsInv, AuthorityTypeOK, CheckTypeOK, UNCHANGED <<authority, revisions>>,
         NEW v \in Checks, PublishCapturedConnectionRefresh(v)
  PROVE  /\ RowsInv' /\ TenantMoved /\ AttemptKept
         /\ connection'.version = connection.version + 1
         /\ \/ Report(v, "applied")
            \/ /\ check[v].kind = "sync"
               /\ check' = [check EXCEPT ![v].kind = "refreshed", ![v].version = connection'.version]
               /\ connection'.incarnation = connection.incarnation
               /\ UNCHANGED roles
<1> USE DEF PublishCapturedConnectionRefresh
<1>1. /\ NewIncarnation \in Nat /\ NewIncarnation = connection.incarnation + 1
      /\ connection.incarnation \in Nat
      /\ connection.status \in {"PENDING_CONSENT", "CONNECTED", "ERROR", "REVOKED"}
      /\ tenant \in {"PENDING", "ACTIVE", "SUSPENDED", "REMOVED"}
      /\ Present
  BY DEF RowsInv, TenantTypeOK, NewIncarnation, SameCapturedContext
<1>2. CASE connection' = ConnectionWith(connection.status, connection.incarnation) /\ UNCHANGED roles
  <2>1. /\ connection'.version = connection.version + 1
        /\ connection'.incarnation = connection.incarnation
    BY <1>1, <1>2, ConnectionWritten DEF RowsInv
  <2> QED
    BY <1>2, <2>1, StampMoved
<1>3. CASE /\ connection' = [ConnectionWith(connection.status, NewIncarnation) EXCEPT !.exchange = TRUE]
           /\ roles' = RolesWithoutAttempt
           /\ Report(v, "applied")
  <2>1. /\ connection' \in ConnectionType
        /\ connection'.incarnation = connection.incarnation + 1
        /\ connection'.version = connection.version + 1
    <3>1. /\ ConnectionWith(connection.status, NewIncarnation) \in ConnectionType
          /\ ConnectionWith(connection.status, NewIncarnation).incarnation = NewIncarnation
          /\ ConnectionWith(connection.status, NewIncarnation).version = connection.version + 1
      BY <1>1, ConnectionWritten DEF RowsInv
    <3> QED
      BY <1>1, <1>3, <3>1 DEF ConnectionType
  <2> QED
    BY <1>1, <1>3, <2>1, RotationMoved
<1> QED
  BY <1>2, <1>3

(* Every step of a verification or a synchronisation.                      *)
LEMMA VerificationStepInv ==
  ASSUME RowsInv, AuthorityTypeOK, AuthorityInv, CheckTypeOK, CheckInv,
         UNCHANGED authorityVars, VerificationStep
  PROVE  CheckTypeOK' /\ CheckInv' /\ RowsInv' /\ TenantMoved /\ AttemptKept
<1>1. /\ UNCHANGED <<authority, revisions>> /\ revisions \subseteq revisions'
      /\ AuthorityMoved /\ Seen' = Seen /\ authority.revision \in Seen
  BY DEF authorityVars, AuthorityMoved, Seen
<1>2. PICK v \in Checks :
        \/ CaptureConnectionVerification(v) \/ PublishConnectionVerification(v)
        \/ PublishCapturedConnectionRefresh(v) \/ VerificationSuperseded(v)
        \/ VerificationStops(v)
  BY DEF VerificationStep
<1>3. CASE CaptureConnectionVerification(v)
  <2>1. PICK kind \in CheckKinds \cup {"refreshed"} : check' = [check EXCEPT ![v] = Captured(kind)]
    BY <1>3 DEF CaptureConnectionVerification
  <2>2. UNCHANGED tenantVars
    BY <1>3 DEF CaptureConnectionVerification
  <2>3. RowsInv' /\ TenantMoved /\ AttemptKept
    BY <1>1, <2>2, RowsUnchanged
  <2>4. /\ connection.incarnation \in Nat /\ connection.version \in Nat /\ roles.scope \in Nat
        /\ connection' = connection /\ roles' = roles
    BY <2>2 DEF RowsInv, TenantTypeOK, tenantVars
  <2>5. /\ Captured(kind) \in CheckRecord
        /\ Captured(kind).configuration \in Seen'
        /\ Captured(kind).incarnation <= connection'.incarnation
        /\ Captured(kind).version <= connection'.version
        /\ Captured(kind).kind # "verify" => Captured(kind).scope <= roles'.scope
    BY <1>1, <2>4, CapturedFields
  <2> QED
    BY <1>1, <2>1, <2>3, <2>5, CheckMoves DEF Moved
<1>4. CASE PublishConnectionVerification(v)
  <2>1. PICK connected \in BOOLEAN : Publication(connected)
    BY <1>4 DEF PublishConnectionVerification
  <2>2. Present /\ check' = [check EXCEPT ![v] = [NoCheck EXCEPT !.at = "applied"]]
    BY <1>4 DEF PublishConnectionVerification, SameCapturedContext, Report
  <2>3. RowsInv' /\ TenantMoved /\ AttemptKept
    BY <1>1, <2>1, <2>2, PublicationMoved
  <2> QED
    BY <1>1, <2>2, <2>3, ReportedCheck, CheckMoves DEF Moved
<1>5. CASE PublishCapturedConnectionRefresh(v)
  <2>1. RowsInv' /\ TenantMoved /\ AttemptKept
    BY <1>1, <1>5, RefreshMoved
  <2>2. CASE Report(v, "applied")
    BY <1>1, <2>1, <2>2, ReportedCheck, CheckMoves DEF Moved, Report
  <2>3. CASE /\ check[v].kind = "sync"
             /\ check' = [check EXCEPT ![v].kind = "refreshed", ![v].version = connection'.version]
             /\ connection'.incarnation = connection.incarnation
             /\ UNCHANGED roles
    <3> DEFINE c == [check[v] EXCEPT !.kind = "refreshed", !.version = connection'.version]
    <3>1. /\ connection'.incarnation \in Nat /\ connection'.version \in Nat /\ roles.scope \in Nat
          /\ check[v] \in CheckRecord
      BY <2>1, <2>3 DEF RowsInv, TenantTypeOK, CheckTypeOK
    <3>2. check[v].at = "captured" /\ SameCapturedContext(v) /\ check[v] = Captured("sync")
      BY <1>5, <2>3 DEF PublishCapturedConnectionRefresh, SameCapturedContext
    <3>3. check' = [check EXCEPT ![v] = c]
      BY <2>3, <3>1 DEF CheckTypeOK, CheckRecord
    <3>4. /\ c \in CheckRecord
          /\ c.configuration = check[v].configuration /\ c.incarnation = check[v].incarnation
          /\ c.version = connection'.version /\ c.scope = check[v].scope
      BY <3>1 DEF CheckRecord, Nullable
    <3>5. /\ check[v].configuration = authority.revision
          /\ check[v].incarnation = connection.incarnation
          /\ check[v].scope = roles.scope
      BY <3>2, CapturedFields DEF CheckKinds
    <3> HIDE DEF c
    <3>6. /\ c.configuration \in Seen'
          /\ c.incarnation <= connection'.incarnation
          /\ c.version <= connection'.version
          /\ c.scope <= roles'.scope
      BY <1>1, <2>3, <3>1, <3>4, <3>5
    <3> QED
      BY <1>1, <2>1, <3>3, <3>4, <3>6, CheckMoves DEF Moved
  <2> QED
    BY <1>1, <1>5, <2>1, <2>2, <2>3, RefreshMoved
<1>6. CASE VerificationSuperseded(v) \/ VerificationStops(v)
  <2>1. UNCHANGED tenantVars
    BY <1>6 DEF VerificationSuperseded, VerificationStops
  <2>2. PICK answer \in {"applied", "superseded", "stopped"} :
          check' = [check EXCEPT ![v] = [NoCheck EXCEPT !.at = answer]]
    BY <1>6 DEF VerificationSuperseded, VerificationStops, Report
  <2>3. RowsInv' /\ TenantMoved /\ AttemptKept
    BY <1>1, <2>1, RowsUnchanged
  <2> QED
    BY <1>1, <2>2, <2>3, ReportedCheck, CheckMoves DEF Moved
<1> QED
  BY <1>2, <1>3, <1>4, <1>5, <1>6

-----------------------------------------------------------------------------
(* The collections, their control and their readers.                       *)
CollectorRecord ==
  [at : {"new", "busy", "collecting", "ended", "committed"},
   connection : Nat, configuration : Configuration, scope : Nat]

ControlRecord ==
  [at : {"new", "shown", "changed", "refused"},
   context : Nullable(Revisions \X Nat \X Nat \X BOOLEAN)]

ReaderRecord ==
  [at : {"new", "rows", "current", "superseded"},
   configuration : Configuration, bound : BOOLEAN, was : BOOLEAN]

RoleTypeOK ==
  /\ collector \in [Collectors -> CollectorRecord]
  /\ control \in [Controls -> ControlRecord]
  /\ reader \in [Readers -> ReaderRecord]

(* A reader that found evidence that was not current finds no authority    *)
(* that makes it so.                                                       *)
RoleInv ==
  /\ \A k \in Collectors : collector[k].at = "collecting" =>
       /\ collector[k].configuration \in revisions
       /\ collector[k].connection <= connection.incarnation
       /\ collector[k].scope <= roles.scope
  /\ \A d \in Controls : control[d].at = "shown" =>
       /\ control[d].context \in Revisions \X Nat \X Nat \X BOOLEAN
       /\ control[d].context[1] \in Seen
       /\ control[d].context[2] <= connection.incarnation
       /\ control[d].context[3] <= roles.scope
  /\ \A r \in Readers : reader[r].at = "rows" /\ reader[r].bound /\ ~reader[r].was =>
       reader[r].configuration \in Seen /\ reader[r].configuration # authority.revision
  /\ ReaderTruthful

(* No collection, control or reader has begun at the start.                *)
LEMMA InitRoles ==
  ASSUME DirectoryRolesInit
  PROVE  RoleTypeOK /\ RoleInv
<1>1. NoCollection \in CollectorRecord /\ NoCollection.at = "new"
  BY DEF NoCollection, CollectorRecord, Nullable, Configuration
<1>2. NothingRead \in ReaderRecord /\ NothingRead.at = "new"
  BY DEF NothingRead, ReaderRecord, Nullable, Configuration
<1>3. [at |-> "new", context |-> None] \in ControlRecord
  BY DEF ControlRecord, Nullable
<1> QED
  BY <1>1, <1>2, <1>3 DEF DirectoryRolesInit, RoleTypeOK, RoleInv, ReaderTruthful

(* What they captured stays behind the rows when others move.              *)
LEMMA RoleFrame ==
  ASSUME AuthorityTypeOK, RowsInv, RoleTypeOK, RoleInv, UNCHANGED roleVars, Moved, RowsInv'
  PROVE  RoleTypeOK' /\ RoleInv'
<1>1. RoleTypeOK'
  BY DEF RoleTypeOK, roleVars
<1>2. /\ connection.incarnation \in Nat /\ roles.scope \in Nat
      /\ connection'.incarnation \in Nat /\ roles'.scope \in Nat
  BY DEF RowsInv, TenantTypeOK
<1>3. UNCHANGED <<collector, control, reader>>
  BY DEF roleVars
<1>4. /\ Seen \subseteq Seen' /\ revisions \subseteq revisions'
      /\ authority' = authority \/ authority'.revision \notin Seen
      /\ connection'.incarnation >= connection.incarnation
      /\ roles'.scope >= roles.scope
  BY DEF Moved, AuthorityMoved, TenantMoved
<1>5. \A k \in Collectors : collector'[k].at = "collecting" =>
       /\ collector'[k].configuration \in revisions'
       /\ collector'[k].connection <= connection'.incarnation
       /\ collector'[k].scope <= roles'.scope
  BY <1>2, <1>3, <1>4 DEF RoleInv, RoleTypeOK, CollectorRecord
<1>6. \A d \in Controls : control'[d].at = "shown" =>
       /\ control'[d].context \in Revisions \X Nat \X Nat \X BOOLEAN
       /\ control'[d].context[1] \in Seen'
       /\ control'[d].context[2] <= connection'.incarnation
       /\ control'[d].context[3] <= roles'.scope
  BY <1>2, <1>3, <1>4 DEF RoleInv
<1>7. \A r \in Readers : reader'[r].at = "rows" /\ reader'[r].bound /\ ~reader'[r].was =>
       reader'[r].configuration \in Seen' /\ reader'[r].configuration # authority'.revision
  BY <1>3, <1>4 DEF RoleInv
<1>8. ReaderTruthful'
  BY <1>3 DEF RoleInv, ReaderTruthful
<1> QED
  BY <1>1, <1>5, <1>6, <1>7, <1>8 DEF RoleInv

(* One collector moves, and captures nothing ahead of the rows.            *)
LEMMA CollectorMoves ==
  ASSUME AuthorityTypeOK, RowsInv, RoleTypeOK, RoleInv, Moved, RowsInv',
         UNCHANGED <<control, reader>>, NEW k \in Collectors, NEW c \in CollectorRecord,
         collector' = [collector EXCEPT ![k] = c],
         c.at = "collecting" =>
           /\ c.configuration \in revisions'
           /\ c.connection <= connection'.incarnation
           /\ c.scope <= roles'.scope
  PROVE  RoleTypeOK' /\ RoleInv'
<1>1. RoleTypeOK'
  BY DEF RoleTypeOK
<1>2. /\ connection.incarnation \in Nat /\ roles.scope \in Nat
      /\ connection'.incarnation \in Nat /\ roles'.scope \in Nat
  BY DEF RowsInv, TenantTypeOK
<1>3. /\ collector'[k] = c
      /\ \A j \in Collectors : j # k => collector'[j] = collector[j]
      /\ \A j \in Collectors : collector[j].scope \in Nat /\ collector[j].connection \in Nat
  BY DEF RoleTypeOK, CollectorRecord
<1>4. /\ Seen \subseteq Seen' /\ revisions \subseteq revisions'
      /\ authority' = authority \/ authority'.revision \notin Seen
      /\ connection'.incarnation >= connection.incarnation
      /\ roles'.scope >= roles.scope
  BY DEF Moved, AuthorityMoved, TenantMoved
<1>5. \A j \in Collectors : collector'[j].at = "collecting" =>
       /\ collector'[j].configuration \in revisions'
       /\ collector'[j].connection <= connection'.incarnation
       /\ collector'[j].scope <= roles'.scope
  BY <1>2, <1>3, <1>4 DEF RoleInv
<1>6. \A d \in Controls : control'[d].at = "shown" =>
       /\ control'[d].context \in Revisions \X Nat \X Nat \X BOOLEAN
       /\ control'[d].context[1] \in Seen'
       /\ control'[d].context[2] <= connection'.incarnation
       /\ control'[d].context[3] <= roles'.scope
  BY <1>2, <1>4 DEF RoleInv
<1>7. \A r \in Readers : reader'[r].at = "rows" /\ reader'[r].bound /\ ~reader'[r].was =>
       reader'[r].configuration \in Seen' /\ reader'[r].configuration # authority'.revision
  BY <1>4 DEF RoleInv
<1>8. ReaderTruthful'
  BY DEF RoleInv, ReaderTruthful
<1> QED
  BY <1>1, <1>5, <1>6, <1>7, <1>8 DEF RoleInv

(* One control request moves.                                              *)
LEMMA ControlMoves ==
  ASSUME AuthorityTypeOK, RowsInv, RoleTypeOK, RoleInv, Moved, RowsInv',
         UNCHANGED <<collector, reader>>, NEW d \in Controls, NEW c \in ControlRecord,
         control' = [control EXCEPT ![d] = c],
         c.at = "shown" =>
           /\ c.context \in Revisions \X Nat \X Nat \X BOOLEAN
           /\ c.context[1] \in Seen'
           /\ c.context[2] <= connection'.incarnation
           /\ c.context[3] <= roles'.scope
  PROVE  RoleTypeOK' /\ RoleInv'
<1>1. RoleTypeOK'
  BY DEF RoleTypeOK
<1>2. /\ connection.incarnation \in Nat /\ roles.scope \in Nat
      /\ connection'.incarnation \in Nat /\ roles'.scope \in Nat
  BY DEF RowsInv, TenantTypeOK
<1>3. /\ control'[d] = c
      /\ \A e \in Controls : e # d => control'[e] = control[e]
      /\ \A j \in Collectors : collector[j].scope \in Nat /\ collector[j].connection \in Nat
  BY DEF RoleTypeOK, CollectorRecord
<1>4. /\ Seen \subseteq Seen' /\ revisions \subseteq revisions'
      /\ authority' = authority \/ authority'.revision \notin Seen
      /\ connection'.incarnation >= connection.incarnation
      /\ roles'.scope >= roles.scope
  BY DEF Moved, AuthorityMoved, TenantMoved
<1>5. \A j \in Collectors : collector'[j].at = "collecting" =>
       /\ collector'[j].configuration \in revisions'
       /\ collector'[j].connection <= connection'.incarnation
       /\ collector'[j].scope <= roles'.scope
  BY <1>2, <1>3, <1>4 DEF RoleInv
<1>6. \A e \in Controls : control'[e].at = "shown" =>
       /\ control'[e].context \in Revisions \X Nat \X Nat \X BOOLEAN
       /\ control'[e].context[1] \in Seen'
       /\ control'[e].context[2] <= connection'.incarnation
       /\ control'[e].context[3] <= roles'.scope
  BY <1>2, <1>3, <1>4 DEF RoleInv
<1>7. \A r \in Readers : reader'[r].at = "rows" /\ reader'[r].bound /\ ~reader'[r].was =>
       reader'[r].configuration \in Seen' /\ reader'[r].configuration # authority'.revision
  BY <1>4 DEF RoleInv
<1>8. ReaderTruthful'
  BY DEF RoleInv, ReaderTruthful
<1> QED
  BY <1>1, <1>5, <1>6, <1>7, <1>8 DEF RoleInv

(* One reader moves.                                                       *)
LEMMA ReaderMoves ==
  ASSUME RoleTypeOK, RoleInv, UNCHANGED <<authorityVars, tenantVars, collector, control>>,
         NEW r \in Readers, NEW c \in ReaderRecord,
         reader' = [reader EXCEPT ![r] = c],
         c.at = "rows" /\ c.bound /\ ~c.was =>
           c.configuration \in Seen /\ c.configuration # authority.revision,
         c.at = "current" => c.was
  PROVE  RoleTypeOK' /\ RoleInv'
<1>1. RoleTypeOK'
  BY DEF RoleTypeOK
<1>2. /\ reader'[r] = c
      /\ \A s \in Readers : s # r => reader'[s] = reader[s]
  BY DEF RoleTypeOK
<1>3. Seen' = Seen /\ UNCHANGED <<authority, revisions, connection, roles>>
  BY DEF Seen, authorityVars, tenantVars
<1>4. \A s \in Readers : reader'[s].at = "rows" /\ reader'[s].bound /\ ~reader'[s].was =>
       reader'[s].configuration \in Seen' /\ reader'[s].configuration # authority'.revision
  BY <1>2, <1>3 DEF RoleInv
<1>5. ReaderTruthful'
  BY <1>2 DEF RoleInv, ReaderTruthful
<1> QED
  BY <1>1, <1>3, <1>4, <1>5 DEF RoleInv

(* Only the attempt in the roles is written.                               *)
LEMMA AttemptWritten ==
  ASSUME RowsInv, UNCHANGED <<authority, revisions, tenant, connection>>,
         NEW a \in AttemptType, roles' = [roles EXCEPT !.attempt = a]
  PROVE  RowsInv' /\ TenantMoved
<1>1. /\ connection.incarnation \in Nat /\ connection.version \in Nat
      /\ roles.scope \in Nat /\ roles \in RolesType
  BY RowsType DEF RowsInv, TenantTypeOK
<1>2. /\ roles' \in RolesType /\ roles'.complete = roles.complete
      /\ roles'.scope = roles.scope /\ roles'.enabled = roles.enabled
  BY <1>1 DEF RolesType
<1>3. TenantTypeOK'
  BY <1>2, RowsType, RowsTypeNext DEF RowsInv
<1> QED
  BY <1>1, <1>2, <1>3 DEF RowsInv, EvidenceInv, TenantMoved, Present

(* The record of a collection that has ended.                              *)
LEMMA EndedCollector ==
  ASSUME NEW at \in {"ended", "committed"}
  PROVE  /\ [NoCollection EXCEPT !.at = at] \in CollectorRecord
         /\ [NoCollection EXCEPT !.at = at].at # "collecting"
<1>1. NoCollection \in CollectorRecord
  BY DEF NoCollection, CollectorRecord, Nullable, Configuration
<1> QED
  BY <1>1 DEF CollectorRecord

(* An attempt begins, or finds another one running.                        *)
LEMMA CaptureRoleInv ==
  ASSUME AuthorityTypeOK, AuthorityInv, RowsInv, RoleTypeOK, RoleInv, UNCHANGED authorityVars,
         AuthorityMoved, NEW k \in Collectors, CaptureRoleAttempt(k)
  PROVE  RoleTypeOK' /\ RoleInv' /\ RowsInv' /\ TenantMoved /\ AttemptMoved
<1> USE DEF CaptureRoleAttempt
<1>1. /\ UNCHANGED <<authority, revisions, tenant, connection, control, reader>>
      /\ authority.revision \in revisions /\ Usable
  BY DEF authorityVars, AuthorityInv, Immutable
<1>2. /\ connection.incarnation \in Nat /\ roles.scope \in Nat
      /\ authority.revision \in Configuration /\ k \in Nullable(Collectors)
      /\ collector[k] \in CollectorRecord
  BY DEF RowsInv, TenantTypeOK, AuthorityTypeOK, Configuration, Nullable, RoleTypeOK
<1>3. CASE collector' = [collector EXCEPT ![k].at = "busy"] /\ UNCHANGED roles
  <2>1. RowsInv' /\ TenantMoved /\ AttemptKept
    BY <1>1, <1>3, RowsUnchanged DEF tenantVars
  <2>2. collector' = [collector EXCEPT ![k] = [collector[k] EXCEPT !.at = "busy"]]
    BY <1>3
  <2>3. /\ [collector[k] EXCEPT !.at = "busy"] \in CollectorRecord
        /\ [collector[k] EXCEPT !.at = "busy"].at = "busy"
    BY <1>2 DEF CollectorRecord
  <2>4. RoleTypeOK' /\ RoleInv'
    BY <1>1, <2>1, <2>2, <2>3, CollectorMoves DEF Moved
  <2> QED
    BY <2>1, <2>4 DEF AttemptKept, AttemptMoved
<1>4. CASE /\ collector' = [collector EXCEPT ![k] =
                [at |-> "collecting", connection |-> connection.incarnation,
                 configuration |-> authority.revision, scope |-> roles.scope]]
           /\ roles' = [roles EXCEPT !.attempt =
                [id |-> k, connection |-> connection.incarnation,
                 configuration |-> authority.revision, scope |-> roles.scope,
                 outcome |-> "RUNNING", live |-> TRUE]]
  <2> DEFINE c == [at |-> "collecting", connection |-> connection.incarnation,
                   configuration |-> authority.revision, scope |-> roles.scope]
             a == [id |-> k, connection |-> connection.incarnation,
                   configuration |-> authority.revision, scope |-> roles.scope,
                   outcome |-> "RUNNING", live |-> TRUE]
  <2>1. a \in AttemptType
    BY <1>2 DEF AttemptType
  <2>2. /\ c \in CollectorRecord /\ c.configuration \in revisions
        /\ c.connection = connection.incarnation /\ c.scope = roles.scope
    BY <1>1, <1>2 DEF CollectorRecord
  <2>3. roles' = [roles EXCEPT !.attempt = a] /\ collector' = [collector EXCEPT ![k] = c]
    BY <1>4
  <2> HIDE DEF a, c
  <2>4. RowsInv' /\ TenantMoved
    BY <1>1, <2>1, <2>3, AttemptWritten
  <2>5. roles'.scope = roles.scope
    BY <2>3, RowsType DEF RowsInv, RolesType
  <2>7. /\ c.configuration \in revisions'
        /\ c.connection <= connection'.incarnation
        /\ c.scope <= roles'.scope
    BY <1>1, <1>2, <2>2, <2>5
  <2>6. RoleTypeOK' /\ RoleInv'
    BY <1>1, <2>2, <2>3, <2>4, <2>7, CollectorMoves DEF Moved
  <2> QED
    BY <1>1, <2>4, <2>6 DEF AttemptMoved
<1> QED
  BY <1>3, <1>4

(* An attempt runs out of time.                                            *)
LEMMA LapseAttemptInv ==
  ASSUME AuthorityTypeOK, RowsInv, RoleTypeOK, RoleInv, UNCHANGED authorityVars,
         AuthorityMoved, LapseAttempt
  PROVE  RoleTypeOK' /\ RoleInv' /\ RowsInv' /\ TenantMoved /\ AttemptMoved
<1>1. /\ UNCHANGED <<authority, revisions, tenant, connection>> /\ UNCHANGED roleVars
      /\ Running
  BY DEF LapseAttempt, authorityVars
<1>2. roles' = [roles EXCEPT !.attempt = [roles.attempt EXCEPT !.live = FALSE]]
  BY DEF LapseAttempt
<1>3. [roles.attempt EXCEPT !.live = FALSE] \in AttemptType
  BY RowsType DEF RowsInv, RolesType, AttemptType
<1>4. RowsInv' /\ TenantMoved
  BY <1>1, <1>2, <1>3, AttemptWritten
<1> QED
  BY <1>1, <1>4, RoleFrame DEF Moved, AttemptMoved

(* An attempt settles without a completion.                                *)
LEMMA SettleInv ==
  ASSUME AuthorityTypeOK, RowsInv, RoleTypeOK, RoleInv, UNCHANGED authorityVars,
         AuthorityMoved, NEW k \in Collectors, Running,
         NEW outcome \in {"FAILED", "PARTIAL", "EXPIRED"}, Settle(k, outcome),
         UNCHANGED <<tenant, connection, control, reader>>
  PROVE  RoleTypeOK' /\ RoleInv' /\ RowsInv' /\ TenantMoved /\ AttemptMoved
<1>1. UNCHANGED <<authority, revisions>>
  BY DEF authorityVars
<1>2. roles' = [roles EXCEPT !.attempt = [roles.attempt EXCEPT !.outcome = outcome]]
  BY DEF Settle
<1>3. [roles.attempt EXCEPT !.outcome = outcome] \in AttemptType
  BY RowsType DEF RowsInv, RolesType, AttemptType
<1>4. RowsInv' /\ TenantMoved
  BY <1>1, <1>2, <1>3, AttemptWritten
<1>5. collector' = [collector EXCEPT ![k] = [NoCollection EXCEPT !.at = "ended"]]
  BY DEF Settle, End
<1>6. RoleTypeOK' /\ RoleInv'
  BY <1>4, <1>5, EndedCollector, CollectorMoves DEF Moved
<1> QED
  BY <1>4, <1>6 DEF AttemptMoved

(* A collection completes: the receipt carries the context of the rows.    *)
LEMMA CompleteInv ==
  ASSUME AuthorityTypeOK, AuthorityInv, RowsInv, RoleTypeOK, RoleInv, UNCHANGED authorityVars,
         AuthorityMoved, NEW k \in Collectors, CompleteRoleAttempt(k)
  PROVE  RoleTypeOK' /\ RoleInv' /\ RowsInv' /\ TenantMoved /\ AttemptMoved
<1> USE DEF CompleteRoleAttempt
<1>1. /\ UNCHANGED <<authority, revisions, tenant, connection, control, reader>>
      /\ Running /\ collector[k].at = "collecting" /\ Owned(k)
  BY DEF authorityVars, Owned
<1>2. CASE Settle(k, "EXPIRED")
  BY <1>1, <1>2, SettleInv
<1> DEFINE receipt == [id |-> k, connection |-> collector[k].connection,
                       configuration |-> collector[k].configuration,
                       scope |-> collector[k].scope]
<1>3. CASE /\ roles' = [roles EXCEPT !.attempt.outcome = "COMPLETE", !.complete = receipt]
           /\ End(k, "committed")
  <2>1. /\ roles \in RolesType /\ collector[k] \in CollectorRecord
        /\ k \in Nullable(Collectors)
        /\ connection.incarnation \in Nat /\ connection.version \in Nat /\ roles.scope \in Nat
    BY RowsType DEF RowsInv, TenantTypeOK, RoleTypeOK, Nullable
  <2>2. /\ receipt \in ReceiptType
        /\ receipt.configuration \in revisions
        /\ receipt.connection <= connection.incarnation
        /\ receipt.scope <= roles.scope
    BY <1>1, <2>1 DEF RoleInv, CollectorRecord, ReceiptType
  <2> HIDE DEF receipt
  <2>3. /\ roles' \in RolesType /\ roles'.complete = receipt
        /\ roles'.scope = roles.scope /\ roles'.enabled = roles.enabled
    BY <1>3, <2>1, <2>2 DEF RolesType, AttemptType
  <2>4. TenantTypeOK'
    BY <1>1, <2>3, RowsType, RowsTypeNext DEF RowsInv
  <2>5. RowsInv' /\ TenantMoved
    BY <1>1, <2>1, <2>2, <2>3, <2>4 DEF RowsInv, EvidenceInv, TenantMoved, Present
  <2>6. collector' = [collector EXCEPT ![k] = [NoCollection EXCEPT !.at = "committed"]]
    BY <1>3 DEF End
  <2>7. RoleTypeOK' /\ RoleInv'
    BY <1>1, <2>5, <2>6, EndedCollector, CollectorMoves DEF Moved
  <2> QED
    BY <1>1, <2>5, <2>7 DEF AttemptMoved
<1> QED
  BY <1>2, <1>3

(* An administrator is shown the context of the rows.                      *)
LEMMA ControlReadInv ==
  ASSUME AuthorityTypeOK, RowsInv, RoleTypeOK, RoleInv, UNCHANGED authorityVars,
         AuthorityMoved, NEW d \in Controls, ReadDirectoryRoleControl(d)
  PROVE  RoleTypeOK' /\ RoleInv' /\ RowsInv' /\ TenantMoved /\ AttemptKept
<1>1. /\ UNCHANGED tenantVars /\ revisions \subseteq revisions' /\ Seen' = Seen
      /\ UNCHANGED <<collector, reader, connection, roles>>
  BY DEF ReadDirectoryRoleControl, authorityVars, tenantVars, Seen
<1>2. RowsInv' /\ TenantMoved /\ AttemptKept
  BY <1>1, RowsUnchanged
<1> DEFINE c == [at |-> "shown", context |-> ControlContext]
<1>3. /\ connection.incarnation \in Nat /\ roles.scope \in Nat /\ roles.enabled \in BOOLEAN
      /\ authority.revision \in Revisions
  BY DEF RowsInv, TenantTypeOK, AuthorityTypeOK
<1>4. /\ ControlContext \in Revisions \X Nat \X Nat \X BOOLEAN
      /\ ControlContext[1] \in Seen /\ ControlContext[2] = connection.incarnation
      /\ ControlContext[3] = roles.scope
  BY <1>3 DEF ControlContext, Seen
<1>5. c \in ControlRecord
  BY <1>4 DEF ControlRecord, Nullable
<1>6. control' = [control EXCEPT ![d] = c] /\ c.context = ControlContext
  BY DEF ReadDirectoryRoleControl
<1> HIDE DEF c
<1>8. /\ c.context \in Revisions \X Nat \X Nat \X BOOLEAN
      /\ c.context[1] \in Seen'
      /\ c.context[2] <= connection'.incarnation
      /\ c.context[3] <= roles'.scope
  BY <1>1, <1>3, <1>4, <1>6
<1>7. RoleTypeOK' /\ RoleInv'
  BY <1>1, <1>2, <1>5, <1>6, <1>8, ControlMoves DEF Moved
<1> QED
  BY <1>2, <1>7

(* The record of a decided control request.                                *)
LEMMA DecidedControl ==
  ASSUME NEW at \in {"changed", "refused"}
  PROVE  [at |-> at, context |-> None] \in ControlRecord
BY DEF ControlRecord, Nullable

(* A control request is decided.                                           *)
LEMMA ControlSetInv ==
  ASSUME AuthorityTypeOK, RowsInv, RoleTypeOK, RoleInv, UNCHANGED authorityVars,
         AuthorityMoved, NEW d \in Controls,
         SetDirectoryRoleControl(d) \/ ControlRefused(d) \/ RemoveManagedDirectoryTenant(d)
  PROVE  RoleTypeOK' /\ RoleInv' /\ RowsInv' /\ TenantMoved /\ AttemptKept
<1> USE DEF SetDirectoryRoleControl, ControlRefused, RemoveManagedDirectoryTenant
<1>1. /\ UNCHANGED <<collector, reader, authority, revisions>>
      /\ revisions \subseteq revisions'
  BY DEF authorityVars
<1>2. RowsInv' /\ TenantMoved /\ AttemptKept
  BY <1>1, ScopeMoved, RemovalMoved, RowsUnchanged
<1>3. PICK at \in {"changed", "refused"} :
        control' = [control EXCEPT ![d] = [at |-> at, context |-> None]]
  BY DEF Decide
<1>4. RoleTypeOK' /\ RoleInv'
  BY <1>1, <1>2, <1>3, DecidedControl, ControlMoves DEF Moved
<1> QED
  BY <1>2, <1>4

(* A reader whose rows were bound to evidence that was not current carries *)
(* a revision that is no longer in force.                                  *)
LEMMA ReadRowsInv ==
  ASSUME AuthorityTypeOK, AuthorityInv, RowsInv, RoleTypeOK, RoleInv, UNCHANGED authorityVars,
         NEW r \in Readers, ReadRoleRows(r) \/ ReadRoleAuthority(r)
  PROVE  RoleTypeOK' /\ RoleInv' /\ RowsInv' /\ TenantMoved /\ AttemptKept
<1>1. /\ UNCHANGED <<authorityVars, tenantVars, collector, control>>
      /\ revisions \subseteq revisions'
  BY DEF ReadRoleRows, ReadRoleAuthority, authorityVars
<1>2. RowsInv' /\ TenantMoved /\ AttemptKept
  BY <1>1, RowsUnchanged
<1>3. CASE ReadRoleRows(r)
  <2> DEFINE c == [at |-> "rows", configuration |-> roles.complete.configuration,
                   bound |-> ReceiptBound, was |-> ReceiptCurrent]
  <2>1. ReceiptBound \in BOOLEAN /\ ReceiptCurrent \in BOOLEAN
    BY DEF ReceiptBound, ReceiptCurrent
  <2>2. roles.complete.configuration \in Configuration
    BY DEF RowsInv, TenantTypeOK
  <2>3. c \in ReaderRecord
    BY <2>1, <2>2 DEF ReaderRecord
  <2>4. /\ c.at = "rows" /\ c.bound = ReceiptBound /\ c.was = ReceiptCurrent
        /\ c.configuration = roles.complete.configuration
    OBVIOUS
  <2>5. reader' = [reader EXCEPT ![r] = c]
    BY <1>3 DEF ReadRoleRows
  <2> HIDE DEF c
  <2>6. ReceiptBound => roles.complete.configuration \in revisions
    BY DEF RowsInv, EvidenceInv, ReceiptBound
  <2>7. ReceiptBound /\ ~ReceiptCurrent =>
          /\ roles.complete.configuration \in Seen
          /\ roles.complete.configuration # authority.revision
    BY <2>6 DEF ReceiptCurrent, Immutable, AuthorityInv, Seen
  <2>8. RoleTypeOK' /\ RoleInv'
    BY <1>1, <2>3, <2>4, <2>5, <2>7, ReaderMoves
  <2> QED
    BY <1>2, <2>8
<1>4. CASE ReadRoleAuthority(r)
  <2> DEFINE at == IF /\ reader[r].bound /\ Immutable
                      /\ reader[r].configuration = authority.revision
                   THEN "current" ELSE "superseded"
  <2>1. /\ reader[r].at = "rows" /\ reader[r] \in ReaderRecord
        /\ reader' = [reader EXCEPT ![r] = [reader[r] EXCEPT !.at = at]]
    BY <1>4 DEF ReadRoleAuthority, RoleTypeOK
  <2>2. at \in {"current", "superseded"}
    OBVIOUS
  <2>3. at = "current" => reader[r].was
    BY <2>1 DEF RoleInv, ReaderRecord
  <2> HIDE DEF at
  <2>4. /\ [reader[r] EXCEPT !.at = at] \in ReaderRecord
        /\ [reader[r] EXCEPT !.at = at].at = at
        /\ [reader[r] EXCEPT !.at = at].was = reader[r].was
    BY <2>1, <2>2 DEF ReaderRecord
  <2>5. RoleTypeOK' /\ RoleInv'
    BY <1>1, <2>1, <2>2, <2>3, <2>4, ReaderMoves
  <2> QED
    BY <1>2, <2>5
<1> QED
  BY <1>3, <1>4

(* Every step of the collection of roles.                                  *)
LEMMA RolesStepInv ==
  ASSUME AuthorityTypeOK, AuthorityInv, RowsInv, RoleTypeOK, RoleInv, UNCHANGED authorityVars,
         DirectoryRolesStep
  PROVE  RoleTypeOK' /\ RoleInv' /\ RowsInv' /\ TenantMoved /\ AttemptMoved
<1>1. AuthorityMoved
  BY AuthorityUnchanged
<1>3. ASSUME NEW k \in Collectors, CaptureRoleAttempt(k)
      PROVE  RoleTypeOK' /\ RoleInv' /\ RowsInv' /\ TenantMoved /\ AttemptMoved
  BY <1>1, <1>3, CaptureRoleInv
<1>4. ASSUME NEW k \in Collectors, FinishRoleAttempt(k)
      PROVE  RoleTypeOK' /\ RoleInv' /\ RowsInv' /\ TenantMoved /\ AttemptMoved
  <2>1. PICK outcome \in {"FAILED", "PARTIAL", "EXPIRED"} : Settle(k, outcome)
    BY <1>4 DEF FinishRoleAttempt
  <2> QED
    BY <1>1, <1>4, <2>1, SettleInv DEF FinishRoleAttempt, Owned
<1>5. ASSUME NEW k \in Collectors, CompleteRoleAttempt(k)
      PROVE  RoleTypeOK' /\ RoleInv' /\ RowsInv' /\ TenantMoved /\ AttemptMoved
  BY <1>1, <1>5, CompleteInv
<1>6. ASSUME NEW k \in Collectors, CollectionLost(k)
      PROVE  RoleTypeOK' /\ RoleInv' /\ RowsInv' /\ TenantMoved /\ AttemptMoved
  <2>1. /\ UNCHANGED tenantVars /\ UNCHANGED <<control, reader>>
        /\ revisions \subseteq revisions'
        /\ collector' = [collector EXCEPT ![k] = [NoCollection EXCEPT !.at = "ended"]]
    BY <1>6 DEF CollectionLost, End, authorityVars
  <2>2. RowsInv' /\ TenantMoved /\ AttemptKept
    BY <2>1, RowsUnchanged
  <2> QED
    BY <1>1, <2>1, <2>2, EndedCollector, CollectorMoves DEF Moved, AttemptKept, AttemptMoved
<1>7. ASSUME LapseAttempt
      PROVE  RoleTypeOK' /\ RoleInv' /\ RowsInv' /\ TenantMoved /\ AttemptMoved
  BY <1>1, <1>7, LapseAttemptInv
<1>8. ASSUME NEW d \in Controls,
             \/ ReadDirectoryRoleControl(d) \/ SetDirectoryRoleControl(d) \/ ControlRefused(d)
      PROVE  RoleTypeOK' /\ RoleInv' /\ RowsInv' /\ TenantMoved /\ AttemptMoved
  BY <1>1, <1>8, ControlReadInv, ControlSetInv DEF AttemptKept, AttemptMoved
<1>9. ASSUME NEW r \in Readers, ReadRoleRows(r) \/ ReadRoleAuthority(r)
      PROVE  RoleTypeOK' /\ RoleInv' /\ RowsInv' /\ TenantMoved /\ AttemptMoved
  BY <1>9, ReadRowsInv DEF AttemptKept, AttemptMoved
<1> QED
  BY <1>3, <1>4, <1>5, <1>6, <1>7, <1>8, <1>9 DEF DirectoryRolesStep

-----------------------------------------------------------------------------
(* The collections of schedules.                                           *)
PimAttemptRecord ==
  [outcome : {None, "IN_FLIGHT", "COMMITTED", "FAILED", "ABANDONED"},
   live : BOOLEAN, current : BOOLEAN]

PimRunRecord ==
  [at : {"new", "captured", "acquiring", "published", "failed", "refused"},
   configuration : Configuration, connection : Nat, scope : Nat]

(* The types of the schedules, one variable at a time.                     *)
LEMMA PimType ==
  /\ PimTypeOK <=> /\ pimScope \in Nat /\ attempt \in [PimRuns -> PimAttemptRecord]
                   /\ pimRun \in [PimRuns -> PimRunRecord]
  /\ PimTypeOK' <=> /\ pimScope' \in Nat /\ attempt' \in [PimRuns -> PimAttemptRecord]
                    /\ pimRun' \in [PimRuns -> PimRunRecord]
BY DEF PimTypeOK, PimAttemptRecord, PimRunRecord

PimInv ==
  \A q \in PimRuns : pimRun[q].at = "acquiring" =>
    /\ pimRun[q].configuration \in Seen
    /\ pimRun[q].connection <= connection.incarnation
    /\ Present => pimRun[q].scope \in 1 .. pimScope

(* No collection of schedules has begun at the start.                      *)
LEMMA InitPim ==
  ASSUME PimInit
  PROVE  PimTypeOK /\ PimInv
<1>1. NoPimAttempt \in PimAttemptRecord
  BY DEF NoPimAttempt, PimAttemptRecord
<1>2. NoPimRun \in PimRunRecord /\ NoPimRun.at = "new"
  BY DEF NoPimRun, PimRunRecord, Nullable, Configuration
<1> QED
  BY <1>1, <1>2, PimType DEF PimInit, PimInv

(* What a run captured stays behind the rows when others move.             *)
LEMMA PimFrame ==
  ASSUME AuthorityTypeOK, RowsInv, PimTypeOK, PimInv, UNCHANGED pimVars, Moved, RowsInv'
  PROVE  PimTypeOK' /\ PimInv'
<1>1. UNCHANGED <<pimScope, attempt, pimRun>>
  BY DEF pimVars
<1>2. /\ connection.incarnation \in Nat /\ connection'.incarnation \in Nat
      /\ connection'.incarnation >= connection.incarnation
      /\ Seen \subseteq Seen' /\ (Present' => Present)
  BY DEF RowsInv, TenantTypeOK, Moved, AuthorityMoved, TenantMoved
<1>3. \A q \in PimRuns : pimRun[q].connection \in Nat /\ pimRun[q].scope \in Nat
  BY PimType DEF PimRunRecord
<1> QED
  BY <1>1, <1>2, <1>3, PimType DEF PimInv

(* The rows of the schedules are deleted with the tenant.                  *)
LEMMA ForgetPimInv ==
  ASSUME AuthorityTypeOK, RowsInv, PimTypeOK, PimInv, ForgetPimSchedules, Moved, RowsInv',
         ~Present'
  PROVE  PimTypeOK' /\ PimInv'
<1>1. pimScope' = 0 /\ pimRun' = pimRun /\ attempt' = [q \in PimRuns |-> NoPimAttempt]
  BY DEF ForgetPimSchedules
<1>2. NoPimAttempt \in PimAttemptRecord
  BY DEF NoPimAttempt, PimAttemptRecord
<1>3. /\ connection.incarnation \in Nat /\ connection'.incarnation \in Nat
      /\ connection'.incarnation >= connection.incarnation
      /\ Seen \subseteq Seen'
  BY DEF RowsInv, TenantTypeOK, Moved, AuthorityMoved, TenantMoved
<1>4. \A q \in PimRuns : pimRun[q].connection \in Nat
  BY PimType DEF PimRunRecord
<1> QED
  BY <1>1, <1>2, <1>3, <1>4, PimType DEF PimInv

(* One collection moves; the scope only grows.                             *)
LEMMA PimMoves ==
  ASSUME RowsInv, PimTypeOK, PimInv, UNCHANGED <<authorityVars, tenantVars>>,
         pimScope' \in Nat, pimScope' >= pimScope,
         attempt' \in [PimRuns -> PimAttemptRecord],
         NEW q \in PimRuns, NEW c \in PimRunRecord, pimRun' = [pimRun EXCEPT ![q] = c],
         c.at = "acquiring" =>
           /\ c.configuration \in Seen
           /\ c.connection <= connection.incarnation
           /\ c.scope \in 1 .. pimScope'
  PROVE  PimTypeOK' /\ PimInv'
<1>1. Seen' = Seen /\ UNCHANGED <<connection, tenant>>
  BY DEF authorityVars, tenantVars, Seen
<1>2. /\ pimRun' \in [PimRuns -> PimRunRecord] /\ pimRun'[q] = c
      /\ \A p \in PimRuns : p # q => pimRun'[p] = pimRun[p]
      /\ \A p \in PimRuns : pimRun[p].scope \in Nat
      /\ pimScope \in Nat
  BY PimType DEF PimRunRecord
<1> QED
  BY <1>1, <1>2, PimType DEF PimInv, Present

(* The record of a run that has ended.                                     *)
LEMMA EndedPimRun ==
  ASSUME NEW at \in {"published", "failed", "refused"}
  PROVE  /\ [NoPimRun EXCEPT !.at = at] \in PimRunRecord
         /\ [NoPimRun EXCEPT !.at = at].at = at
<1>1. NoPimRun \in PimRunRecord
  BY DEF NoPimRun, PimRunRecord, Nullable, Configuration
<1> QED
  BY <1>1 DEF PimRunRecord

(* Abandoning expired attempts touches nothing else.                       *)
LEMMA RetiredType ==
  ASSUME attempt \in [PimRuns -> PimAttemptRecord]
  PROVE  /\ Retired \in [PimRuns -> PimAttemptRecord]
         /\ \A q \in PimRuns : /\ Retired[q].live = attempt[q].live
                               /\ Retired[q].outcome = "IN_FLIGHT" => Retired[q] = attempt[q]
<1>1. \A q \in PimRuns :
        /\ [attempt[q] EXCEPT !.outcome = "ABANDONED"] \in PimAttemptRecord
        /\ [attempt[q] EXCEPT !.outcome = "ABANDONED"].live = attempt[q].live
        /\ [attempt[q] EXCEPT !.outcome = "ABANDONED"].outcome = "ABANDONED"
  BY DEF PimAttemptRecord
<1> QED
  BY <1>1 DEF Retired

(* An attempt begins, or is refused by one in flight.                      *)
LEMMA BeginPimInv ==
  ASSUME AuthorityTypeOK, RowsInv, PimTypeOK, PimInv, UNCHANGED authorityVars,
         NEW q \in PimRuns, BeginPimAttempt(q)
  PROVE  PimTypeOK' /\ PimInv'
<1> USE DEF BeginPimAttempt
<1>1. /\ UNCHANGED <<authorityVars, tenantVars>>
      /\ pimScope \in Nat /\ pimScope' \in Nat /\ pimScope' >= 1 /\ pimScope' >= pimScope
      /\ attempt \in [PimRuns -> PimAttemptRecord] /\ pimRun \in [PimRuns -> PimRunRecord]
      /\ connection.incarnation \in Nat
      /\ pimRun[q].configuration \in Seen
  BY PimType DEF RowsInv, TenantTypeOK, Seen
<1>2. CASE attempt' = Retired /\ PimEnds(q, "refused")
  BY <1>1, <1>2, RetiredType, EndedPimRun, PimMoves DEF PimEnds
<1>3. CASE /\ attempt' = [Retired EXCEPT ![q] =
                [outcome |-> "IN_FLIGHT", live |-> TRUE, current |-> FALSE]]
           /\ pimRun' = [pimRun EXCEPT ![q] =
                [at |-> "acquiring", configuration |-> pimRun[q].configuration,
                 connection |-> connection.incarnation, scope |-> pimScope']]
  <2> DEFINE c == [at |-> "acquiring", configuration |-> pimRun[q].configuration,
                   connection |-> connection.incarnation, scope |-> pimScope']
  <2>1. attempt' \in [PimRuns -> PimAttemptRecord]
    BY <1>1, <1>3, RetiredType DEF PimAttemptRecord
  <2>2. pimRun' = [pimRun EXCEPT ![q] = c]
    BY <1>3
  <2>3. /\ c \in PimRunRecord /\ c.configuration \in Seen
        /\ c.connection <= connection.incarnation /\ c.scope \in 1 .. pimScope'
    BY <1>1 DEF PimRunRecord
  <2> HIDE DEF c
  <2>4. UNCHANGED <<authorityVars, tenantVars>> /\ pimScope' \in Nat /\ pimScope' >= pimScope
    BY <1>1
  <2> QED
    BY <2>1, <2>2, <2>3, <2>4, PimMoves
<1> QED
  BY <1>2, <1>3

(* Every step of the collection of schedules.                              *)
LEMMA PimStepInv ==
  ASSUME AuthorityTypeOK, RowsInv, PimTypeOK, PimInv, UNCHANGED authorityVars, PimStep
  PROVE  PimTypeOK' /\ PimInv' /\ RowsInv' /\ TenantMoved /\ AttemptKept
<1>1. PICK q \in PimRuns :
        \/ CapturePimAuthority(q) \/ BeginPimAttempt(q) \/ PimRefused(q) \/ LapsePimAttempt(q)
        \/ PublishPimObservations(q) \/ RecordPimTerminalFailure(q) \/ RotatePimScope(q)
  BY DEF PimStep
<1>2. /\ UNCHANGED tenantVars /\ UNCHANGED <<authorityVars, tenantVars>>
      /\ revisions \subseteq revisions'
  BY <1>1 DEF CapturePimAuthority, BeginPimAttempt, PimRefused, LapsePimAttempt,
              PublishPimObservations, RecordPimTerminalFailure, RotatePimScope, authorityVars
<1>3. RowsInv' /\ TenantMoved /\ AttemptKept
  BY <1>2, RowsUnchanged
<1>4. /\ pimScope \in Nat /\ attempt \in [PimRuns -> PimAttemptRecord]
      /\ pimRun \in [PimRuns -> PimRunRecord]
  BY PimType
<1>5. CASE CapturePimAuthority(q)
  <2>1. authority.revision \in Configuration
    BY DEF AuthorityTypeOK, Configuration, Nullable
  <2> DEFINE c == [at |-> "captured", configuration |-> authority.revision,
                   connection |-> 0, scope |-> 0]
  <2>3. pimRun' = [pimRun EXCEPT ![q] = c]
    BY <1>5 DEF CapturePimAuthority
  <2>4. c \in PimRunRecord /\ c.at = "captured"
    BY <1>4, <2>1 DEF PimRunRecord
  <2> HIDE DEF c
  <2>5. /\ pimScope' \in Nat /\ pimScope' >= pimScope
        /\ attempt' \in [PimRuns -> PimAttemptRecord]
    BY <1>4, <1>5 DEF CapturePimAuthority
  <2> QED
    BY <1>2, <1>3, <1>4, <2>3, <2>4, <2>5, PimMoves
<1>6. CASE BeginPimAttempt(q)
  BY <1>3, <1>6, BeginPimInv
<1>7. CASE PimRefused(q)
  <2>1. /\ pimScope' \in Nat /\ pimScope' >= pimScope
        /\ attempt' \in [PimRuns -> PimAttemptRecord]
        /\ pimRun' = [pimRun EXCEPT ![q] = [NoPimRun EXCEPT !.at = "refused"]]
    BY <1>4, <1>7 DEF PimRefused, PimEnds
  <2> QED
    BY <1>2, <1>3, <2>1, EndedPimRun, PimMoves
<1>8. CASE LapsePimAttempt(q) \/ RotatePimScope(q)
  <2>1. /\ pimRun' = [pimRun EXCEPT ![q] = pimRun[q]] /\ pimRun[q] \in PimRunRecord
        /\ pimScope' \in Nat /\ pimScope' >= pimScope
    BY <1>4, <1>8 DEF LapsePimAttempt, RotatePimScope
  <2>2. attempt' \in [PimRuns -> PimAttemptRecord]
    BY <1>4, <1>8 DEF LapsePimAttempt, RotatePimScope, PimAttemptRecord
  <2>3. pimRun[q].at = "acquiring" =>
          /\ pimRun[q].configuration \in Seen
          /\ pimRun[q].connection <= connection.incarnation
          /\ Present => pimRun[q].scope \in 1 .. pimScope
    BY DEF PimInv
  <2>4. UNCHANGED <<connection, tenant>> /\ Seen' = Seen /\ pimRun' = pimRun
    BY <1>2, <1>8 DEF tenantVars, authorityVars, Seen, LapsePimAttempt, RotatePimScope
  <2>5. \A p \in PimRuns : pimRun[p].scope \in Nat
    BY <1>4 DEF PimRunRecord
  <2>6. PimTypeOK'
    BY <1>4, <2>1, <2>2, <2>4, PimType
  <2>7. PimInv'
    BY <1>4, <2>1, <2>4, <2>5 DEF PimInv, Present
  <2> QED
    BY <1>3, <2>6, <2>7
<1>9. CASE PublishPimObservations(q) \/ RecordPimTerminalFailure(q)
  <2>1. PICK at \in {"published", "failed"} : PimEnds(q, at)
    BY <1>9 DEF PublishPimObservations, RecordPimTerminalFailure
  <2>2. attempt' \in [PimRuns -> PimAttemptRecord]
    <3>1. \A p \in PimRuns : [attempt[p] EXCEPT !.current = FALSE] \in PimAttemptRecord
      BY <1>4 DEF PimAttemptRecord
    <3>2. [outcome |-> "COMMITTED", live |-> FALSE, current |-> TRUE] \in PimAttemptRecord
      BY DEF PimAttemptRecord
    <3>3. CASE PublishPimObservations(q)
      BY <3>1, <3>2, <3>3 DEF PublishPimObservations
    <3>4. CASE RecordPimTerminalFailure(q)
      BY <1>4, <3>4 DEF RecordPimTerminalFailure, PimAttemptRecord
    <3> QED
      BY <1>9, <3>3, <3>4
  <2>3. /\ pimScope' \in Nat /\ pimScope' >= pimScope
        /\ pimRun' = [pimRun EXCEPT ![q] = [NoPimRun EXCEPT !.at = at]]
    BY <1>4, <1>9, <2>1 DEF PublishPimObservations, RecordPimTerminalFailure, PimEnds
  <2> QED
    BY <1>2, <1>3, <2>1, <2>2, <2>3, EndedPimRun, PimMoves
<1> QED
  BY <1>1, <1>5, <1>6, <1>7, <1>8, <1>9

-----------------------------------------------------------------------------
(* The whole system.                                                       *)
IInv ==
  /\ AuthorityTypeOK /\ AuthorityInv /\ AnswersInv
  /\ RowsInv
  /\ ConsentTypeOK /\ ConsentInv
  /\ CheckTypeOK /\ CheckInv
  /\ RoleTypeOK /\ RoleInv
  /\ PimTypeOK /\ PimInv

(* The invariant holds at the start.                                       *)
LEMMA InitIInv == Init => IInv
BY InitAuthority, InitAnswers, InitRows, InitConsent, InitCheck, InitRoles, InitPim
   DEF Init, IInv

(* The connection and the roles keep their types.                          *)
LEMMA RowsTypes ==
  ASSUME RowsInv'
  PROVE  connection' \in ConnectionType /\ roles' \in RolesType
BY RowsTypeNext DEF RowsInv

(* The frames of all components but those that take the step.              *)
LEMMA Frames ==
  ASSUME IInv, RowsInv', Moved, AttemptMoved
  PROVE  /\ UNCHANGED consentVars => ConsentTypeOK' /\ ConsentInv'
         /\ UNCHANGED check => CheckTypeOK' /\ CheckInv'
         /\ UNCHANGED roleVars => RoleTypeOK' /\ RoleInv'
         /\ UNCHANGED pimVars => PimTypeOK' /\ PimInv'
<1> USE RowsTypes DEF IInv
<1>1. ASSUME UNCHANGED consentVars PROVE ConsentTypeOK' /\ ConsentInv'
  BY <1>1, ConsentFrame
<1>2. ASSUME UNCHANGED check PROVE CheckTypeOK' /\ CheckInv'
  BY <1>2, CheckFrame
<1>3. ASSUME UNCHANGED roleVars PROVE RoleTypeOK' /\ RoleInv'
  BY <1>3, RoleFrame
<1>4. ASSUME UNCHANGED pimVars PROVE PimTypeOK' /\ PimInv'
  BY <1>4, PimFrame
<1> QED
  BY <1>1, <1>2, <1>3, <1>4

(* Every step preserves the invariant and moves the rows as Moved says;    *)
(* only a step of the collection of roles begins or settles an attempt.    *)
LEMMA NextIInv ==
  ASSUME IInv, [Next]_vars
  PROVE  IInv' /\ Moved /\ (Collection \/ AttemptKept)
<1>1. CASE ConfigureManagedConnector \/ UpgradeBeforeSync
  <2>1. AuthorityTypeOK' /\ AuthorityInv' /\ AuthorityMoved /\ AnswersInv'
    BY <1>1, PublisherStepInv, UpgradeInv, PublisherAnswers, UpgradeAnswers
       DEF ConfigureManagedConnector, UpgradeBeforeSync, IInv
  <2>2. UNCHANGED tenantVars /\ UNCHANGED consentVars /\ UNCHANGED check
        /\ UNCHANGED roleVars /\ UNCHANGED pimVars
    BY <1>1 DEF ConfigureManagedConnector, UpgradeBeforeSync
  <2>3. RowsInv' /\ TenantMoved /\ AttemptKept
    BY <2>1, <2>2, RowsUnchanged DEF IInv, AuthorityMoved
  <2> QED
    BY <2>1, <2>2, <2>3, Frames DEF IInv, Moved, AttemptKept, AttemptMoved
<1> SUFFICES ASSUME UNCHANGED authorityVars, ~(ConfigureManagedConnector \/ UpgradeBeforeSync)
             PROVE  IInv' /\ Moved /\ (Collection \/ AttemptKept)
  BY <1>1 DEF Next, Consent, Verification, Collection, Schedules, Removal, vars
<1>2. AuthorityTypeOK' /\ AuthorityInv' /\ AuthorityMoved /\ AnswersInv'
  BY AuthorityUnchanged, AnswersUnchanged DEF IInv
<1>3. CASE Consent
  <2>1. ConsentTypeOK' /\ ConsentInv' /\ RowsInv' /\ TenantMoved /\ AttemptKept
    BY <1>3, ConsentStepInv DEF Consent, IInv
  <2>2. UNCHANGED check /\ UNCHANGED roleVars /\ UNCHANGED pimVars
    BY <1>3 DEF Consent
  <2> QED
    BY <1>2, <2>1, <2>2, Frames DEF IInv, Moved, AttemptKept, AttemptMoved
<1>4. CASE Verification
  <2>1. CheckTypeOK' /\ CheckInv' /\ RowsInv' /\ TenantMoved /\ AttemptKept
    BY <1>4, VerificationStepInv DEF Verification, IInv
  <2>2. UNCHANGED consentVars /\ UNCHANGED roleVars /\ UNCHANGED pimVars
    BY <1>4 DEF Verification
  <2> QED
    BY <1>2, <2>1, <2>2, Frames DEF IInv, Moved, AttemptKept, AttemptMoved
<1>5. CASE Collection
  <2>1. RoleTypeOK' /\ RoleInv' /\ RowsInv' /\ TenantMoved /\ AttemptMoved
    BY <1>5, RolesStepInv DEF Collection, IInv
  <2>2. UNCHANGED consentVars /\ UNCHANGED check /\ UNCHANGED pimVars
    BY <1>5 DEF Collection
  <2> QED
    BY <1>2, <1>5, <2>1, <2>2, Frames DEF IInv, Moved
<1>6. CASE Schedules
  <2>1. PimTypeOK' /\ PimInv' /\ RowsInv' /\ TenantMoved /\ AttemptKept
    BY <1>6, PimStepInv DEF Schedules, IInv
  <2>2. UNCHANGED consentVars /\ UNCHANGED check /\ UNCHANGED roleVars
    BY <1>6 DEF Schedules
  <2> QED
    BY <1>2, <2>1, <2>2, Frames DEF IInv, Moved, AttemptKept, AttemptMoved
<1>7. CASE Removal
  <2>1. PICK d \in Controls : RemoveManagedDirectoryTenant(d)
    BY <1>7 DEF Removal
  <2>2. RoleTypeOK' /\ RoleInv' /\ RowsInv' /\ TenantMoved /\ AttemptKept
    BY <1>2, <2>1, ControlSetInv DEF IInv
  <2>3. ~Present'
    BY <2>1, RemovalMoved DEF RemoveManagedDirectoryTenant, IInv, authorityVars
  <2>4. ConsentTypeOK' /\ ConsentInv'
    BY <1>7, ForgetInv DEF Removal, IInv
  <2>5. PimTypeOK' /\ PimInv'
    BY <1>2, <1>7, <2>2, <2>3, ForgetPimInv DEF Removal, IInv, Moved
  <2>6. UNCHANGED check
    BY <1>7 DEF Removal
  <2> QED
    BY <1>2, <2>2, <2>4, <2>5, <2>6, Frames DEF IInv, Moved, AttemptKept, AttemptMoved
<1>8. CASE UNCHANGED vars
  <2>1. UNCHANGED tenantVars /\ UNCHANGED consentVars /\ UNCHANGED check
        /\ UNCHANGED roleVars /\ UNCHANGED pimVars
    BY <1>8 DEF vars
  <2>2. RowsInv' /\ TenantMoved /\ AttemptKept
    BY <1>2, <2>1, RowsUnchanged DEF IInv, AuthorityMoved
  <2> QED
    BY <1>2, <2>1, <2>2, Frames DEF IInv, Moved, AttemptKept, AttemptMoved
<1> QED
  BY <1>3, <1>4, <1>5, <1>6, <1>7, <1>8 DEF Next

(* The inductive invariant.                                                *)
LEMMA Invariance == Spec => []IInv
BY InitIInv, NextIInv, PTL DEF Spec

-----------------------------------------------------------------------------
(* Every variable keeps its type: the requests only write what they were   *)
(* given.                                                                  *)
THEOREM TypeCorrect == Spec => []TypeOK
<1>1. IInv => TypeOK
  BY DEF IInv, RowsInv, TypeOK, CollectionTypeOK, CheckTypeOK, CheckRecord, RoleTypeOK,
         CollectorRecord, ControlRecord, ReaderRecord
<1> QED
  BY <1>1, Invariance, PTL

(* At most one consent link can still change the connection, and one load  *)
(* of a callback page at most talks to Microsoft (issueConsentOperation,   *)
(* claimConsentOperation).                                                 *)
THEOREM ConsentsExclusive == Spec => []OneConsentOpen
<1>1. IInv => OneConsentOpen
  <2> SUFFICES ASSUME IInv PROVE OneConsentOpen
    OBVIOUS
  <2>1. \A o \in Consents : Open(o) => Waiting(o)
    BY DEF Open, Waiting, Pending
  <2>2. \A o \in Consents : Open(o) =>
          /\ connection.status = "PENDING_CONSENT"
          /\ roles.attempt = NoAttempt
          /\ \A other \in Consents : Open(other) => other = o
    BY <2>1 DEF IInv, ConsentInv
  <2> QED
    BY <2>2 DEF IInv, ConsentInv, OneConsentOpen, Talking
<1> QED
  BY <1>1, Invariance, PTL

(* What the operator is told of his configuration is true                  *)
(* (publishManagedAuthority).                                              *)
THEOREM AnswersAreTrue == Spec => []AnswersTruthful
<1>1. IInv => AnswersTruthful
  BY DEF IInv, AnswersInv
<1> QED
  BY <1>1, Invariance, PTL

(* A reader that says "current" read rows that were                        *)
(* (readDirectoryRoleResults).                                             *)
THEOREM ReadersAreTrue == Spec => []ReaderTruthful
<1>1. IInv => ReaderTruthful
  BY DEF IInv, RoleInv
<1> QED
  BY <1>1, Invariance, PTL

(* Evidence that is no longer current is not revived by any change of the  *)
(* connector, the connection or the scope (invalidateRoles).               *)
THEOREM EvidenceStaysPast == Spec => EvidenceNotRevived
<1>1. ASSUME IInv, [Next]_vars, ReceiptCurrent', ~ReceiptCurrent
      PROVE  roles'.complete # roles.complete
  <2> SUFFICES ASSUME roles'.complete = roles.complete
               PROVE  FALSE
    OBVIOUS
  <2>1. IInv' /\ Moved
    BY <1>1, NextIInv
  <2>2. /\ connection.incarnation \in Nat /\ connection'.incarnation \in Nat
        /\ roles.scope \in Nat /\ roles'.scope \in Nat
    BY <1>1, <2>1 DEF IInv, RowsInv, TenantTypeOK
  <2>3. /\ roles.complete.configuration \in revisions
        /\ roles.complete.connection <= connection.incarnation
        /\ roles.complete.scope <= roles.scope
        /\ roles.complete.id # None
    BY <1>1 DEF IInv, RowsInv, EvidenceInv, ReceiptCurrent, ReceiptBound
  <2>4. authority' = authority
    BY <1>1, <2>1, <2>3 DEF ReceiptCurrent, Moved, AuthorityMoved, Seen
  <2>5. connection'.incarnation = connection.incarnation /\ roles'.scope = roles.scope
    BY <1>1, <2>1, <2>2, <2>3 DEF ReceiptCurrent, ReceiptBound, Moved, TenantMoved
  <2>6. tenant' = tenant /\ connection'.status = connection.status /\ roles'.enabled = roles.enabled
    BY <2>1, <2>5 DEF Moved, TenantMoved
  <2> QED
    BY <1>1, <2>4, <2>5, <2>6 DEF ReceiptCurrent, ReceiptBound, Usable, Immutable
<1> QED
  BY <1>1, Invariance, PTL DEF Spec, EvidenceNotRevived

-----------------------------------------------------------------------------
(* The effects of the consents.  Once an operation was shown, one of the   *)
(* notices has an occurrence after those that its terminal write recorded. *)
Spent(o) ==
  operation[o].state # None =>
    /\ operation[o].state \in Verdicts /\ operation[o].snapshot \in [Keys -> Nat]
    /\ \E k \in Keys : notices[k].occurrence > operation[o].snapshot[k]

(* The incident is still the one that the terminal write recorded.         *)
Untouched(o) ==
  operation[o].state # None =>
    /\ operation[o].state \in Verdicts
    /\ notices["connection"].occurrence = operation[o].snapshot["connection"]

EffectsInv ==
  \A o \in Consents :
    /\ applied[o] = 0 \/ (applied[o] = 1 /\ asked[o].at = "issued" /\ Spent(o))
    /\ notices["connection"].resolvedBy = o => asked[o].at = "issued" /\ Untouched(o)

(* No step but these two touches the notices.                              *)
Publishing ==
  \/ \E o \in Consents, b \in Browsers : ApplyEffects(o, b) /\ ~UNCHANGED <<notices, applied>>
  \/ \E k \in Keys : LegacyPublishes(k)

(* An operation that was issued and ended stays as it ended or is          *)
(* forgotten.                                                              *)
EndKept(o) ==
  /\ asked'[o].at = "issued"
  /\ \/ operation'[o].state = None
     \/ operation'[o].state = operation[o].state /\ operation'[o].snapshot = operation[o].snapshot

LEMMA EndsAreKept ==
  ASSUME IInv, [Next]_vars, NEW o \in Consents, asked[o].at = "issued", ~Pending(o)
  PROVE  EndKept(o)
<1>1. asked \in AskType /\ operation \in [Consents -> OperationRecord]
  BY ConsentType DEF IInv
<1>2. CASE UNCHANGED <<asked, operation>>
  BY <1>2 DEF EndKept
<1>3. CASE ForgetConsents
  BY <1>3 DEF ForgetConsents, NoOperation, EndKept
<1>4. ASSUME NEW oo \in Consents,
             LookUp(oo) \/ Prepare(oo) \/ Issue(oo) \/ IssueRefused(oo) \/ Lapse(oo)
      PROVE  EndKept(o)
  <2>1. CASE oo # o
    BY <1>1, <1>4, <2>1
       DEF LookUp, Prepare, Issue, IssueRefused, Lapse, EndKept, AskType, OperationRecord
  <2>2. CASE oo = o
    <3>1. Lapse(o)
      BY <1>4, <2>2 DEF LookUp, Prepare, Issue, IssueRefused
    <3> QED
      BY <1>1, <3>1 DEF Lapse, EndKept, OperationRecord
  <2> QED
    BY <2>1, <2>2
<1>5. ASSUME NEW oo \in Consents, NEW b \in Browsers,
             \/ ClaimConsentOperation(oo, b) \/ VerifyConsent(oo, b)
             \/ FinishConsentOperation(oo, b) \/ FinishSuperseded(oo, b) \/ FinishAlone(oo, b)
             \/ FinishUntrusted(oo, b) \/ CallbackDies(oo, b) \/ ApplyEffects(oo, b)
      PROVE  EndKept(o)
  <2>1. asked' = asked
    BY <1>5 DEF ClaimConsentOperation, VerifyConsent, FinishConsentOperation, FinishSuperseded,
                FinishAlone, FinishUntrusted, CallbackDies, ApplyEffects, Standing
  <2>2. operation' = operation \/ oo # o
    BY <1>5 DEF ClaimConsentOperation, VerifyConsent, FinishConsentOperation, FinishSuperseded,
                FinishAlone, FinishUntrusted, CallbackDies, ApplyEffects, Pending
  <2>3. oo # o => operation'[o] = operation[o]
    BY <1>1, <1>5 DEF ClaimConsentOperation, VerifyConsent, FinishConsentOperation,
       FinishSuperseded, FinishAlone, FinishUntrusted, CallbackDies, ApplyEffects, EndAlone, Conclude
  <2> QED
    BY <2>1, <2>2, <2>3 DEF EndKept
<1>6. ASSUME NEW k \in Keys, LegacyPublishes(k) PROVE EndKept(o)
  BY <1>2, <1>6 DEF LegacyPublishes
<1> QED
  BY <1>2, <1>3, <1>4, <1>5, <1>6
     DEF Next, Consent, ConsentStep, ConfigureManagedConnector, UpgradeBeforeSync, Verification,
         Collection, Schedules, Removal, vars, consentVars

(* All other steps leave the notices alone.                                *)
LEMMA NoticesKept ==
  ASSUME [Next]_vars, ~Publishing
  PROVE  UNCHANGED <<notices, applied>>
<1>1. ASSUME NEW o \in Consents,
             LookUp(o) \/ Prepare(o) \/ Issue(o) \/ IssueRefused(o) \/ Lapse(o)
      PROVE  UNCHANGED <<notices, applied>>
  BY <1>1 DEF LookUp, Prepare, Issue, IssueRefused, Lapse
<1>2. ASSUME NEW o \in Consents, NEW b \in Browsers,
             \/ ClaimConsentOperation(o, b) \/ VerifyConsent(o, b)
             \/ FinishConsentOperation(o, b) \/ FinishSuperseded(o, b) \/ FinishAlone(o, b)
             \/ FinishUntrusted(o, b) \/ CallbackDies(o, b)
      PROVE  UNCHANGED <<notices, applied>>
  BY <1>2 DEF ClaimConsentOperation, VerifyConsent, FinishConsentOperation, FinishSuperseded,
              FinishAlone, FinishUntrusted, CallbackDies, Standing
<1>3. ConsentStep => UNCHANGED <<notices, applied>>
  BY <1>1, <1>2 DEF ConsentStep, Publishing
<1> QED
  BY <1>3 DEF Next, Consent, ConfigureManagedConnector, UpgradeBeforeSync, Verification,
              Collection, Schedules, Removal, ForgetConsents, vars, consentVars

(* What an operation has spent stays spent while occurrences only grow.    *)
LEMMA SpentKept ==
  ASSUME NEW o \in Consents, EndKept(o), Spent(o),
         \A k \in Keys : /\ notices[k].occurrence \in Nat /\ notices'[k].occurrence \in Nat
                         /\ notices'[k].occurrence >= notices[k].occurrence
  PROVE  Spent(o)'
<1> SUFFICES ASSUME operation'[o].state # None
             PROVE  /\ operation'[o].state \in Verdicts
                    /\ operation'[o].snapshot \in [Keys -> Nat]
                    /\ \E k \in Keys : notices'[k].occurrence > operation'[o].snapshot[k]
  BY DEF Spent
<1>1. operation'[o].state = operation[o].state /\ operation'[o].snapshot = operation[o].snapshot
  BY DEF EndKept
<1>2. PICK k \in Keys : notices[k].occurrence > operation[o].snapshot[k]
  BY <1>1 DEF Spent
<1>3. operation[o].state \in Verdicts /\ operation[o].snapshot \in [Keys -> Nat]
  BY <1>1 DEF Spent
<1>4. notices'[k].occurrence > operation'[o].snapshot[k]
  BY <1>1, <1>2, <1>3
<1> QED
  BY <1>1, <1>3, <1>4

(* An incident that nobody touched is still the recorded one.              *)
LEMMA UntouchedKept ==
  ASSUME NEW o \in Consents, EndKept(o), Untouched(o),
         notices'["connection"].occurrence = notices["connection"].occurrence
  PROVE  Untouched(o)'
BY DEF Untouched, EndKept

(* Operations that were shown or that closed the incident have ended.      *)
LEMMA EffectsEnded ==
  ASSUME IInv, EffectsInv, [Next]_vars, NEW o \in Consents,
         applied[o] = 1 \/ notices["connection"].resolvedBy = o
  PROVE  EndKept(o)
<1>1. asked[o].at = "issued" /\ (operation[o].state = None \/ operation[o].state \in Verdicts)
  BY DEF EffectsInv, Spent, Untouched
<1>2. ~Pending(o)
  BY <1>1, NoneAssumption DEF Pending, Verdicts
<1> QED
  BY <1>1, <1>2, EndsAreKept

(* Every occurrence that is published is after both notices.               *)
LEMMA OccurrencesGrow ==
  ASSUME IInv, NEW target \in Keys, NEW n \in NoticeType,
         n[target].occurrence = NewOccurrence,
         \A k \in Keys : k # target => n[k].occurrence = notices[k].occurrence
  PROVE  /\ n[target].occurrence > notices[target].occurrence
         /\ \A k \in Keys : /\ notices[k].occurrence \in Nat /\ n[k].occurrence \in Nat
                             /\ n[k].occurrence >= notices[k].occurrence
<1>1. notices \in NoticeType
  BY ConsentType DEF IInv
<1>2. /\ notices["connection"].occurrence \in Nat /\ notices["authorized"].occurrence \in Nat
      /\ target = "connection" \/ target = "authorized"
      /\ \A k \in Keys : notices[k].occurrence \in Nat /\ n[k].occurrence \in Nat
  BY <1>1 DEF NoticeType, Keys
<1>3. n[target].occurrence > notices[target].occurrence
  BY <1>2 DEF NewOccurrence
<1>4. ASSUME NEW k \in Keys PROVE n[k].occurrence >= notices[k].occurrence
  <2>1. CASE k = target
    BY <1>2, <1>3, <2>1
  <2>2. CASE k # target
    BY <1>2, <2>2
  <2> QED
    BY <2>1, <2>2
<1> QED
  BY <1>2, <1>3, <1>4

(* The effects of one operation are shown.                                 *)
LEMMA EffectsShownInv ==
  ASSUME IInv, IInv', EffectsInv, [Next]_vars, NEW o \in Consents, NEW b \in Browsers,
         ApplyEffects(o, b), EffectsAdmitted(o), EffectsFirst(o), ShowEffects(o)
  PROVE  EffectsInv'
<1> DEFINE target == Target(o)
           shown == [notices EXCEPT ![target] =
                      [occurrence |-> NewOccurrence, by |-> o, resolvedBy |-> None]]
<1>1. /\ notices \in NoticeType /\ notices' \in NoticeType /\ NewOccurrence \in Nat
      /\ applied \in [Consents -> Nat] /\ asked[o].at = "issued" /\ target \in Keys
  BY ConsentType, ConsentTypeNext, NoticeTypes DEF IInv, ApplyEffects, ConsentInv, Target, Keys
<1>2. asked' = asked /\ operation' = operation
  BY DEF ApplyEffects
<1>3. /\ operation[o].state \in Verdicts /\ operation[o].state # None
      /\ operation[o].snapshot = Occurrences
  BY NoneAssumption DEF EffectsAdmitted, EffectsFirst, Verdicts
<1>4. /\ \A k \in Keys : operation[o].snapshot[k] = notices[k].occurrence
      /\ operation[o].snapshot \in [Keys -> Nat]
  BY <1>1, <1>3 DEF Occurrences, NoticeType
<1>5. /\ shown[target].occurrence = NewOccurrence
      /\ shown[target].resolvedBy = None
      /\ \A k \in Keys : k # target => shown[k] = notices[k]
      /\ shown \in NoticeType
  BY <1>1 DEF NoticeType, Nullable
<1>6. \/ notices' = shown
      \/ operation[o].state = "SUCCEEDED" /\ notices' = [shown EXCEPT !["connection"].resolvedBy = o]
  BY DEF ShowEffects
<1> HIDE DEF shown, target
<1>7. /\ notices'[target].occurrence = NewOccurrence
      /\ \A k \in Keys : k # target => notices'[k].occurrence = notices[k].occurrence
  BY <1>1, <1>5, <1>6 DEF NoticeType, Keys
<1>8. /\ notices'[target].occurrence > notices[target].occurrence
      /\ \A k \in Keys : /\ notices[k].occurrence \in Nat /\ notices'[k].occurrence \in Nat
                          /\ notices'[k].occurrence >= notices[k].occurrence
  BY <1>1, <1>7, OccurrencesGrow
<1>9. ~Spent(o)
  BY <1>1, <1>3, <1>4 DEF Spent, NoticeType
<1>10. applied[o] = 0 /\ applied' = [applied EXCEPT ![o] = @ + 1]
  BY <1>9 DEF EffectsInv, ShowEffects
<1>11. Spent(o)'
  BY <1>1, <1>2, <1>3, <1>4, <1>8 DEF Spent
<1>12. ASSUME NEW oo \in Consents
       PROVE  applied'[oo] = 0 \/ (applied'[oo] = 1 /\ asked'[oo].at = "issued" /\ Spent(oo)')
  <2>1. CASE oo = o
    BY <1>1, <1>2, <1>10, <1>11, <2>1
  <2>2. CASE oo # o
    <3>1. applied'[oo] = applied[oo]
      BY <1>1, <1>10, <2>2
    <3>2. applied[oo] = 1 => EndKept(oo) /\ Spent(oo)
      BY EffectsEnded DEF EffectsInv
    <3> QED
      BY <1>2, <1>8, <3>1, <3>2, SpentKept DEF EffectsInv
  <2> QED
    BY <2>1, <2>2
<1>13. ASSUME NEW oo \in Consents, notices'["connection"].resolvedBy = oo
       PROVE  asked'[oo].at = "issued" /\ Untouched(oo)'
  <2>1. CASE operation[o].state = "SUCCEEDED"
    <3>1. target = "authorized" /\ "connection" \in Keys
      BY <2>1 DEF target, Target, Keys
    <3>2. notices'["connection"].occurrence = notices["connection"].occurrence
      BY <1>7, <3>1
    <3>3. CASE oo = o
      BY <1>1, <1>2, <1>3, <1>4, <3>1, <3>2, <3>3 DEF Untouched
    <3>4. CASE oo # o
      <4>1. notices["connection"].resolvedBy = oo
        BY <1>5, <1>6, <1>13, <3>1, <3>4 DEF NoticeType
      <4>2. EndKept(oo) /\ Untouched(oo) /\ asked[oo].at = "issued"
        BY <4>1, EffectsEnded DEF EffectsInv
      <4> QED
        BY <1>2, <3>2, <4>2, UntouchedKept
    <3> QED
      BY <3>3, <3>4
  <2>2. CASE operation[o].state # "SUCCEEDED"
    <3>1. target = "connection" /\ notices' = shown
      BY <1>6, <2>2 DEF target, Target
    <3>2. notices'["connection"].resolvedBy = None
      BY <1>5, <3>1
    <3> QED
      BY <1>13, <3>2, ConsentsAssumption
  <2> QED
    BY <2>1, <2>2
<1> QED
  BY <1>12, <1>13 DEF EffectsInv

(* An older instance publishes a notice: the incident is open again.       *)
LEMMA EffectsLegacyInv ==
  ASSUME IInv, IInv', EffectsInv, [Next]_vars, NEW k \in Keys, LegacyPublishes(k)
  PROVE  EffectsInv'
<1>1. notices \in NoticeType /\ notices' \in NoticeType /\ "connection" \in Keys
  BY ConsentType, ConsentTypeNext DEF IInv, Keys
<1>2. asked' = asked /\ operation' = operation /\ applied' = applied
  BY DEF LegacyPublishes
<1>3. /\ notices'[k].occurrence = NewOccurrence /\ notices'[k].resolvedBy = None
      /\ \A kk \in Keys : kk # k => notices'[kk] = notices[kk]
  BY <1>1 DEF LegacyPublishes, NoticeType
<1>4. \A kk \in Keys : /\ notices[kk].occurrence \in Nat /\ notices'[kk].occurrence \in Nat
                       /\ notices'[kk].occurrence >= notices[kk].occurrence
  BY <1>1, <1>3, OccurrencesGrow
<1>5. ASSUME NEW o \in Consents, applied[o] = 1
      PROVE  asked'[o].at = "issued" /\ Spent(o)'
  <2>1. EndKept(o) /\ Spent(o) /\ asked[o].at = "issued"
    BY <1>5, EffectsEnded DEF EffectsInv
  <2> QED
    BY <1>2, <1>4, <2>1, SpentKept
<1>6. ASSUME NEW o \in Consents, notices'["connection"].resolvedBy = o
      PROVE  asked'[o].at = "issued" /\ Untouched(o)'
  <2>1. k # "connection"
    BY <1>3, <1>6, ConsentsAssumption
  <2>2. notices'["connection"] = notices["connection"]
    BY <1>1, <1>3, <2>1
  <2>3. EndKept(o) /\ Untouched(o) /\ asked[o].at = "issued"
    BY <1>6, <2>2, EffectsEnded DEF EffectsInv
  <2> QED
    BY <1>2, <2>2, <2>3, UntouchedKept
<1> QED
  BY <1>2, <1>5, <1>6 DEF EffectsInv

(* Every step.                                                             *)
LEMMA EffectsNext ==
  ASSUME IInv, IInv', EffectsInv, [Next]_vars
  PROVE  EffectsInv'
<1>1. ASSUME NEW o \in Consents, NEW b \in Browsers, ApplyEffects(o, b),
             ~UNCHANGED <<notices, applied>>
      PROVE  EffectsInv'
  <2>1. EffectsAdmitted(o) /\ EffectsFirst(o) /\ ShowEffects(o)
    BY <1>1 DEF ApplyEffects
  <2> QED
    BY <1>1, <2>1, EffectsShownInv
<1>2. ASSUME NEW k \in Keys, LegacyPublishes(k) PROVE EffectsInv'
  BY <1>2, EffectsLegacyInv
<1>3. CASE UNCHANGED <<notices, applied>>
  <2>1. \A k \in Keys : /\ notices[k].occurrence \in Nat /\ notices'[k].occurrence \in Nat
                        /\ notices'[k].occurrence >= notices[k].occurrence
    <3>1. notices \in NoticeType
      BY ConsentType DEF IInv
    <3>2. \A k \in Keys : notices[k].occurrence \in Nat
      BY <3>1 DEF NoticeType
    <3> QED
      BY <1>3, <3>2
  <2>2. ASSUME NEW o \in Consents, applied[o] = 1
        PROVE  asked'[o].at = "issued" /\ Spent(o)'
    <3>1. EndKept(o) /\ Spent(o)
      BY <2>2, EffectsEnded DEF EffectsInv
    <3> QED
      BY <2>1, <3>1, SpentKept DEF EndKept
  <2>3. ASSUME NEW o \in Consents, notices["connection"].resolvedBy = o
        PROVE  asked'[o].at = "issued" /\ Untouched(o)'
    <3>1. EndKept(o) /\ Untouched(o)
      BY <2>3, EffectsEnded DEF EffectsInv
    <3> QED
      BY <1>3, <3>1, UntouchedKept DEF EndKept
  <2> QED
    BY <1>3, <2>2, <2>3 DEF EffectsInv
<1> QED
  BY <1>1, <1>2, <1>3, NoticesKept DEF Publishing

(* The effects of an operation are shown at most once, and a success       *)
(* closes only the incident that was there when the operation ended        *)
(* (applyManagedConsentEffects).                                           *)
THEOREM EffectsShownOnce == Spec => []EffectsOnce
<1>1. Init => EffectsInv
  <2> SUFFICES ASSUME ConsentInit PROVE EffectsInv
    BY DEF Init
  <2>1. notices["connection"].resolvedBy = None
    BY DEF ConsentInit, NoNotice, Keys
  <2> QED
    BY <2>1, ConsentsAssumption DEF ConsentInit, EffectsInv
<1>2. IInv /\ EffectsInv /\ IInv' /\ [Next]_vars => EffectsInv'
  BY EffectsNext
<1>3. EffectsInv => EffectsOnce
  BY DEF EffectsInv, EffectsOnce, Untouched
<1> QED
  BY <1>1, <1>2, <1>3, Invariance, PTL DEF Spec

-----------------------------------------------------------------------------
(* The fences.  What a request holds does not become good again by a step  *)
(* that leaves the request alone.                                          *)
LEMMA SameAuthority ==
  ASSUME Moved, NEW revision \in Seen, authority'.revision = revision
  PROVE  authority' = authority
BY DEF Moved, AuthorityMoved

(* The numbers of the rows are natural, before and after a step.           *)
LEMMA RowNumbers ==
  ASSUME IInv, IInv'
  PROVE  /\ connection.incarnation \in Nat /\ connection'.incarnation \in Nat
         /\ connection.version \in Nat /\ connection'.version \in Nat
         /\ roles.scope \in Nat /\ roles'.scope \in Nat
BY DEF IInv, RowsInv, TenantTypeOK

(* A publication that is good after a step was good before it.             *)
LEMMA PublisherKept ==
  ASSUME IInv, Moved, NEW p \in Publishers, PublisherGood(p)',
         draft'[p].expected = draft[p].expected, draft[p].at \in {"verifying", "sending"}
  PROVE  PublisherGood(p)
<1>1. draft[p].expected \in Seen
  BY DEF IInv, AuthorityInv
<1> QED
  BY <1>1, SameAuthority DEF PublisherGood

(* The same of a consent operation,                                        *)
LEMMA OpenKept ==
  ASSUME IInv, IInv', Moved, NEW o \in Consents, Open(o)', Pending(o),
         operation'[o].configuration = operation[o].configuration,
         operation'[o].connection = operation[o].connection
  PROVE  Open(o)
<1>1. /\ operation[o].configuration \in Seen
      /\ operation[o].connection <= connection.incarnation
      /\ operation[o].connection \in Nat
  BY DEF IInv, ConsentInv, ConsentTypeOK
<1>2. authority' = authority
  BY <1>1, SameAuthority DEF Open
<1>3. connection'.incarnation = connection.incarnation /\ Present
  BY <1>1, RowNumbers DEF Open, Moved, TenantMoved
<1> QED
  BY <1>2, <1>3 DEF Open, Pending

(* of a verification,                                                      *)
LEMMA CheckKept ==
  ASSUME IInv, IInv', Moved, NEW v \in Checks, CheckGood(v)', check'[v] = check[v]
  PROVE  CheckGood(v)
<1>1. /\ check[v].configuration \in Seen
      /\ check[v].incarnation <= connection.incarnation
      /\ check[v].version <= connection.version
      /\ check[v].kind # "verify" => check[v].scope <= roles.scope
      /\ check[v].incarnation \in Nat /\ check[v].version \in Nat /\ check[v].scope \in Nat
  BY DEF IInv, CheckInv, CheckGood, CheckTypeOK, CheckRecord
<1>2. authority' = authority
  BY <1>1, SameAuthority DEF CheckGood
<1>3. /\ connection'.incarnation = connection.incarnation /\ Present
      /\ connection'.version = connection.version
  BY <1>1, RowNumbers DEF CheckGood, Moved, TenantMoved
<1>4. check[v].kind # "verify" => roles'.scope = roles.scope /\ roles'.enabled = roles.enabled
  BY <1>1, RowNumbers DEF CheckGood, Moved, TenantMoved
<1> QED
  BY <1>2, <1>3, <1>4 DEF CheckGood

(* of a collection of roles,                                               *)
LEMMA CollectorKept ==
  ASSUME IInv, IInv', Moved, NEW k \in Collectors, CollectorGood(k)', collector'[k] = collector[k],
         Running' /\ roles'.attempt.id = k => Running /\ roles.attempt.id = k
  PROVE  CollectorGood(k)
<1>1. /\ collector[k].configuration \in Seen
      /\ collector[k].connection <= connection.incarnation
      /\ collector[k].scope <= roles.scope
      /\ collector[k].connection \in Nat /\ collector[k].scope \in Nat
  BY DEF IInv, RoleInv, CollectorGood, RoleTypeOK, CollectorRecord, Seen
<1>2. authority' = authority
  BY <1>1, SameAuthority DEF CollectorGood
<1>3. connection'.incarnation = connection.incarnation /\ roles'.scope = roles.scope
  BY <1>1, RowNumbers DEF CollectorGood, Moved, TenantMoved
<1> QED
  BY <1>2, <1>3 DEF CollectorGood

(* of a control request,                                                   *)
LEMMA ControlKept ==
  ASSUME IInv, IInv', Moved, NEW d \in Controls, ControlGood(d)', control'[d] = control[d]
  PROVE  ControlGood(d)
<1>1. /\ control[d].context[1] \in Seen
      /\ control[d].context[2] <= connection.incarnation
      /\ control[d].context[3] <= roles.scope
      /\ control[d].context[2] \in Nat /\ control[d].context[3] \in Nat
  BY DEF IInv, RoleInv, ControlGood
<1>2. control[d].context = <<authority'.revision, connection'.incarnation, roles'.scope, roles'.enabled>>
  BY DEF ControlGood, ControlContext
<1>3. /\ control[d].context[1] = authority'.revision
      /\ control[d].context[2] = connection'.incarnation
      /\ control[d].context[3] = roles'.scope
  BY <1>2
<1>4. authority' = authority
  BY <1>1, <1>3, SameAuthority
<1>5. /\ connection'.incarnation = connection.incarnation /\ roles'.scope = roles.scope
      /\ roles'.enabled = roles.enabled /\ Present
  BY <1>1, <1>3, RowNumbers DEF ControlGood, Moved, TenantMoved
<1> QED
  BY <1>2, <1>4, <1>5 DEF ControlGood, ControlContext

(* and of a collection of schedules.                                       *)
LEMMA PimKept ==
  ASSUME IInv, IInv', Moved, NEW q \in PimRuns, PimGood(q)', pimRun'[q] = pimRun[q],
         pimScope' >= pimScope,
         attempt'[q].outcome = "IN_FLIGHT" /\ attempt'[q].live =>
           attempt[q].outcome = "IN_FLIGHT" /\ attempt[q].live
  PROVE  PimGood(q)
<1>1. /\ pimRun[q].configuration \in Seen
      /\ pimRun[q].connection <= connection.incarnation
      /\ Present => pimRun[q].scope \in 1 .. pimScope
      /\ pimRun[q].connection \in Nat /\ pimRun[q].scope \in Nat
      /\ pimScope \in Nat /\ pimScope' \in Nat
  BY DEF IInv, PimInv, PimGood, PimTypeOK
<1>2. authority' = authority
  BY <1>1, SameAuthority DEF PimGood
<1>3. /\ connection'.incarnation = connection.incarnation /\ Present
  BY <1>1, RowNumbers DEF PimGood, Moved, TenantMoved
<1>4. pimScope' = pimScope
  BY <1>1, <1>3 DEF PimGood
<1> QED
  BY <1>2, <1>3, <1>4 DEF PimGood, InFlight

(* The connector.                                                          *)
PublisherStepOK ==
  [PublisherFence!Next]_<<{p \in Publishers : draft[p].at # "new"},
                          {p \in Publishers : PublisherGood(p)}, Publishers \cap revisions>>

(* Every step is a step of the fence of the publications.                  *)
LEMMA PublisherFenceStep ==
  ASSUME IInv, IInv', Moved, [Next]_vars
  PROVE  PublisherStepOK
<1> USE DEF PublisherStepOK
<1>1. CASE UNCHANGED authorityVars
  <2>1. \A p \in Publishers : PublisherGood(p)' <=> PublisherGood(p)
    BY <1>1 DEF authorityVars, PublisherGood
  <2> QED
    BY <1>1, <2>1 DEF authorityVars, PublisherFence!Next, PublisherFence!Change
<1>2. CASE UpgradeLegacy
  <2>1. \A p \in Publishers : PublisherGood(p)' => PublisherGood(p)
    BY <1>2, PublisherKept DEF UpgradeLegacy, PublisherGood
  <2>2. Publishers \cap revisions' = Publishers \cap revisions
    BY <1>2 DEF UpgradeLegacy, Install, Immutable, IInv, AuthorityInv
  <2> QED
    BY <1>2, <2>1, <2>2 DEF UpgradeLegacy, PublisherFence!Next, PublisherFence!Change
<1>3. ASSUME NEW p \in Publishers, CapturePublication(p)
      PROVE  PublisherStepOK
  <2>1. /\ UNCHANGED <<authority, revisions>>
        /\ \A q \in Publishers : q # p => draft'[q] = draft[q]
        /\ draft[p].at = "new" /\ draft'[p].at = "verifying"
    BY <1>3 DEF CapturePublication, IInv, AuthorityTypeOK
  <2>2. \A q \in Publishers : PublisherGood(q)' => PublisherGood(q) \/ q = p
    BY <2>1 DEF PublisherGood
  <2>3. PublisherFence!Take(p)
    BY <2>1, <2>2 DEF PublisherFence!Take
  <2> QED
    BY <2>3 DEF PublisherFence!Next
<1>4. ASSUME NEW p \in Publishers, VerifyPublication(p)
      PROVE  PublisherStepOK
  <2>1. /\ UNCHANGED <<authority, revisions>>
        /\ \A q \in Publishers : q # p => draft'[q] = draft[q]
        /\ draft[p].at = "verifying" /\ draft'[p].at \in {"sending", "done"}
        /\ draft'[p].expected = draft[p].expected
    BY <1>4 DEF VerifyPublication, IInv, AuthorityTypeOK
  <2>2. \A q \in Publishers : PublisherGood(q)' => PublisherGood(q)
    BY <2>1 DEF PublisherGood
  <2>3. PublisherFence!Change
    BY <2>1, <2>2 DEF PublisherFence!Change
  <2> QED
    BY <2>3 DEF PublisherFence!Next
<1>5. ASSUME NEW p \in Publishers, Publish(p)
      PROVE  PublisherStepOK
  <2>1. /\ draft[p].at = "sending" /\ draft'[p].at \in {"sending", "done"}
        /\ \A q \in Publishers : /\ draft'[q].expected = draft[q].expected
                                 /\ q # p => draft'[q] = draft[q]
    BY <1>5, AnsweredDraft DEF Publish, IInv
  <2>2. \A q \in Publishers : PublisherGood(q)' => PublisherGood(q)
    BY <2>1, PublisherKept DEF PublisherGood
  <2>3. CASE PublicationAnswer(p) = "published"
    <3>1. /\ Install(p, p) /\ p \notin revisions /\ authority.revision = draft[p].expected
          /\ p # authority.revision
      BY <1>5, <2>3, PublisherNames DEF Publish, PublicationAnswer, IInv, AuthorityInv
    <3>2. Publishers \cap revisions' = (Publishers \cap revisions) \cup {p}
      BY <3>1, PublisherNames DEF Install, IInv, AuthorityInv
    <3>3. ~PublisherGood(p)' /\ PublisherGood(p)
      BY <2>1, <3>1 DEF PublisherGood, Install
    <3>4. PublisherFence!Act(p)
      BY <2>1, <2>2, <3>1, <3>2, <3>3 DEF PublisherFence!Act
    <3> QED
      BY <3>4 DEF PublisherFence!Next
  <2>4. CASE PublicationAnswer(p) # "published"
    <3>1. UNCHANGED revisions
      BY <1>5, <2>4 DEF Publish
    <3>2. PublisherFence!Change
      BY <2>1, <2>2, <3>1 DEF PublisherFence!Change
    <3> QED
      BY <3>2 DEF PublisherFence!Next
  <2> QED
    BY <2>3, <2>4
<1> QED
  BY <1>1, <1>2, <1>3, <1>4, <1>5
     DEF Next, vars, ConfigureManagedConnector, PublisherStep, UpgradeBeforeSync,
         Consent, Verification, Collection, Schedules, Removal

(* What a captured context says of the rows.                               *)
LEMMA CapturedContext ==
  ASSUME NEW kind, NEW c, Captured(kind) = c
  PROVE  /\ c.configuration = authority.revision
         /\ c.incarnation = connection.incarnation
         /\ c.version = connection.version
         /\ kind # "verify" => c.scope = roles.scope /\ c.enabled = roles.enabled
BY DEF Captured

(* Verifications and synchronisations.                                     *)
CheckStepOK ==
  [CheckFence!Next]_<<{v \in Checks : check[v].at # "new"}, {v \in Checks : CheckGood(v)},
                      {v \in Checks : check[v].at = "applied"}>>

(* Every step is a step of their fence.                                    *)
LEMMA CheckFenceStep ==
  ASSUME IInv, IInv', Moved, [Next]_vars
  PROVE  CheckStepOK
<1> USE DEF CheckStepOK
<1>1. CASE UNCHANGED check
  <2>1. \A v \in Checks : CheckGood(v)' => CheckGood(v)
    BY <1>1, CheckKept
  <2>2. CheckFence!Change
    BY <1>1, <2>1 DEF CheckFence!Change
  <2> QED
    BY <2>2 DEF CheckFence!Next
<1> SUFFICES ASSUME NEW v \in Checks,
                    \/ CaptureConnectionVerification(v) \/ PublishConnectionVerification(v)
                    \/ PublishCapturedConnectionRefresh(v) \/ VerificationSuperseded(v)
                    \/ VerificationStops(v),
                    UNCHANGED authorityVars
             PROVE  CheckStepOK
  BY <1>1 DEF Next, vars, ConfigureManagedConnector, UpgradeBeforeSync, Consent, Verification,
              VerificationStep, Collection, Schedules, Removal
<1>2. \A u \in Checks : u # v => check'[u] = check[u]
  BY DEF CaptureConnectionVerification, PublishConnectionVerification, Report,
         PublishCapturedConnectionRefresh, VerificationSuperseded, VerificationStops,
         IInv, CheckTypeOK
<1>3. \A u \in Checks : u # v /\ CheckGood(u)' => CheckGood(u)
  BY <1>2, CheckKept
<1>4. SameCapturedContext(v) /\ check[v].at = "captured" => CheckGood(v)
  <2> SUFFICES ASSUME SameCapturedContext(v), check[v].at = "captured" PROVE CheckGood(v)
    OBVIOUS
  <2> DEFINE kind == check[v].kind
  <2>1. Captured(kind) = check[v] /\ Present
    BY DEF SameCapturedContext
  <2>2. /\ check[v].configuration = authority.revision
        /\ check[v].incarnation = connection.incarnation
        /\ check[v].version = connection.version
        /\ check[v].kind # "verify" =>
             check[v].scope = roles.scope /\ check[v].enabled = roles.enabled
    <3> HIDE DEF kind
    <3>1. /\ check[v].configuration = authority.revision
          /\ check[v].incarnation = connection.incarnation
          /\ check[v].version = connection.version
          /\ kind # "verify" =>
               check[v].scope = roles.scope /\ check[v].enabled = roles.enabled
      BY <2>1, CapturedContext
    <3> QED
      BY <3>1 DEF kind
  <2> QED
    BY <2>1, <2>2 DEF CheckGood
<1>5. \A answer \in {"applied", "superseded", "stopped"} :
        Report(v, answer) => check'[v].at = answer /\ ~CheckGood(v)'
  BY ReportedCheck DEF Report, CheckGood, IInv, CheckTypeOK
<1>6. CASE CaptureConnectionVerification(v)
  <2>1. check[v].at = "new" /\ check'[v].at = "captured"
    BY <1>6 DEF CaptureConnectionVerification, Captured, IInv, CheckTypeOK
  <2>2. CheckFence!Take(v)
    BY <1>2, <1>3, <2>1 DEF CheckFence!Take
  <2> QED
    BY <2>2 DEF CheckFence!Next
<1>7. CASE /\ PublishConnectionVerification(v) \/ PublishCapturedConnectionRefresh(v)
           /\ Report(v, "applied")
  <2>1. check[v].at = "captured" /\ CheckGood(v)
    BY <1>4, <1>7 DEF PublishConnectionVerification, PublishCapturedConnectionRefresh
  <2>2. check'[v].at = "applied" /\ ~CheckGood(v)'
    BY <1>5, <1>7
  <2>3. CheckFence!Act(v)
    BY <1>2, <1>3, <2>1, <2>2 DEF CheckFence!Act
  <2> QED
    BY <2>3 DEF CheckFence!Next
<1>8. CASE /\ PublishCapturedConnectionRefresh(v)
           /\ check' = [check EXCEPT ![v].kind = "refreshed", ![v].version = connection'.version]
  <2>1. check[v].at = "captured" /\ CheckGood(v)
    BY <1>4, <1>8 DEF PublishCapturedConnectionRefresh
  <2>2. check'[v].at = "captured"
    BY <1>8, <2>1 DEF IInv, CheckTypeOK, CheckRecord
  <2>3. CheckFence!Change
    BY <1>2, <1>3, <2>1, <2>2 DEF CheckFence!Change
  <2> QED
    BY <2>3 DEF CheckFence!Next
<1>9. CASE VerificationSuperseded(v) \/ VerificationStops(v)
  <2>1. check[v].at = "captured" /\ check'[v].at \in {"superseded", "stopped"} /\ ~CheckGood(v)'
    BY <1>5, <1>9 DEF VerificationSuperseded, VerificationStops
  <2>2. CheckFence!Change
    BY <1>2, <1>3, <2>1 DEF CheckFence!Change
  <2> QED
    BY <2>2 DEF CheckFence!Next
<1> QED
  BY <1>6, <1>7, <1>8, <1>9 DEF PublishConnectionVerification, PublishCapturedConnectionRefresh

(* Consents.                                                               *)
ConsentStepOK ==
  [ConsentFence!Next]_<<{o \in Consents : asked[o].at = "issued"}, {o \in Consents : Open(o)},
                        concluded>>

(* A step that neither issues nor concludes an operation.                  *)
LEMMA ConsentChange ==
  ASSUME IInv, IInv', Moved, concluded' = concluded,
         \A o \in Consents : asked'[o].at = "issued" <=> asked[o].at = "issued",
         \A o \in Consents : Pending(o)' =>
           /\ Pending(o)
           /\ operation'[o].configuration = operation[o].configuration
           /\ operation'[o].connection = operation[o].connection
  PROVE  ConsentStepOK
<1>1. \A o \in Consents : Open(o)' => Open(o)
  BY OpenKept DEF Open, Pending
<1>2. ConsentFence!Change
  BY <1>1 DEF ConsentFence!Change
<1> QED
  BY <1>2 DEF ConsentStepOK, ConsentFence!Next

(* Issuing an operation takes a context.                                   *)
LEMMA ConsentIssued ==
  ASSUME IInv, IInv', Moved, NEW o \in Consents, Issue(o)
  PROVE  ConsentFence!Take(o)
<1> USE DEF Issue
<1>1. /\ asked \in AskType /\ operation \in [Consents -> OperationRecord]
  BY ConsentType DEF IInv
<1>2. /\ asked[o].at # "issued" /\ asked'[o].at = "issued"
      /\ \A u \in Consents : u # o => asked'[u] = asked[u] /\ operation'[u] = operation[u]
  BY <1>1 DEF AskType, Answer, NewAsk
<1>3. \A u \in Consents : u # o /\ Open(u)' => Open(u)
  BY <1>2, OpenKept DEF Open, Pending
<1> QED
  BY <1>2, <1>3 DEF ConsentFence!Take

(* Concluding it acts on that context.                                     *)
LEMMA ConsentConcluded ==
  ASSUME IInv, IInv', Moved, NEW o \in Consents, NEW verdict \in Verdicts, Conclude(o, verdict),
         UNCHANGED <<authority, asked>>, operation[o].state = "CLAIMED",
         operation[o].configuration = authority.revision, StillExpected(o)
  PROVE  ConsentFence!Act(o)
<1>1. Open(o) /\ o \notin concluded
  BY DEF Open, StillExpected, IInv, ConsentInv, Pending
<1>2. operation \in [Consents -> OperationRecord]
  BY ConsentType DEF IInv
<1>3. /\ concluded' = concluded \cup {o}
      /\ operation'[o].state = verdict
      /\ \A u \in Consents : u # o => operation'[u] = operation[u]
  BY <1>2 DEF Conclude
<1>4. ~Open(o)' /\ \A u \in Consents : u # o /\ Open(u)' => Open(u)
  BY <1>3, OpenKept DEF Open, Pending, Verdicts
<1> QED
  BY <1>1, <1>3, <1>4 DEF ConsentFence!Act

(* Ending it alone changes nothing else.                                   *)
LEMMA ConsentEndedAlone ==
  ASSUME IInv, IInv', Moved, NEW o \in Consents, NEW state \in Terminal, EndAlone(o, state),
         UNCHANGED <<asked, concluded>>
  PROVE  ConsentStepOK
<1>1. /\ operation'[o].state = state
      /\ \A u \in Consents : u # o => operation'[u] = operation[u]
  BY ConsentType, EndAloneMoved DEF IInv
<1>2. \A u \in Consents : Pending(u)' =>
        /\ Pending(u)
        /\ operation'[u].configuration = operation[u].configuration
        /\ operation'[u].connection = operation[u].connection
  BY <1>1 DEF Pending, Terminal
<1> QED
  BY <1>2, ConsentChange

(* Every step is a step of the fence of the consents.                      *)
LEMMA ConsentFenceStep ==
  ASSUME IInv, IInv', Moved, [Next]_vars
  PROVE  ConsentStepOK
<1>1. ASSUME UNCHANGED <<asked, concluded, operation>>
      PROVE  ConsentStepOK
  BY <1>1, ConsentChange DEF Pending
<1>2. ASSUME ForgetConsents
      PROVE  ConsentStepOK
  BY <1>2, ConsentChange DEF ForgetConsents, NoOperation, Pending
<1>3. CASE UNCHANGED consentVars
  BY <1>1, <1>3 DEF consentVars
<1>4. CASE Removal
  BY <1>2, <1>4 DEF Removal
<1>5. CASE Consent
  <2>1. /\ asked \in AskType /\ operation \in [Consents -> OperationRecord]
    BY ConsentType DEF IInv
  <2>2. UNCHANGED <<authority, revisions>>
    BY <1>5 DEF Consent, authorityVars
  <2>3. ASSUME NEW o \in Consents, LookUp(o) \/ Prepare(o) \/ IssueRefused(o)
        PROVE  ConsentStepOK
    <3>1. /\ UNCHANGED <<operation, concluded>>
          /\ \A u \in Consents : asked'[u].at = "issued" <=> asked[u].at = "issued"
      BY <2>1, <2>3 DEF LookUp, Prepare, IssueRefused, AskType, Answer, NewAsk
    <3> QED
      BY <3>1, ConsentChange DEF Pending
  <2>4. ASSUME NEW o \in Consents, Issue(o)
        PROVE  ConsentStepOK
    BY <2>4, ConsentIssued DEF ConsentStepOK, ConsentFence!Next
  <2>5. ASSUME NEW o \in Consents, Lapse(o)
        PROVE  ConsentStepOK
    <3>1. \A u \in Consents :
            /\ operation'[u].state = operation[u].state
            /\ operation'[u].configuration = operation[u].configuration
            /\ operation'[u].connection = operation[u].connection
      BY <2>1, <2>5 DEF Lapse, OperationRecord
    <3> QED
      BY <2>5, <3>1, ConsentChange DEF Lapse, Pending
  <2>6. ASSUME NEW o \in Consents, NEW b \in Browsers, ClaimConsentOperation(o, b)
        PROVE  ConsentStepOK
    <3> USE <2>6 DEF ClaimConsentOperation, Standing
    <3>1. CASE UNCHANGED operation
      BY <1>1, <3>1
    <3>2. CASE EndAlone(o, "EXPIRED")
      BY <3>2, ConsentEndedAlone DEF Terminal
    <3>3. CASE /\ operation[o].state = "ISSUED"
               /\ operation' = [operation EXCEPT ![o].state = "CLAIMED", ![o].claim = b]
      <4>1. \A u \in Consents :
              /\ operation'[u].configuration = operation[u].configuration
              /\ operation'[u].connection = operation[u].connection
              /\ u # o => operation'[u].state = operation[u].state
        BY <2>1, <3>3 DEF OperationRecord
      <4> QED
        BY <3>3, <4>1, ConsentChange DEF Pending
    <3> QED
      BY <3>1, <3>2, <3>3
  <2>7. ASSUME NEW o \in Consents, NEW b \in Browsers, FinishConsentOperation(o, b)
        PROVE  ConsentStepOK
    <3> USE <2>7 DEF FinishConsentOperation, Standing
    <3>1. CASE Conclude(o, callback[o][b].verdict) /\ StillExpected(o)
      <4>1. callback[o][b].verdict \in Verdicts
        BY DEF IInv, ConsentInv
      <4>2. ConsentFence!Act(o)
        BY <2>2, <3>1, <4>1, ConsentConcluded
      <4> QED
        BY <4>2 DEF ConsentStepOK, ConsentFence!Next
    <3>2. CASE \E state \in {"EXPIRED", "SUPERSEDED"} :
                 EndAlone(o, state) /\ UNCHANGED concluded
      BY <3>2, ConsentEndedAlone DEF Terminal
    <3> QED
      BY <3>1, <3>2
  <2>8. ASSUME NEW o \in Consents, NEW b \in Browsers, FinishAlone(o, b)
        PROVE  ConsentStepOK
    BY <2>8, ConsentEndedAlone DEF FinishAlone, Standing, Terminal
  <2>9. ASSUME NEW o \in Consents, NEW b \in Browsers,
               \/ VerifyConsent(o, b) \/ FinishSuperseded(o, b) \/ FinishUntrusted(o, b)
               \/ CallbackDies(o, b) \/ ApplyEffects(o, b)
        PROVE  ConsentStepOK
    <3>1. UNCHANGED <<asked, concluded, operation>>
      BY <2>9 DEF VerifyConsent, FinishSuperseded, FinishUntrusted, CallbackDies, ApplyEffects,
                  Standing
    <3> QED
      BY <1>1, <3>1
  <2>10. ASSUME NEW k \in Keys, LegacyPublishes(k)
         PROVE  ConsentStepOK
    BY <1>1, <2>10 DEF LegacyPublishes
  <2> QED
    BY <1>5, <2>3, <2>4, <2>5, <2>6, <2>7, <2>8, <2>9, <2>10 DEF Consent, ConsentStep
<1> QED
  BY <1>3, <1>4, <1>5 DEF Next, vars, ConfigureManagedConnector, UpgradeBeforeSync, Verification,
                          Collection, Schedules

(* Collections of roles.                                                   *)
CollectorStepOK ==
  [CollectorFence!Next]_<<{k \in Collectors : collector[k].at \notin {"new", "busy"}},
                          {k \in Collectors : CollectorGood(k)},
                          {k \in Collectors : collector[k].at = "committed"}>>

(* A step that leaves the collectors alone, and the attempt or drops it.   *)
LEMMA CollectorChange ==
  ASSUME IInv, IInv', Moved, UNCHANGED collector,
         Running' => Running /\ roles'.attempt.id = roles.attempt.id
  PROVE  CollectorStepOK
<1>1. \A k \in Collectors : CollectorGood(k)' => CollectorGood(k)
  BY CollectorKept DEF CollectorGood
<1>2. CollectorFence!Change
  BY <1>1 DEF CollectorFence!Change
<1> QED
  BY <1>2 DEF CollectorStepOK, CollectorFence!Next

(* An attempt that is kept or dropped does not pass to another collector.  *)
LEMMA DroppedAttempt ==
  ASSUME AttemptKept
  PROVE  Running' => Running /\ roles'.attempt.id = roles.attempt.id
BY NoneAssumption DEF AttemptKept, NoAttempt, Running

(* Every step is a step of their fence.                                    *)
LEMMA CollectorFenceStep ==
  ASSUME IInv, IInv', Moved, [Next]_vars, Collection \/ AttemptKept
  PROVE  CollectorStepOK
<1>1. CASE UNCHANGED collector /\ AttemptKept
  BY <1>1, DroppedAttempt, CollectorChange
<1>2. CASE UNCHANGED roleVars /\ AttemptKept
  BY <1>1, <1>2 DEF roleVars
<1>3. CASE Removal /\ AttemptKept
  BY <1>1, <1>3 DEF Removal, RemoveManagedDirectoryTenant
<1>4. CASE Collection
  <2>1. collector \in [Collectors -> CollectorRecord] /\ UNCHANGED <<authority, revisions>>
    BY <1>4 DEF IInv, RoleTypeOK, Collection, authorityVars
  <2>2. ASSUME NEW k \in Collectors, NEW at \in {"ended", "committed"}, End(k, at)
        PROVE  /\ collector'[k].at = at
               /\ \A u \in Collectors : u # k => collector'[u] = collector[u]
    BY <2>1, <2>2, EndedCollector DEF End, CollectorRecord, NoCollection
  <2>3. CASE UNCHANGED <<collector, roles>>
    BY <1>1, <2>3 DEF AttemptKept
  <2>4. CASE LapseAttempt
    <3>1. Running /\ roles'.attempt.id = roles.attempt.id /\ UNCHANGED collector
      BY <2>4, RowsType DEF LapseAttempt, roleVars, IInv, RowsInv, RolesType, AttemptType
    <3> QED
      BY <3>1, CollectorChange
  <2>5. ASSUME NEW k \in Collectors, CaptureRoleAttempt(k)
        PROVE  CollectorStepOK
    <3> USE <2>5 DEF CaptureRoleAttempt
    <3>1. CASE collector' = [collector EXCEPT ![k].at = "busy"] /\ UNCHANGED roles
      <4>1. /\ collector'[k].at = "busy"
            /\ \A u \in Collectors : u # k => collector'[u] = collector[u]
        BY <2>1, <3>1 DEF CollectorRecord
      <4>2. \A u \in Collectors : CollectorGood(u)' => CollectorGood(u)
        BY <3>1, <4>1, CollectorKept DEF CollectorGood, Running
      <4>3. CollectorFence!Change
        BY <4>1, <4>2 DEF CollectorFence!Change
      <4> QED
        BY <4>3 DEF CollectorStepOK, CollectorFence!Next
    <3>2. CASE /\ collector' = [collector EXCEPT ![k] =
                    [at |-> "collecting", connection |-> connection.incarnation,
                     configuration |-> authority.revision, scope |-> roles.scope]]
               /\ roles' = [roles EXCEPT !.attempt =
                    [id |-> k, connection |-> connection.incarnation,
                     configuration |-> authority.revision, scope |-> roles.scope,
                     outcome |-> "RUNNING", live |-> TRUE]]
      <4>1. /\ collector'[k].at = "collecting" /\ collector[k].at = "new"
            /\ \A u \in Collectors : u # k => collector'[u] = collector[u]
        BY <2>1, <3>2
      <4>2. roles'.attempt.id = k
        BY <3>2, RowsType DEF IInv, RowsInv, RolesType
      <4>3. \A u \in Collectors : u # k => ~CollectorGood(u)'
        BY <4>2 DEF CollectorGood
      <4>4. CollectorFence!Take(k)
        BY <4>1, <4>3 DEF CollectorFence!Take
      <4> QED
        BY <4>4 DEF CollectorStepOK, CollectorFence!Next
    <3> QED
      BY <3>1, <3>2
  <2>6. ASSUME NEW k \in Collectors, collector[k].at = "collecting",
               NEW outcome \in {"FAILED", "PARTIAL", "EXPIRED"}, Settle(k, outcome)
        PROVE  CollectorStepOK
    <3>1. /\ collector'[k].at = "ended"
          /\ \A u \in Collectors : u # k => collector'[u] = collector[u]
      BY <2>2, <2>6 DEF Settle
    <3>2. \A u \in Collectors : ~CollectorGood(u)'
      BY <2>6, RowsType DEF Settle, CollectorGood, Running, IInv, RowsInv, RolesType, AttemptType
    <3>3. CollectorFence!Change
      BY <2>6, <3>1, <3>2 DEF CollectorFence!Change
    <3> QED
      BY <3>3 DEF CollectorStepOK, CollectorFence!Next
  <2>7. ASSUME NEW k \in Collectors, FinishRoleAttempt(k)
        PROVE  CollectorStepOK
    BY <2>6, <2>7 DEF FinishRoleAttempt
  <2>8. ASSUME NEW k \in Collectors, CompleteRoleAttempt(k)
        PROVE  CollectorStepOK
    <3> USE <2>8 DEF CompleteRoleAttempt
    <3>1. CASE Settle(k, "EXPIRED")
      BY <2>6, <3>1
    <3>2. CASE /\ roles' = [roles EXCEPT !.attempt.outcome = "COMPLETE",
                                         !.complete = [id |-> k, connection |-> collector[k].connection,
                                                       configuration |-> collector[k].configuration,
                                                       scope |-> collector[k].scope]]
               /\ End(k, "committed")
      <4>1. /\ collector'[k].at = "committed"
            /\ \A u \in Collectors : u # k => collector'[u] = collector[u]
        BY <2>2, <3>2
      <4>2. \A u \in Collectors : ~CollectorGood(u)'
        BY <3>2, RowsType DEF CollectorGood, Running, IInv, RowsInv, RolesType, AttemptType
      <4>3. CollectorGood(k) /\ collector[k].at = "collecting"
        BY DEF Owned, CollectorGood
      <4>4. CollectorFence!Act(k)
        BY <4>1, <4>2, <4>3 DEF CollectorFence!Act
      <4> QED
        BY <4>4 DEF CollectorStepOK, CollectorFence!Next
    <3> QED
      BY <3>1, <3>2
  <2>9. ASSUME NEW k \in Collectors, CollectionLost(k)
        PROVE  CollectorStepOK
    <3>1. /\ collector'[k].at = "ended" /\ collector[k].at = "collecting" /\ roles' = roles
          /\ \A u \in Collectors : u # k => collector'[u] = collector[u]
      BY <2>2, <2>9 DEF CollectionLost, tenantVars
    <3>2. \A u \in Collectors : CollectorGood(u)' => CollectorGood(u)
      BY <3>1, CollectorKept DEF CollectorGood, Running
    <3>3. CollectorFence!Change
      BY <3>1, <3>2 DEF CollectorFence!Change
    <3> QED
      BY <3>3 DEF CollectorStepOK, CollectorFence!Next
  <2>10. ASSUME NEW d \in Controls,
                ReadDirectoryRoleControl(d) \/ SetDirectoryRoleControl(d) \/ ControlRefused(d)
         PROVE  CollectorStepOK
    <3>1. UNCHANGED collector
      BY <2>10 DEF ReadDirectoryRoleControl, SetDirectoryRoleControl, ControlRefused
    <3>2. AttemptKept
      BY <1>4, <2>10, ControlReadInv, ControlSetInv DEF Collection, IInv, Moved
    <3> QED
      BY <1>1, <3>1, <3>2
  <2>11. ASSUME NEW r \in Readers, ReadRoleRows(r) \/ ReadRoleAuthority(r)
         PROVE  CollectorStepOK
    BY <2>3, <2>11 DEF ReadRoleRows, ReadRoleAuthority, tenantVars
  <2> QED
    BY <1>4, <2>4, <2>5, <2>7, <2>8, <2>9, <2>10, <2>11 DEF Collection, DirectoryRolesStep
<1> QED
  BY <1>1, <1>2, <1>3, <1>4 DEF Next, vars, ConfigureManagedConnector, UpgradeBeforeSync, Consent,
                               Verification, Schedules

(* The control of the collection.                                          *)
ControlStepOK ==
  [ControlFence!Next]_<<{d \in Controls : control[d].at # "new"},
                        {d \in Controls : ControlGood(d)},
                        {d \in Controls : control[d].at = "changed"}>>

(* Every step is a step of their fence.                                    *)
LEMMA ControlFenceStep ==
  ASSUME IInv, IInv', Moved, [Next]_vars
  PROVE  ControlStepOK
<1> USE DEF ControlStepOK
<1>1. CASE UNCHANGED control
  <2>1. \A d \in Controls : ControlGood(d)' => ControlGood(d)
    BY <1>1, ControlKept
  <2>2. ControlFence!Change
    BY <1>1, <2>1 DEF ControlFence!Change
  <2> QED
    BY <2>2 DEF ControlFence!Next
<1> SUFFICES ASSUME NEW d \in Controls,
                    \/ ReadDirectoryRoleControl(d) \/ SetDirectoryRoleControl(d)
                    \/ ControlRefused(d) \/ RemoveManagedDirectoryTenant(d)
             PROVE  ControlStepOK
  BY <1>1 DEF Next, vars, ConfigureManagedConnector, UpgradeBeforeSync, Consent, Verification,
              Schedules, Collection, Removal, DirectoryRolesStep, CaptureRoleAttempt,
              FinishRoleAttempt, CompleteRoleAttempt, CollectionLost, LapseAttempt, ReadRoleRows,
              ReadRoleAuthority, roleVars
<1>2. control \in [Controls -> ControlRecord]
  BY DEF IInv, RoleTypeOK
<1>3. \A u \in Controls : u # d => control'[u] = control[u]
  BY <1>2 DEF ReadDirectoryRoleControl, SetDirectoryRoleControl, ControlRefused,
              RemoveManagedDirectoryTenant, Decide
<1>4. \A u \in Controls : u # d /\ ControlGood(u)' => ControlGood(u)
  BY <1>3, ControlKept
<1>5. \A at \in {"changed", "refused"} : Decide(d, at) => control'[d].at = at
  BY <1>2 DEF Decide
<1>6. CASE ReadDirectoryRoleControl(d)
  <2>1. control[d].at = "new" /\ control'[d].at = "shown"
    BY <1>2, <1>6 DEF ReadDirectoryRoleControl
  <2>2. ControlFence!Take(d)
    BY <1>3, <1>4, <2>1 DEF ControlFence!Take
  <2> QED
    BY <2>2 DEF ControlFence!Next
<1>7. CASE SetDirectoryRoleControl(d) \/ RemoveManagedDirectoryTenant(d)
  <2>1. control[d].at = "shown" /\ ControlGood(d)
    BY <1>7 DEF SetDirectoryRoleControl, RemoveManagedDirectoryTenant, SameControl, ControlGood
  <2>2. control'[d].at = "changed" /\ ~ControlGood(d)'
    BY <1>5, <1>7 DEF SetDirectoryRoleControl, RemoveManagedDirectoryTenant, ControlGood
  <2>3. ControlFence!Act(d)
    BY <1>3, <1>4, <2>1, <2>2 DEF ControlFence!Act
  <2> QED
    BY <2>3 DEF ControlFence!Next
<1>8. CASE ControlRefused(d)
  <2>1. control[d].at = "shown" /\ control'[d].at = "refused" /\ ~ControlGood(d)'
    BY <1>5, <1>8 DEF ControlRefused, ControlGood
  <2>2. ControlFence!Change
    BY <1>3, <1>4, <2>1 DEF ControlFence!Change
  <2> QED
    BY <2>2 DEF ControlFence!Next
<1> QED
  BY <1>6, <1>7, <1>8

(* Collections of schedules.                                               *)
PimStepOK ==
  [PimFence!Next]_<<{q \in PimRuns : pimRun[q].at \notin {"new", "captured"}},
                    {q \in PimRuns : PimGood(q)}, {q \in PimRuns : pimRun[q].at = "published"}>>

(* Every step is a step of their fence.                                    *)
LEMMA PimFenceStep ==
  ASSUME IInv, IInv', Moved, [Next]_vars
  PROVE  PimStepOK
<1> USE DEF PimStepOK
<1>1. /\ attempt \in [PimRuns -> PimAttemptRecord] /\ pimRun \in [PimRuns -> PimRunRecord]
      /\ pimScope \in Nat
  BY PimType DEF IInv
<1> DEFINE Survives(u) == attempt'[u].outcome = "IN_FLIGHT" /\ attempt'[u].live =>
                            attempt[u].outcome = "IN_FLIGHT" /\ attempt[u].live
<1>2. CASE UNCHANGED pimVars
  <2>1. pimScope' >= pimScope /\ \A u \in PimRuns : pimRun'[u] = pimRun[u] /\ Survives(u)
    BY <1>1, <1>2 DEF pimVars
  <2>2. \A u \in PimRuns : PimGood(u)' => PimGood(u)
    BY <2>1, PimKept
  <2>3. PimFence!Change
    BY <1>2, <2>2 DEF PimFence!Change, pimVars
  <2> QED
    BY <2>3 DEF PimFence!Next
<1>3. CASE Removal
  <2>1. ~Present' /\ UNCHANGED pimRun
    BY <1>3, RemovalMoved DEF Removal, RemoveManagedDirectoryTenant, ForgetPimSchedules, IInv,
                             authorityVars
  <2>2. \A u \in PimRuns : ~PimGood(u)'
    BY <2>1 DEF PimGood
  <2>3. PimFence!Change
    BY <2>1, <2>2 DEF PimFence!Change
  <2> QED
    BY <2>3 DEF PimFence!Next
<1> SUFFICES ASSUME NEW q \in PimRuns,
                    \/ CapturePimAuthority(q) \/ BeginPimAttempt(q) \/ PimRefused(q)
                    \/ LapsePimAttempt(q) \/ PublishPimObservations(q)
                    \/ RecordPimTerminalFailure(q) \/ RotatePimScope(q)
             PROVE  PimStepOK
  BY <1>2, <1>3 DEF Next, vars, ConfigureManagedConnector, UpgradeBeforeSync, Consent,
                    Verification, Collection, Schedules, PimStep
<1>4. \A u \in PimRuns : u # q => pimRun'[u] = pimRun[u]
  BY <1>1 DEF CapturePimAuthority, BeginPimAttempt, PimRefused, LapsePimAttempt,
              PublishPimObservations, RecordPimTerminalFailure, RotatePimScope, PimEnds
<1>5. \A at \in {"refused", "published", "failed"} : PimEnds(q, at) => pimRun'[q].at = at
  BY <1>1 DEF PimEnds, PimRunRecord, NoPimRun
<1>6. ASSUME pimScope' >= pimScope, \A u \in PimRuns : u # q => Survives(u)
      PROVE  \A u \in PimRuns : u # q /\ PimGood(u)' => PimGood(u)
  BY <1>4, <1>6, PimKept
<1>7. CASE CapturePimAuthority(q)
  <2>1. pimRun[q].at = "new" /\ pimRun'[q].at = "captured" /\ UNCHANGED <<pimScope, attempt>>
    BY <1>1, <1>7 DEF CapturePimAuthority
  <2>2. \A u \in PimRuns : u # q /\ PimGood(u)' => PimGood(u)
    BY <1>1, <1>6, <2>1
  <2>3. PimFence!Change
    BY <1>4, <2>1, <2>2 DEF PimFence!Change, PimGood
  <2> QED
    BY <2>3 DEF PimFence!Next
<1>8. CASE BeginPimAttempt(q)
  <2>1. pimScope' >= pimScope
    BY <1>1, <1>8 DEF BeginPimAttempt
  <2>2. \A u \in PimRuns : u # q => Survives(u)
    <3>1. \A u \in PimRuns : Retired[u].outcome = "IN_FLIGHT" => Retired[u] = attempt[u]
      BY <1>1 DEF Retired, PimAttemptRecord
    <3>2. \A u \in PimRuns : u # q => attempt'[u] = Retired[u]
      BY <1>8 DEF BeginPimAttempt, Retired
    <3> QED
      BY <3>1, <3>2
  <2>3. \A u \in PimRuns : u # q /\ PimGood(u)' => PimGood(u)
    BY <1>6, <2>1, <2>2
  <2>4. pimRun[q].at = "captured" /\ pimRun'[q].at \in {"refused", "acquiring"}
    BY <1>1, <1>5, <1>8 DEF BeginPimAttempt
  <2>5. PimFence!Take(q)
    BY <1>4, <2>3, <2>4 DEF PimFence!Take
  <2> QED
    BY <2>5 DEF PimFence!Next
<1>9. CASE PimRefused(q)
  <2>1. /\ pimRun[q].at \in {"captured", "acquiring"} /\ pimRun'[q].at = "refused"
        /\ UNCHANGED <<pimScope, attempt>>
    BY <1>5, <1>9 DEF PimRefused
  <2>2. \A u \in PimRuns : u # q /\ PimGood(u)' => PimGood(u)
    BY <1>1, <1>6, <2>1
  <2>3. CASE pimRun[q].at = "captured"
    <3>1. PimFence!Take(q)
      BY <1>4, <2>1, <2>2, <2>3 DEF PimFence!Take
    <3> QED
      BY <3>1 DEF PimFence!Next
  <2>4. CASE pimRun[q].at = "acquiring"
    <3>1. PimFence!Change
      BY <1>4, <2>1, <2>2, <2>4 DEF PimFence!Change, PimGood
    <3> QED
      BY <3>1 DEF PimFence!Next
  <2> QED
    BY <2>1, <2>3, <2>4
<1>10. CASE LapsePimAttempt(q) \/ RotatePimScope(q)
  <2>1. /\ UNCHANGED pimRun /\ pimScope' >= pimScope
        /\ \A u \in PimRuns : Survives(u)
    BY <1>1, <1>10 DEF LapsePimAttempt, RotatePimScope, PimAttemptRecord
  <2>2. \A u \in PimRuns : PimGood(u)' => PimGood(u)
    BY <2>1, PimKept
  <2>3. PimFence!Change
    BY <2>1, <2>2 DEF PimFence!Change
  <2> QED
    BY <2>3 DEF PimFence!Next
<1>11. CASE PublishPimObservations(q)
  <2>1. /\ pimRun[q].at = "acquiring" /\ pimRun'[q].at = "published" /\ UNCHANGED pimScope
        /\ InFlight = {q} /\ attempt[q].live /\ SamePimContext(q)
    BY <1>5, <1>11 DEF PublishPimObservations
  <2>5. PimGood(q)
    <3>1. q \in InFlight
      BY <2>1
    <3> QED
      BY <2>1, <3>1 DEF SamePimContext, PimParents, Usable, Present, PimGood
  <2>2. \A u \in PimRuns : u # q => Survives(u)
    BY <1>1, <1>11 DEF PublishPimObservations, PimAttemptRecord
  <2>3. \A u \in PimRuns : u # q /\ PimGood(u)' => PimGood(u)
    BY <1>1, <1>6, <2>1, <2>2
  <2>4. PimFence!Act(q)
    BY <1>4, <2>1, <2>3, <2>5 DEF PimFence!Act, PimGood
  <2> QED
    BY <2>4 DEF PimFence!Next
<1>12. CASE RecordPimTerminalFailure(q)
  <2>1. pimRun[q].at = "acquiring" /\ pimRun'[q].at = "failed" /\ UNCHANGED pimScope
    BY <1>5, <1>12 DEF RecordPimTerminalFailure
  <2>2. \A u \in PimRuns : u # q => Survives(u)
    BY <1>1, <1>12 DEF RecordPimTerminalFailure
  <2>3. \A u \in PimRuns : u # q /\ PimGood(u)' => PimGood(u)
    BY <1>1, <1>6, <2>1, <2>2
  <2>4. PimFence!Change
    BY <1>4, <2>1, <2>3 DEF PimFence!Change, PimGood
  <2> QED
    BY <2>4 DEF PimFence!Next
<1> QED
  BY <1>7, <1>8, <1>9, <1>10, <1>11, <1>12

-----------------------------------------------------------------------------
(* At the start nobody has taken a context.                                *)
LEMMA FencesInit ==
  ASSUME Init
  PROVE  /\ PublisherFence!Init /\ ConsentFence!Init /\ CheckFence!Init
         /\ CollectorFence!Init /\ ControlFence!Init /\ PimFence!Init
<1>1. PublisherFence!Init
  BY DEF Init, AuthorityInit, NewDraft, PublisherFence!Init, PublisherGood
<1>2. ConsentFence!Init
  BY NoneAssumption DEF Init, ConsentInit, NewAsk, NoOperation, Open, ConsentFence!Init
<1>3. CheckFence!Init
  BY DEF Init, VerificationInit, NoCheck, CheckFence!Init, CheckGood
<1>4. CollectorFence!Init
  BY DEF Init, DirectoryRolesInit, NoCollection, CollectorFence!Init, CollectorGood
<1>5. ControlFence!Init
  BY DEF Init, DirectoryRolesInit, ControlFence!Init, ControlGood
<1>6. PimFence!Init
  BY DEF Init, PimInit, NoPimRun, PimFence!Init, PimGood
<1> QED
  BY <1>1, <1>2, <1>3, <1>4, <1>5, <1>6

(* Publications, consents, verifications and synchronisations, collections *)
(* of roles and of schedules and the control of the former implement the   *)
(* fence: whatever they change on the strength of a context they took in   *)
(* an earlier transaction, they change while it is still good, and once    *)
(* (managed-connector-authority.ts, consent-operation-store.ts,            *)
(* connection-verification-store.ts, directory-role-receipt-store.ts,      *)
(* pim-schedule-store.ts).                                                 *)
THEOREM RequestsAreFenced == Spec => Fenced
<1>1. IInv /\ [Next]_vars => /\ PublisherStepOK /\ ConsentStepOK /\ CheckStepOK
                             /\ CollectorStepOK /\ ControlStepOK /\ PimStepOK
  <2> SUFFICES ASSUME IInv, [Next]_vars
               PROVE  /\ PublisherStepOK /\ ConsentStepOK /\ CheckStepOK
                      /\ CollectorStepOK /\ ControlStepOK /\ PimStepOK
    OBVIOUS
  <2>1. IInv' /\ Moved /\ (Collection \/ AttemptKept)
    BY NextIInv
  <2> QED
    BY <2>1, PublisherFenceStep, ConsentFenceStep, CheckFenceStep, CollectorFenceStep,
       ControlFenceStep, PimFenceStep
<1>2. Spec => PublisherFence!Spec
  BY <1>1, FencesInit, Invariance, PTL DEF Spec, PublisherFence!Spec, PublisherStepOK
<1>3. Spec => ConsentFence!Spec
  BY <1>1, FencesInit, Invariance, PTL DEF Spec, ConsentFence!Spec, ConsentStepOK
<1>4. Spec => CheckFence!Spec
  BY <1>1, FencesInit, Invariance, PTL DEF Spec, CheckFence!Spec, CheckStepOK
<1>5. Spec => CollectorFence!Spec
  BY <1>1, FencesInit, Invariance, PTL DEF Spec, CollectorFence!Spec, CollectorStepOK
<1>6. Spec => ControlFence!Spec
  BY <1>1, FencesInit, Invariance, PTL DEF Spec, ControlFence!Spec, ControlStepOK
<1>7. Spec => PimFence!Spec
  BY <1>1, FencesInit, Invariance, PTL DEF Spec, PimFence!Spec, PimStepOK
<1> QED
  BY <1>2, <1>3, <1>4, <1>5, <1>6, <1>7 DEF Fenced
=============================================================================
