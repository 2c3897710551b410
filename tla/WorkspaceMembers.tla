-------------------------- MODULE WorkspaceMembers --------------------------
(***************************************************************************)
(* The team of one MSP organisation: the administration requests of        *)
(* backend/src/workspace/workspace.service.ts that change who belongs to   *)
(* it and who owns it.                                                     *)
(*                                                                         *)
(* A request decides from several reads, each a query of its own, and      *)
(* writes in a transaction that repeats none of them.  There is one action *)
(* for each query, so that requests of several owners interleave between   *)
(* any two of them.                                                        *)
(***************************************************************************)
EXTENDS Integers, FiniteSets

CONSTANTS
  People,      \* who may have an account
  Founder,     \* created the organisation when first signing in
  Roles,       \* enum MembershipRole
  Requests,    \* the requests that can be under way at once
  None

ASSUME PeopleAssumption == Founder \in People
ASSUME RoleAssumption == {"MSP_OWNER", "MSP_VIEWER"} \subseteq Roles
ASSUME NoneAssumption == /\ None \notin Roles
                         /\ None \notin {"ACTIVE", "SUSPENDED"}
                         /\ None \notin [role : Roles,
                                         status : {"ACTIVE", "SUSPENDED"}]

VARIABLES
  users,       \* who has a row of users
  member,      \* the membership of each person, None without one
  completed,   \* organizations.onboarding_completed_at is set
  req,         \* what each request knows and where it stands
  overlapped   \* history: the team changed since the request began

vars == <<users, member, completed, req, overlapped>>

Statuses == {"ACTIVE", "SUSPENDED"}
Membership == [role : Roles, status : Statuses]
OwnerSeat == [role |-> "MSP_OWNER", status |-> "ACTIVE"]
Owners == {p \in People : member[p] = OwnerSeat}

(***************************************************************************)
(* A request names a role and a status, or leaves one out (None) until the *)
(* membership it found supplies it.  A removal is judged as the change to  *)
(* a suspended viewer.                                                     *)
(***************************************************************************)
Idle == [at |-> "idle"]
Request == [at : {"find", "protect", "count", "write", "lookup", "join", "setup"},
            kind : {"update", "remove", "invite", "complete"},
            actor : People, target : People,
            role : Roles \cup {None}, status : Statuses \cup {None}]

Seat(q) == [role |-> q.role, status |-> q.status]

Init ==
  /\ users \in {U \in SUBSET People : Founder \in U}
  /\ member = [p \in People |-> IF p = Founder THEN OwnerSeat ELSE None]
  /\ completed = FALSE
  /\ req = [r \in Requests |-> Idle]
  /\ overlapped = [r \in Requests |-> FALSE]

-----------------------------------------------------------------------------
(* The beginning of a request: ownerContext admits an active owner.        *)

Begin(r, q) ==
  /\ member[q.actor] = OwnerSeat
  /\ req' = [req EXCEPT ![r] = q]
  /\ UNCHANGED <<users, member, completed, overlapped>>

UpdateMember(r) ==
  /\ req[r] = Idle
  /\ \E a, t \in People, role \in Roles \cup {None}, status \in Statuses \cup {None} :
       Begin(r, [at |-> "find", kind |-> "update", actor |-> a, target |-> t,
                 role |-> role, status |-> status])

RemoveMember(r) ==
  /\ req[r] = Idle
  /\ \E a, t \in People :
       Begin(r, [at |-> "find", kind |-> "remove", actor |-> a, target |-> t,
                 role |-> "MSP_VIEWER", status |-> "SUSPENDED"])

InviteMember(r) ==
  /\ req[r] = Idle
  /\ \E a, t \in People, role \in Roles :
       Begin(r, [at |-> "lookup", kind |-> "invite", actor |-> a, target |-> t,
                 role |-> role, status |-> "ACTIVE"])

CompleteOnboarding(r) ==
  /\ req[r] = Idle
  /\ \E a \in People :
       Begin(r, [at |-> "setup", kind |-> "complete", actor |-> a, target |-> a,
                 role |-> None, status |-> None])

-----------------------------------------------------------------------------
(* The steps of a change or a removal.                                     *)

GoOn(r, stage) ==
  /\ req' = [req EXCEPT ![r].at = stage]
  /\ UNCHANGED <<users, member, completed, overlapped>>

\* Defect: what the caller left out is not filled in.
FindMember_NotMerged(r) ==
  /\ req[r].at = "find"
  /\ member[req[r].target] # None
  /\ GoOn(r, IF member[req[r].target] = OwnerSeat /\ Seat(req[r]) # OwnerSeat
             THEN "protect" ELSE "write")

\* Defect: only a new role counts as taking the ownership away.
FindMember_RoleOnly(r) ==
  LET q == req[r]
      found == member[q.target]
      next == [role |-> IF q.role = None THEN found.role ELSE q.role,
               status |-> IF q.status = None THEN found.status ELSE q.status]
  IN /\ q.at = "find"
     /\ found # None
     /\ req' = [req EXCEPT ![r] =
                  [q EXCEPT !.role = next.role, !.status = next.status,
                            !.at = IF found = OwnerSeat /\ next.role # "MSP_OWNER"
                                   THEN "protect" ELSE "write"]]
     /\ UNCHANGED <<users, member, completed, overlapped>>

(* memberForOwner; the request keeps what it found where the caller left   *)
(* something out, and protectOwner asks whether an active owner goes.      *)
FindMember(r) ==
  LET q == req[r]
      found == member[q.target]
      next == [role |-> IF q.role = None THEN found.role ELSE q.role,
               status |-> IF q.status = None THEN found.status ELSE q.status]
      removesOwner == found = OwnerSeat /\ next # OwnerSeat
  IN /\ q.at = "find"
     /\ found # None
     /\ req' = [req EXCEPT ![r] = [q EXCEPT !.role = next.role,
                                            !.status = next.status,
                                            !.at = IF removesOwner THEN "protect"
                                                   ELSE "write"]]
     /\ UNCHANGED <<users, member, completed, overlapped>>

\* Defect: the founder is protected only after the setup.
ReadOrganization_Setup(r) ==
  /\ req[r].at = "protect"
  /\ ~completed \/ req[r].target # Founder
  /\ req[r].target # req[r].actor
  /\ GoOn(r, "count")

\* Defect: owners may act on themselves while there are others.
ReadOrganization_Self(r) ==
  /\ req[r].at = "protect"
  /\ completed \/ req[r].target # Founder
  /\ GoOn(r, "count")

(* The founder is untouchable during the setup, the actor always.          *)
ReadOrganization(r) ==
  /\ req[r].at = "protect"
  /\ completed \/ req[r].target # Founder
  /\ req[r].target # req[r].actor
  /\ GoOn(r, "count")

CountOwners(r) ==
  /\ req[r].at = "count"
  /\ Cardinality(Owners) > 1
  /\ GoOn(r, "write")

(* The transaction: an update or a delete by the id of the membership.     *)
Seats(r, p, seat) ==
  /\ member' = [member EXCEPT ![p] = seat]
  /\ req' = [req EXCEPT ![r] = Idle]
  /\ overlapped' = [s \in Requests |-> s # r /\ req[s] # Idle]
  /\ UNCHANGED <<users, completed>>

WriteMember(r) ==
  /\ req[r].at = "write"
  /\ member[req[r].target] # None
  /\ Seats(r, req[r].target,
           IF req[r].kind = "remove" THEN None ELSE Seat(req[r]))

-----------------------------------------------------------------------------
(* The steps of an invitation, after the provider took it: a person with   *)
(* an account is left alone, a new one gets an account and then, in        *)
(* another transaction, an active membership.                              *)

\* Defect: an account that exists is taken for the new one.
CreateUser_Upsert(r) ==
  /\ req[r].at = "lookup"
  /\ users' = users \cup {req[r].target}
  /\ req' = [req EXCEPT ![r].at = "join"]
  /\ UNCHANGED <<member, completed, overlapped>>

CreateUser(r) ==
  /\ req[r].at = "lookup"
  /\ req[r].target \notin users
  /\ users' = users \cup {req[r].target}
  /\ req' = [req EXCEPT ![r].at = "join"]
  /\ UNCHANGED <<member, completed, overlapped>>

Join(r) ==
  /\ req[r].at = "join"
  /\ Seats(r, req[r].target, Seat(req[r]))

(* The compare-and-set that ends the setup repeats the founder's authority. *)
Complete(r) ==
  /\ req[r].at = "setup"
  /\ req[r].actor = Founder
  /\ member[Founder] = OwnerSeat
  /\ ~completed
  /\ completed' = TRUE
  /\ req' = [req EXCEPT ![r] = Idle]
  /\ overlapped' = [overlapped EXCEPT ![r] = FALSE]
  /\ UNCHANGED <<users, member>>

(* Every refusal, exception, failed transaction and crash.                 *)
EndRequest(r) ==
  /\ req[r] # Idle
  /\ req' = [req EXCEPT ![r] = Idle]
  /\ overlapped' = [overlapped EXCEPT ![r] = FALSE]
  /\ UNCHANGED <<users, member, completed>>

Next ==
  \E r \in Requests :
    \/ UpdateMember(r) \/ RemoveMember(r) \/ InviteMember(r) \/ CompleteOnboarding(r)
    \/ FindMember(r) \/ ReadOrganization(r) \/ CountOwners(r) \/ WriteMember(r)
    \/ CreateUser(r) \/ Join(r)
    \/ Complete(r) \/ EndRequest(r)

Spec == Init /\ [][Next]_vars

-----------------------------------------------------------------------------
(* Properties.                                                             *)

(* The type of the variables; a request that may write names a whole seat.  *)
TypeOK ==
  /\ users \subseteq People
  /\ member \in [People -> Membership \cup {None}]
  /\ completed \in BOOLEAN
  /\ req \in [Requests -> Request \cup {Idle}]
  /\ overlapped \in [Requests -> BOOLEAN]
  /\ \A r \in Requests :
       req[r].at \in {"protect", "count", "write", "lookup", "join"}
         => Seat(req[r]) \in Membership

(* protectOwner: until the setup is complete the founder is an active      *)
(* owner, whatever requests of other owners, and of the founder, overlap.  *)
FounderStays == ~completed => member[Founder] = OwnerSeat

(* inviteMember: the update branch of its upsert never meets a membership, *)
(* so that no invitation changes the role of somebody who is in the team.  *)
InvitesOnlyAdd ==
  \A r \in Requests : req[r].at = "join" => member[req[r].target] = None

(* protectOwner: the organisation loses its last active owner only to a    *)
(* request during which another request changed the team.                  *)
LastOwnerOnlyByRace ==
  [][Owners # {} /\ Owners' = {} =>
       \E r \in Requests : /\ req[r].at = "write" /\ req'[r] = Idle
                           /\ overlapped[r]]_vars

(* protectOwner: unless the team changed meanwhile, a request never takes  *)
(* the ownership of the owner who sent it.                                 *)
NoSelfRemoval ==
  [][\A r \in Requests :
       /\ req[r].at = "write" /\ req'[r] = Idle
       /\ member[req[r].actor] = OwnerSeat
       /\ member'[req[r].actor] # OwnerSeat
       => overlapped[r]]_vars

(* The README of the repository: there is always an active owner.  Two     *)
(* owners acting on each other both count two.                             *)
OwnerRemains == Owners # {}
=============================================================================
