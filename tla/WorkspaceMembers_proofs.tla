---------------------- MODULE WorkspaceMembers_proofs ----------------------
(***************************************************************************)
(* What protectOwner guarantees, proved for any people, roles and number   *)
(* of overlapping requests.                                                *)
(*                                                                         *)
(* The properties speak of the moment of a write; the requests decided     *)
(* earlier.  The invariant therefore says of every request what its        *)
(* decisions are still worth.                                              *)
(***************************************************************************)
EXTENDS WorkspaceMembers, TLAPS

At(r, stages) == req[r].at \in stages

(* Every member has an account, and so has everybody about to join; no two *)
(* requests are about to let the same person join.                         *)
AccountInv ==
  /\ Founder \in users
  /\ \A p \in People : member[p] # None => p \in users
  /\ \A r \in Requests : At(r, {"join"}) => req[r].target \in users
  /\ \A r, s \in Requests :
       At(r, {"join"}) /\ At(s, {"join"}) /\ r # s => req[r].target # req[s].target

(* A removal never names the seat of an owner.                             *)
RemovalInv ==
  \A r \in Requests : req[r] # Idle /\ req[r].kind = "remove" => req[r].role = "MSP_VIEWER"

(* Past its guard a request that takes a seat from the founder has seen    *)
(* the setup complete.                                                     *)
FounderInv ==
  \A r \in Requests :
    At(r, {"count", "write"}) /\ req[r].target = Founder /\ Seat(req[r]) # OwnerSeat
      => completed

(* Until the team changes, the sender of a request is an active owner, and *)
(* a request that would take an ownership does not take its sender's.      *)
SenderInv ==
  /\ \A r \in Requests : req[r] # Idle /\ ~overlapped[r] => member[req[r].actor] = OwnerSeat
  /\ \A r \in Requests : At(r, {"count"}) => req[r].target # req[r].actor
  /\ \A r \in Requests :
       /\ At(r, {"write"}) /\ ~overlapped[r]
       /\ member[req[r].target] = OwnerSeat /\ Seat(req[r]) # OwnerSeat
       => req[r].target # req[r].actor

IInv ==
  /\ TypeOK /\ FounderStays /\ InvitesOnlyAdd
  /\ AccountInv /\ RemovalInv /\ FounderInv /\ SenderInv

USE PeopleAssumption, RoleAssumption, NoneAssumption

-----------------------------------------------------------------------------
(* A request at one of its stages is under way.                            *)
LEMMA UnderWay ==
  ASSUME TypeOK, NEW r \in Requests, req[r].at # "idle"
  PROVE  req[r] # Idle /\ req[r] \in Request
BY DEF TypeOK, Idle

(* The seat of an owner is a seat, and none is None.                       *)
LEMMA SeatFacts ==
  /\ OwnerSeat \in Membership
  /\ None \notin Membership
  /\ Idle \notin Request
BY DEF OwnerSeat, Membership, Statuses, Idle, Request

(* What a request record consists of.                                      *)
LEMMA RequestFields ==
  ASSUME NEW q \in Request
  PROVE  /\ q.actor \in People /\ q.target \in People
         /\ q.role \in Roles \cup {None} /\ q.status \in Statuses \cup {None}
         /\ q.at # "idle"
BY DEF Request

-----------------------------------------------------------------------------
(* The initial states: the founder alone, no request.                      *)
LEMMA InitIInv == Init => IInv
<1> SUFFICES ASSUME Init PROVE IInv
    OBVIOUS
<1> USE DEF Init
<1>1. \A r \in Requests : req[r] = Idle /\ req[r].at = "idle"
      BY DEF Idle
<1>2. TypeOK
      BY <1>1, SeatFacts DEF TypeOK
<1>3. FounderStays
      BY DEF FounderStays
<1>4. InvitesOnlyAdd /\ FounderInv
      BY <1>1 DEF InvitesOnlyAdd, FounderInv, At
<1>5. AccountInv
      BY <1>1 DEF AccountInv, At
<1>6. RemovalInv /\ SenderInv
      BY <1>1 DEF RemovalInv, SenderInv, At
<1> QED
    BY <1>2, <1>3, <1>4, <1>5, <1>6 DEF IInv

-----------------------------------------------------------------------------
(* The actions, one lemma each.                                            *)

(* A request moves to a stage, and nothing else changes.                   *)
LEMMA StageIInv ==
  ASSUME IInv, NEW r \in Requests, NEW q \in Request,
         req' = [req EXCEPT ![r] = q],
         UNCHANGED <<users, member, completed, overlapped>>,
         q.at # "join",
         q.at \in {"protect", "count", "write", "lookup"} => Seat(q) \in Membership,
         q.kind = "remove" => q.role = "MSP_VIEWER",
         /\ q.at \in {"count", "write"} /\ q.target = Founder /\ Seat(q) # OwnerSeat
         => completed,
         ~overlapped[r] => member[q.actor] = OwnerSeat,
         q.at = "count" => q.target # q.actor,
         /\ q.at = "write" /\ ~overlapped[r]
         /\ member[q.target] = OwnerSeat /\ Seat(q) # OwnerSeat
         => q.target # q.actor
  PROVE  IInv'
<1> USE DEF IInv
<1>1. /\ req'[r] = q
      /\ \A s \in Requests : s # r => req'[s] = req[s]
      BY DEF TypeOK
<1>2. TypeOK'
  <2>1. req' \in [Requests -> Request \cup {Idle}]
        BY DEF TypeOK
  <2> QED
      BY <1>1, <2>1 DEF TypeOK, Seat
<1>3. FounderStays'
      BY DEF FounderStays
<1>4. InvitesOnlyAdd'
      BY <1>1 DEF InvitesOnlyAdd
<1>5. FounderInv'
      BY <1>1 DEF FounderInv, At, Seat
<1>6. AccountInv'
      BY <1>1 DEF AccountInv, At
<1>7. RemovalInv'
      BY <1>1 DEF RemovalInv
<1>8. SenderInv'
      BY <1>1 DEF SenderInv, At, Seat
<1> QED
    BY <1>2, <1>3, <1>4, <1>5, <1>6, <1>7, <1>8

LEMMA BeginIInv ==
  ASSUME IInv, NEW r \in Requests, NEW q \in Request, Begin(r, q),
         q.at \in {"find", "lookup", "setup"},
         q.at = "lookup" => Seat(q) \in Membership,
         q.kind = "remove" => q.role = "MSP_VIEWER"
  PROVE  IInv'
BY StageIInv DEF Begin

LEMMA NewRequestIInv ==
  ASSUME IInv, NEW r \in Requests,
         \/ UpdateMember(r) \/ RemoveMember(r) \/ InviteMember(r) \/ CompleteOnboarding(r)
  PROVE  IInv'
<1>1. CASE UpdateMember(r)
  <2>1. PICK a \in People, t \in People,
             role \in Roles \cup {None}, status \in Statuses \cup {None} :
          Begin(r, [at |-> "find", kind |-> "update", actor |-> a, target |-> t,
                    role |-> role, status |-> status])
        BY <1>1 DEF UpdateMember
  <2> DEFINE q == [at |-> "find", kind |-> "update", actor |-> a, target |-> t,
                   role |-> role, status |-> status]
  <2>2. q \in Request /\ q.at = "find" /\ q.kind = "update"
        BY DEF Request
  <2> HIDE DEF q
  <2>3. req[r] = Idle /\ Begin(r, q)
        BY <1>1, <2>1 DEF UpdateMember, q
  <2> QED
      BY <2>2, <2>3, BeginIInv
<1>2. CASE RemoveMember(r)
  <2>1. PICK a \in People, t \in People :
          Begin(r, [at |-> "find", kind |-> "remove", actor |-> a, target |-> t,
                    role |-> "MSP_VIEWER", status |-> "SUSPENDED"])
        BY <1>2 DEF RemoveMember
  <2> DEFINE q == [at |-> "find", kind |-> "remove", actor |-> a, target |-> t,
                   role |-> "MSP_VIEWER", status |-> "SUSPENDED"]
  <2>2. q \in Request /\ q.at = "find" /\ q.role = "MSP_VIEWER"
        BY DEF Request, Statuses
  <2> HIDE DEF q
  <2>3. req[r] = Idle /\ Begin(r, q)
        BY <1>2, <2>1 DEF RemoveMember, q
  <2> QED
      BY <2>2, <2>3, BeginIInv
<1>3. CASE InviteMember(r)
  <2>1. PICK a \in People, t \in People, role \in Roles :
          Begin(r, [at |-> "lookup", kind |-> "invite", actor |-> a, target |-> t,
                    role |-> role, status |-> "ACTIVE"])
        BY <1>3 DEF InviteMember
  <2> DEFINE q == [at |-> "lookup", kind |-> "invite", actor |-> a, target |-> t,
                   role |-> role, status |-> "ACTIVE"]
  <2>2. q \in Request /\ q.at = "lookup" /\ q.kind = "invite" /\ Seat(q) \in Membership
        BY DEF Request, Statuses, Seat, Membership
  <2> HIDE DEF q
  <2>3. req[r] = Idle /\ Begin(r, q)
        BY <1>3, <2>1 DEF InviteMember, q
  <2> QED
      BY <2>2, <2>3, BeginIInv
<1>4. CASE CompleteOnboarding(r)
  <2>1. PICK a \in People :
          Begin(r, [at |-> "setup", kind |-> "complete", actor |-> a, target |-> a,
                    role |-> None, status |-> None])
        BY <1>4 DEF CompleteOnboarding
  <2> DEFINE q == [at |-> "setup", kind |-> "complete", actor |-> a, target |-> a,
                   role |-> None, status |-> None]
  <2>2. q \in Request /\ q.at = "setup" /\ q.kind = "complete"
        BY DEF Request
  <2> HIDE DEF q
  <2>3. req[r] = Idle /\ Begin(r, q)
        BY <1>4, <2>1 DEF CompleteOnboarding, q
  <2> QED
      BY <2>2, <2>3, BeginIInv
<1> QED
    BY <1>1, <1>2, <1>3, <1>4

(* The membership found completes the seat; a change that takes no         *)
(* ownership goes straight to its write.                                   *)
LEMMA FindMemberIInv ==
  ASSUME IInv, NEW r \in Requests, FindMember(r)
  PROVE  IInv'
<1> USE DEF IInv
<1> DEFINE q == req[r]
           found == member[q.target]
           next == [role |-> IF q.role = None THEN found.role ELSE q.role,
                    status |-> IF q.status = None THEN found.status ELSE q.status]
           p == req'[r]
<1>1. q \in Request /\ q # Idle /\ q.at = "find"
      BY UnderWay DEF FindMember
<1>2. found \in Membership
      BY <1>1, RequestFields DEF FindMember, TypeOK
<1>3. next \in Membership
      BY <1>1, <1>2, RequestFields DEF Membership
<1>4. /\ p = [q EXCEPT !.role = next.role, !.status = next.status,
                       !.at = IF found = OwnerSeat /\ next # OwnerSeat
                              THEN "protect" ELSE "write"]
      /\ \A s \in Requests : s # r => req'[s] = req[s]
      /\ req' = [req EXCEPT ![r] = p]
      /\ UNCHANGED <<users, member, completed, overlapped>>
      BY DEF FindMember, TypeOK
<1>5. /\ p \in Request
      /\ p.actor = q.actor /\ p.target = q.target /\ p.kind = q.kind
      /\ p.at \in {"protect", "write"}
      /\ p.at = "write" => found # OwnerSeat \/ next = OwnerSeat
      BY <1>1, <1>3, <1>4 DEF Request, Membership
<1>6. Seat(p) = next
      BY <1>1, <1>3, <1>4 DEF Seat, Request, Membership
<1>7. q.kind = "remove" => p.role = "MSP_VIEWER"
      BY <1>1, <1>4 DEF Request, RemovalInv
<1>8. ~overlapped[r] => member[p.actor] = OwnerSeat
      BY <1>1, <1>5 DEF SenderInv
<1>9. p.at = "write" /\ p.target = Founder /\ next # OwnerSeat => completed
      BY <1>5 DEF FounderStays
<1> HIDE DEF next, found, p
<1> QED
    BY <1>3, <1>4, <1>5, <1>6, <1>7, <1>8, <1>9, StageIInv DEF found

(* The guards of protectOwner.                                             *)
LEMMA GuardIInv ==
  ASSUME IInv, NEW r \in Requests, ReadOrganization(r) \/ CountOwners(r)
  PROVE  IInv'
<1> USE DEF IInv
<1> DEFINE q(stage) == [req[r] EXCEPT !.at = stage]
<1>1. req[r] \in Request /\ req[r] # Idle /\ Seat(req[r]) \in Membership
      BY UnderWay DEF ReadOrganization, CountOwners, TypeOK
<1>2. ASSUME NEW stage \in {"count", "write"}
      PROVE  /\ q(stage) \in Request /\ q(stage).at = stage
             /\ q(stage).actor = req[r].actor /\ q(stage).target = req[r].target
             /\ q(stage).kind = req[r].kind /\ q(stage).role = req[r].role
             /\ Seat(q(stage)) = Seat(req[r])
      BY <1>1 DEF Request, Seat
<1>3. /\ q("count").kind = "remove" => q("count").role = "MSP_VIEWER"
      /\ q("write").kind = "remove" => q("write").role = "MSP_VIEWER"
      /\ ~overlapped[r] => member[req[r].actor] = OwnerSeat
      BY <1>1, <1>2 DEF RemovalInv, SenderInv
<1>4. CASE ReadOrganization(r)
  <2>1. /\ req' = [req EXCEPT ![r] = q("count")]
        /\ UNCHANGED <<users, member, completed, overlapped>>
        /\ completed \/ req[r].target # Founder
        /\ req[r].target # req[r].actor
        BY <1>4 DEF ReadOrganization, GoOn, TypeOK
  <2> HIDE DEF q
  <2> QED
      BY <1>1, <1>2, <1>3, <2>1, StageIInv
<1>5. CASE CountOwners(r)
  <2>1. /\ req' = [req EXCEPT ![r] = q("write")]
        /\ UNCHANGED <<users, member, completed, overlapped>>
        /\ req[r].target # req[r].actor
        /\ req[r].target = Founder /\ Seat(req[r]) # OwnerSeat => completed
        BY <1>5 DEF CountOwners, GoOn, TypeOK, SenderInv, FounderInv, At
  <2> HIDE DEF q
  <2> QED
      BY <1>1, <1>2, <1>3, <2>1, StageIInv
<1> QED
    BY <1>4, <1>5

(* A request writes a membership and ends.                                 *)
LEMMA SeatsIInv ==
  ASSUME IInv, NEW r \in Requests, NEW p \in People, NEW seat \in Membership \cup {None},
         Seats(r, p, seat),
         p \in users,
         p = Founder /\ ~completed => seat = OwnerSeat,
         \A s \in Requests : s # r /\ At(s, {"join"}) => req[s].target # p
  PROVE  IInv'
<1> USE DEF IInv
<1>1. /\ req'[r] = Idle /\ req'[r].at = "idle"
      /\ \A s \in Requests : s # r => req'[s] = req[s]
      /\ \A s \in Requests : req'[s] # Idle => s # r /\ overlapped'[s]
      /\ member'[p] = seat
      /\ \A o \in People : o # p => member'[o] = member[o]
      /\ users' = users /\ completed' = completed
      BY DEF Seats, TypeOK, Idle
<1>2. TypeOK'
  <2>1. /\ req' \in [Requests -> Request \cup {Idle}]
        /\ member' \in [People -> Membership \cup {None}]
        /\ overlapped' \in [Requests -> BOOLEAN]
        BY DEF Seats, TypeOK
  <2> QED
      BY <1>1, <2>1 DEF TypeOK, Seat
<1>3. FounderStays'
      BY <1>1 DEF FounderStays
<1>4. InvitesOnlyAdd'
  <2> SUFFICES ASSUME NEW s \in Requests, req'[s].at = "join"
               PROVE  member'[req'[s].target] = None
      BY DEF InvitesOnlyAdd
  <2>1. s # r /\ req'[s] = req[s] /\ req[s].at = "join"
        BY <1>1
  <2>2. req[s].target \in People /\ req[s].target # p
        BY <2>1, UnderWay, RequestFields DEF At
  <2> QED
      BY <1>1, <2>1, <2>2 DEF InvitesOnlyAdd
<1>5. FounderInv'
      BY <1>1 DEF FounderInv, At, Seat
<1>6. AccountInv'
      BY <1>1 DEF AccountInv, At
<1>7. RemovalInv'
      BY <1>1 DEF RemovalInv
<1>8. SenderInv'
  <2>1. \A s \in Requests : At(s, {"count"})' => req'[s].target # req'[s].actor
        BY <1>1 DEF SenderInv, At
  <2>2. \A s \in Requests : At(s, {"write"})' => req'[s] # Idle
        BY DEF At, Idle
  <2> QED
      BY <1>1, <2>1, <2>2 DEF SenderInv
<1> QED
    BY <1>2, <1>3, <1>4, <1>5, <1>6, <1>7, <1>8

LEMMA WriteMemberIInv ==
  ASSUME IInv, NEW r \in Requests, WriteMember(r)
  PROVE  IInv'
<1> USE DEF IInv
<1> DEFINE seat == IF req[r].kind = "remove" THEN None ELSE Seat(req[r])
<1>1. req[r] \in Request /\ req[r] # Idle /\ Seat(req[r]) \in Membership
      BY UnderWay DEF WriteMember, TypeOK
<1>2. req[r].target \in People /\ req[r].target \in users
      BY <1>1, RequestFields DEF WriteMember, AccountInv
<1>3. req[r].target = Founder /\ ~completed => seat = OwnerSeat
  <2>1. req[r].kind = "remove" => Seat(req[r]) # OwnerSeat
        BY <1>1 DEF RemovalInv, Seat, OwnerSeat
  <2> QED
      BY <2>1 DEF WriteMember, FounderInv, At
<1>4. \A s \in Requests : s # r /\ At(s, {"join"}) => req[s].target # req[r].target
      BY DEF WriteMember, InvitesOnlyAdd, At
<1>5. seat \in Membership \cup {None} /\ Seats(r, req[r].target, seat)
      BY <1>1 DEF WriteMember
<1> HIDE DEF seat
<1> QED
    BY <1>2, <1>3, <1>4, <1>5, SeatsIInv

LEMMA JoinIInv ==
  ASSUME IInv, NEW r \in Requests, Join(r)
  PROVE  IInv'
<1> USE DEF IInv
<1>1. req[r] \in Request /\ Seat(req[r]) \in Membership
      BY UnderWay DEF Join, TypeOK
<1>2. req[r].target \in People /\ req[r].target \in users
      BY <1>1, RequestFields DEF Join, AccountInv, At
<1>3. req[r].target = Founder => completed
      BY SeatFacts DEF Join, InvitesOnlyAdd, FounderStays
<1>4. \A s \in Requests : s # r /\ At(s, {"join"}) => req[s].target # req[r].target
      BY DEF Join, AccountInv, At
<1> QED
    BY <1>1, <1>2, <1>3, <1>4, SeatsIInv DEF Join

(* A new account belongs to nobody who is in the team or about to join it. *)
LEMMA CreateUserIInv ==
  ASSUME IInv, NEW r \in Requests, CreateUser(r)
  PROVE  IInv'
<1> USE DEF IInv
<1> DEFINE q == [req[r] EXCEPT !.at = "join"]
<1>1. req[r] \in Request /\ req[r] # Idle
      BY UnderWay DEF CreateUser
<1>2. /\ q \in Request /\ q.at = "join" /\ Seat(q) = Seat(req[r])
      /\ q.actor = req[r].actor /\ q.target = req[r].target
      /\ q.kind = req[r].kind /\ q.role = req[r].role
      BY <1>1 DEF Request, Seat
<1>3. /\ req' = [req EXCEPT ![r] = q]
      /\ req'[r] = q
      /\ \A s \in Requests : s # r => req'[s] = req[s]
      /\ users' = users \cup {q.target}
      /\ q.target \notin users /\ q.target \in People
      /\ UNCHANGED <<member, completed, overlapped>>
      BY <1>1, <1>2, RequestFields DEF CreateUser, TypeOK
<1> HIDE DEF q
<1>4. Seat(q) \in Membership
      BY <1>1, <1>2 DEF CreateUser, TypeOK
<1>5. TypeOK'
  <2>1. req' \in [Requests -> Request \cup {Idle}] /\ users' \subseteq People
        BY <1>2, <1>3 DEF TypeOK
  <2> QED
      BY <1>3, <1>4, <2>1 DEF TypeOK, Seat
<1>6. FounderStays'
      BY <1>3 DEF FounderStays
<1>7. InvitesOnlyAdd'
      BY <1>3 DEF InvitesOnlyAdd, AccountInv
<1>8. FounderInv'
      BY <1>2, <1>3 DEF FounderInv, At, Seat
<1>9. AccountInv'
      BY <1>2, <1>3 DEF AccountInv, At
<1>10. RemovalInv'
       BY <1>1, <1>2, <1>3 DEF RemovalInv
<1>11. SenderInv'
       BY <1>1, <1>2, <1>3 DEF SenderInv, At, Seat
<1> QED
    BY <1>5, <1>6, <1>7, <1>8, <1>9, <1>10, <1>11

(* The end of the setup, and of a request.                                 *)
LEMMA EndIInv ==
  ASSUME IInv, NEW r \in Requests, Complete(r) \/ EndRequest(r)
  PROVE  IInv'
<1> USE DEF IInv
<1>1. /\ req' = [req EXCEPT ![r] = Idle]
      /\ req'[r] = Idle /\ req'[r].at = "idle"
      /\ \A s \in Requests : s # r => req'[s] = req[s] /\ overlapped'[s] = overlapped[s]
      /\ overlapped' \in [Requests -> BOOLEAN]
      /\ UNCHANGED <<users, member>>
      /\ completed' \in BOOLEAN /\ (completed => completed')
  <2>1. req' = [req EXCEPT ![r] = Idle] /\ UNCHANGED <<users, member>>
        BY DEF Complete, EndRequest
  <2>2. completed' \in BOOLEAN /\ (completed => completed')
        BY DEF Complete, EndRequest, TypeOK
  <2>3. overlapped' = [overlapped EXCEPT ![r] = FALSE]
        BY DEF Complete, EndRequest
  <2> QED
      BY <2>1, <2>2, <2>3 DEF TypeOK, Idle
<1>2. TypeOK'
  <2>1. req' \in [Requests -> Request \cup {Idle}]
        BY <1>1 DEF TypeOK
  <2> QED
      BY <1>1, <2>1 DEF TypeOK, Seat
<1>3. FounderStays' /\ InvitesOnlyAdd'
      BY <1>1 DEF FounderStays, InvitesOnlyAdd
<1>4. FounderInv'
      BY <1>1 DEF FounderInv, At, Seat
<1>5. AccountInv'
      BY <1>1 DEF AccountInv, At
<1>6. RemovalInv'
      BY <1>1 DEF RemovalInv
<1>7. SenderInv'
      BY <1>1 DEF SenderInv, At, Seat
<1> QED
    BY <1>2, <1>3, <1>4, <1>5, <1>6, <1>7

LEMMA NextIInv == IInv /\ [Next]_vars => IInv'
<1> SUFFICES ASSUME IInv, [Next]_vars PROVE IInv'
    OBVIOUS
<1>1. CASE UNCHANGED vars
      BY <1>1 DEF vars, IInv, TypeOK, FounderStays, InvitesOnlyAdd, AccountInv,
                  RemovalInv, FounderInv, SenderInv, At, Seat
<1>2. CASE Next
      BY <1>2, NewRequestIInv, FindMemberIInv, GuardIInv, WriteMemberIInv,
         CreateUserIInv, JoinIInv, EndIInv DEF Next
<1> QED
    BY <1>1, <1>2

LEMMA Invariance == Spec => []IInv
BY InitIInv, NextIInv, PTL DEF Spec

-----------------------------------------------------------------------------
(* The type of every variable, in every reachable state.                   *)
THEOREM TeamTypeCorrect == Spec => []TypeOK
<1>1. IInv => TypeOK
      BY DEF IInv
<1> QED
    BY Invariance, <1>1, PTL

(* protectOwner keeps the founder through the setup, whatever overlaps.    *)
THEOREM FounderKept == Spec => []FounderStays
<1>1. IInv => FounderStays
      BY DEF IInv
<1> QED
    BY Invariance, <1>1, PTL

(* The upsert of an invitation never finds a membership to change.         *)
THEOREM InvitationsAdd == Spec => []InvitesOnlyAdd
<1>1. IInv => InvitesOnlyAdd
      BY DEF IInv
<1> QED
    BY Invariance, <1>1, PTL

(* A request that nobody overtook leaves its sender an owner.              *)
LEMMA SenderStays ==
  ASSUME IInv, NEW r \in Requests, WriteMember(r), ~overlapped[r]
  PROVE  /\ req[r].actor \in People
         /\ member[req[r].actor] = OwnerSeat /\ member'[req[r].actor] = OwnerSeat
<1> USE DEF IInv
<1>1. req[r] \in Request /\ req[r] # Idle /\ Seat(req[r]) \in Membership
      BY UnderWay DEF WriteMember, TypeOK
<1>2. /\ req[r].actor \in People /\ req[r].target \in People
      /\ member[req[r].actor] = OwnerSeat
      BY <1>1, RequestFields DEF SenderInv
<1>3. CASE req[r].target # req[r].actor
      BY <1>2, <1>3 DEF WriteMember, Seats, TypeOK
<1>4. CASE req[r].target = req[r].actor
  <2>1. Seat(req[r]) = OwnerSeat
        BY <1>2, <1>4 DEF WriteMember, SenderInv, At
  <2>2. req[r].kind # "remove"
        BY <1>1, <2>1 DEF RemovalInv, Seat, OwnerSeat
  <2> QED
      BY <1>2, <1>4, <2>1, <2>2 DEF WriteMember, Seats, TypeOK
<1> QED
    BY <1>2, <1>3, <1>4

(* Only the write of a membership takes one away or changes it.            *)
LEMMA WhoWrites ==
  ASSUME IInv, [Next]_vars, NEW p \in People, member[p] = OwnerSeat, member'[p] # OwnerSeat
  PROVE  \E r \in Requests : WriteMember(r) /\ req[r].at = "write" /\ req'[r] = Idle
<1> USE DEF IInv
<1>1. CASE UNCHANGED vars
      BY <1>1 DEF vars
<1>2. CASE Next
  <2>1. PICK r \in Requests : WriteMember(r) \/ Join(r)
        BY <1>2 DEF Next, UpdateMember, RemoveMember, InviteMember, CompleteOnboarding,
                    Begin, FindMember, ReadOrganization, CountOwners, GoOn, CreateUser,
                    Complete, EndRequest
  <2>2. ~Join(r)
    <3> SUFFICES ASSUME Join(r) PROVE FALSE
        OBVIOUS
    <3>1. req[r].target # p
          BY SeatFacts DEF Join, InvitesOnlyAdd
    <3> QED
        BY <3>1 DEF Join, Seats, TypeOK
  <2> QED
      BY <2>1, <2>2 DEF WriteMember, Seats, TypeOK
<1> QED
    BY <1>1, <1>2

(* The last active owner goes only in a race of two requests.              *)
THEOREM LastOwnerGuarded == Spec => LastOwnerOnlyByRace
<1>1. ASSUME IInv, [Next]_vars, Owners # {}, Owners' = {}
      PROVE  \E r \in Requests : /\ req[r].at = "write" /\ req'[r] = Idle
                                 /\ overlapped[r]
  <2>1. PICK p \in People : member[p] = OwnerSeat /\ member'[p] # OwnerSeat
        BY <1>1 DEF Owners
  <2>2. PICK r \in Requests : WriteMember(r) /\ req[r].at = "write" /\ req'[r] = Idle
        BY <1>1, <2>1, WhoWrites
  <2>3. overlapped[r]
        BY <1>1, <2>2, SenderStays DEF Owners
  <2> QED
      BY <2>2, <2>3
<1> QED
    BY <1>1, Invariance, PTL DEF Spec, LastOwnerOnlyByRace

(* Nobody loses the ownership by a request of their own, save in a race.   *)
THEOREM SelfGuarded == Spec => NoSelfRemoval
<1>1. ASSUME IInv, [Next]_vars
      PROVE  \A r \in Requests :
               /\ req[r].at = "write" /\ req'[r] = Idle
               /\ member[req[r].actor] = OwnerSeat
               /\ member'[req[r].actor] # OwnerSeat
               => overlapped[r]
  <2> SUFFICES ASSUME NEW r \in Requests,
                      req[r].at = "write", req'[r] = Idle,
                      member[req[r].actor] = OwnerSeat, member'[req[r].actor] # OwnerSeat
               PROVE  overlapped[r]
      OBVIOUS
  <2>1. req[r] # Idle /\ req[r].actor \in People
        BY <1>1, UnderWay, RequestFields DEF IInv
  <2>2. PICK s \in Requests : WriteMember(s)
        BY <1>1, <2>1, WhoWrites
  <2>3. s = r
        BY <1>1, <2>1, <2>2 DEF WriteMember, Seats, IInv, TypeOK
  <2> QED
      BY <1>1, <2>2, <2>3, SenderStays
<1> QED
    BY <1>1, Invariance, PTL DEF Spec, NoSelfRemoval
=============================================================================
