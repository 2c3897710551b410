------------------------- MODULE MCTenantAuthority -------------------------
(***************************************************************************)
(* An instance of TenantAuthority for TLC: two or more requests of every   *)
(* kind, of which at most MaxRequests are made in one behaviour, or one    *)
(* more where only the collection of roles is concerned.                   *)
(***************************************************************************)
EXTENDS TenantAuthority, FiniteSets

CONSTANTS p1, p2, o1, o2, b1, b2, v1, v2, k1, k2, d1, d2, q1, q2, r1, MaxRequests

\* The requests of one kind are interchangeable: the first of them starts first.
InTurn ==
  /\ draft[p2].at # "new" => draft[p1].at # "new"
  /\ asked[o2].at # "new" => asked[o1].at # "new"
  /\ \A o \in Consents : callback[o][b2].at # "new" => callback[o][b1].at # "new"
  /\ check[v2].at # "new" => check[v1].at # "new"
  /\ collector[k2].at # "new" => collector[k1].at # "new"
  /\ control[d2].at # "new" => control[d1].at # "new"
  /\ pimRun[q2].at # "new" => pimRun[q1].at # "new"

\* The first load of a callback page comes with its link; a second load counts, and
\* so does every notice of an older instance.
Requests ==
  Cardinality({p \in Publishers : draft[p].at # "new"})
    + Cardinality({o \in Consents : asked[o].at # "new"})
    + Cardinality({o \in Consents : callback[o][b2].at # "new"})
    + Cardinality({v \in Checks : check[v].at # "new"})
    + Cardinality({k \in Collectors : collector[k].at # "new"})
    + Cardinality({d \in Controls : control[d].at # "new"})
    + Cardinality({r \in Readers : reader[r].at # "new"})
    + Cardinality({q \in PimRuns : pimRun[q].at # "new"})
    + legacy

\* What is said of the evidence of roles takes one more request, since the collection
\* must be switched on and have run before anything can happen to its evidence.
RolesOnly ==
  /\ control[d1].at # "new" /\ collector[k1].at # "new"
  /\ asked[o1].at = "new" /\ pimRun[q1].at = "new" /\ legacy = 0

FewRequests == Requests <= IF RolesOnly THEN MaxRequests + 1 ELSE MaxRequests
=============================================================================
