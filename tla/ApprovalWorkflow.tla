-------------------------- MODULE ApprovalWorkflow --------------------------
(***************************************************************************)
(* Approval requests and votes (packages/approval/workflow.py, tables       *)
(* approvals and approval_votes).  Each method is one transaction, or one   *)
(* critical section of the in-memory variant, hence one action.             *)
(*                                                                         *)
(* Durable tells the two variants apart: both refuse a vote on an expired   *)
(* request, but on PostgreSQL the exception rolls the update to 'expired'   *)
(* back, in memory it stays.  `now' is a field of the HTTP request.         *)
(***************************************************************************)
EXTENDS Naturals, FiniteSets

CONSTANTS
    Approvals,  \* approval ids
    Plans,      \* plan ids
    Actors,     \* authenticated identities
    Roles,      \* approval roles
    Durable,    \* TRUE on PostgreSQL, FALSE in memory
    NoRequest   \* an approval id that is not in use

Risks == 0 .. 4     \* RiskLevel L0 .. L4

ASSUME DurableAssumption == Durable \in BOOLEAN

VARIABLE approvals  \* id -> request or NoRequest

Statuses == {"pending", "approved", "rejected", "expired"}
Votes == [actor : Actors, role : Roles]
ApprovalRequest ==
    [plan_id : Plans, risk : Risks, requested_by : Actors, expires_at : Nat,
     required_roles : SUBSET Roles, required_count : Nat,
     votes : SUBSET Votes, status : Statuses]

ASSUME NoRequestAssumption == NoRequest \notin ApprovalRequest

Minimum(risk) == IF risk >= 3 THEN 2 ELSE IF risk >= 2 THEN 1 ELSE 0

\* The checks of create and of _validate_modification on the requirements.
Sufficient(risk, roles, count) ==
    count >= Minimum(risk) /\ (count > 0 => roles # {})

Exists(a) == approvals[a] # NoRequest
Voted(a, actor) == \E v \in approvals[a].votes : v.actor = actor

NewRequest(plan, risk, actor, expires, roles, count) ==
    [plan_id |-> plan, risk |-> risk, requested_by |-> actor, expires_at |-> expires,
     required_roles |-> roles, required_count |-> count, votes |-> {}, status |-> "pending"]

\* An id that is in use is left alone: the same request returns, another raises.
Create(a, plan, risk, actor, expires, roles, count) ==
    /\ ~Exists(a)
    /\ Sufficient(risk, roles, count)
    /\ approvals' = [approvals EXCEPT ![a] =
                       NewRequest(plan, risk, actor, expires, roles, count)]

\* The checks of approve before the vote is recorded; a second vote of the same
\* actor returns the request unchanged.
MutantSelfApproval(a, actor, role, now) ==
    /\ Exists(a) /\ approvals[a].status = "pending"
    /\ now < approvals[a].expires_at
    /\ role \in approvals[a].required_roles
    /\ ~Voted(a, actor)
MayVote(a, actor, role, now) ==
    /\ Exists(a) /\ approvals[a].status = "pending"
    /\ now < approvals[a].expires_at
    /\ actor # approvals[a].requested_by
    /\ role \in approvals[a].required_roles
    /\ ~Voted(a, actor)

WithVote(request, actor, role) ==
    LET votes == request.votes \cup {[actor |-> actor, role |-> role]}
    IN [request EXCEPT !.votes = votes,
                       !.status = IF Cardinality(votes) >= request.required_count
                                  THEN "approved" ELSE "pending"]

Approve(a, actor, role, now) ==
    /\ MayVote(a, actor, role, now)
    /\ approvals' = [approvals EXCEPT ![a] = WithVote(@, actor, role)]

\* approve after the expiry time.
Expire(a, now) ==
    /\ Exists(a) /\ approvals[a].status = "pending"
    /\ now >= approvals[a].expires_at
    /\ approvals' = IF Durable THEN approvals
                    ELSE [approvals EXCEPT ![a].status = "expired"]

\* A request that is rejected already is returned as it is.
Reject(a) ==
    /\ Exists(a) /\ approvals[a].status \in {"pending", "rejected"}
    /\ approvals' = [approvals EXCEPT ![a].status = "rejected"]

MayModify(a, actor, roles, count) ==
    /\ Exists(a) /\ approvals[a].status = "pending" /\ approvals[a].votes = {}
    /\ actor = approvals[a].requested_by
    /\ Sufficient(approvals[a].risk, roles, count)

Modify(a, actor, expires, roles, count) ==
    /\ MayModify(a, actor, roles, count)
    /\ approvals' = [approvals EXCEPT ![a] =
                       [@ EXCEPT !.expires_at = expires, !.required_roles = roles,
                                 !.required_count = count]]

ApprovalsInit == approvals = [a \in Approvals |-> NoRequest]

-----------------------------------------------------------------------------
\* Role separation: an approved request carries at least required_count votes of
\* distinct actors, never fewer than its risk asks for, none of them by its requester
\* and each in a role the request requires, although roles and count can be modified
\* while it is pending.
RoleSeparation ==
    \A a \in Approvals :
        Exists(a) /\ approvals[a].status = "approved" =>
            LET request == approvals[a]
                voters == {v.actor : v \in request.votes}
            IN /\ Cardinality(voters) >= request.required_count
               /\ Cardinality(voters) >= Minimum(request.risk)
               /\ request.requested_by \notin voters
               /\ \A v \in request.votes : v.role \in request.required_roles
=============================================================================
