------------------------ MODULE PlanGovernanceProofs ------------------------
(***************************************************************************)
(* Proofs about PlanGovernance and the approvals it drives, for every set   *)
(* of plans, handlers, actors and roles and every bound.                    *)
(***************************************************************************)
EXTENDS PlanGovernance, FiniteSetTheorems, TLAPS

-----------------------------------------------------------------------------
\* Approval requests

Voters(request) == {v.actor : v \in request.votes}

\* What every request keeps while it is voted on and modified: as many voters as votes,
\* the requester not among them, each in a required role, the count no lower than the
\* risk asks for, and reached before the request is approved.
RequestOK(request) ==
    /\ IsFiniteSet(request.votes) /\ IsFiniteSet(Voters(request))
    /\ Cardinality(Voters(request)) = Cardinality(request.votes)
    /\ request.requested_by \notin Voters(request)
    /\ \A v \in request.votes : v.role \in request.required_roles
    /\ request.required_count >= Minimum(request.risk)
    /\ request.status = "approved" => Cardinality(request.votes) >= request.required_count

ApprovalsOK ==
    /\ approvals \in [Approvals -> ApprovalRequest \cup {NoRequest}]
    /\ \A a \in Approvals : Exists(a) => RequestOK(approvals[a])

\* What no step takes back: a request stays, for its plan, and once approved it is final.
ApprovalsKept ==
    \A a \in Approvals : Exists(a) =>
        /\ Exists(a)' /\ approvals'[a].plan_id = approvals[a].plan_id
        /\ approvals[a].status = "approved" => approvals'[a] = approvals[a]

-----------------------------------------------------------------------------
\* Plans and handlers

\* Four puts at most take a plan from a draft to its decision.
VersionOK(plan) ==
    /\ plan.state = "draft" => plan.version + 3 <= 4 * plan.drafts
    /\ plan.state = "validated" => plan.version + 2 <= 4 * plan.drafts
    /\ plan.state = "pending_approval" => plan.version + 1 <= 4 * plan.drafts
    /\ plan.version <= 4 * plan.drafts
    /\ plan.state \in {"validated", "pending_approval"} => plan.ready

\* A handler past its read of the plan knows the decision, and an etag that still
\* matches is one of a pending plan.
DecisionOK(t) ==
    LET plan == plans[approvals[threads[t].approval].plan_id]
    IN threads[t].step \in {"promoting", "demoting"} =>
        /\ threads[t].version <= plan.version
        /\ threads[t].version = plan.version => plan.state = "pending_approval"
        /\ threads[t].step = "promoting" => approvals[threads[t].approval].status = "approved"

\* The inductive invariant.
IInv ==
    /\ TypeOK /\ ApprovalsOK
    /\ \A p \in Plans : VersionOK(plans[p])
    /\ \A t \in Threads : DecisionOK(t)
    /\ ApprovedPlanIsBacked

-----------------------------------------------------------------------------
\* Replacing one request by another that is in order, for the same plan, unless the
\* old one was approved.
LEMMA ApprovalsUpdate ==
    ASSUME ApprovalsOK, NEW a \in Approvals, NEW row \in ApprovalRequest, RequestOK(row),
           approvals' = [approvals EXCEPT ![a] = row],
           Exists(a) => approvals[a].status # "approved" /\ row.plan_id = approvals[a].plan_id
    PROVE  ApprovalsOK' /\ ApprovalsKept
<1>1. row # NoRequest
  BY NoRequestAssumption
<1>2. /\ approvals' \in [Approvals -> ApprovalRequest \cup {NoRequest}] /\ approvals'[a] = row
      /\ \A b \in Approvals \ {a} : approvals'[b] = approvals[b]
  BY DEF ApprovalsOK
<1>3. \A b \in Approvals : Exists(b)' => RequestOK(approvals'[b])
  BY <1>2 DEF ApprovalsOK, Exists
<1>4. ApprovalsOK'
  BY <1>2, <1>3 DEF ApprovalsOK
<1>5. ApprovalsKept
  BY <1>1, <1>2 DEF ApprovalsKept, Exists
<1> QED BY <1>4, <1>5

\* A new request has no vote and asks for enough of them.
LEMMA CreateApprovals ==
    ASSUME ApprovalsOK, NEW a \in Approvals, NEW p \in Plans, NEW risk \in Risks,
           NEW actor \in Actors, NEW e \in Nat, NEW roles \in SUBSET Roles, NEW n \in Nat,
           Create(a, p, risk, actor, e, roles, n)
    PROVE  ApprovalsOK' /\ ApprovalsKept
<1> DEFINE row == NewRequest(p, risk, actor, e, roles, n)
<1>1. row \in ApprovalRequest
  BY DEF NewRequest, ApprovalRequest, Statuses
<1>2. /\ row.votes = {} /\ row.risk = risk /\ row.required_count = n /\ row.status = "pending"
  BY DEF NewRequest
<1>3. Voters(row) = {}
  BY <1>2 DEF Voters
<1>4. RequestOK(row)
  BY <1>2, <1>3, FS_EmptySet DEF RequestOK, Create, Sufficient
<1>5. approvals' = [approvals EXCEPT ![a] = row] /\ ~Exists(a)
  BY DEF Create
<1> HIDE DEF row
<1> QED BY <1>1, <1>4, <1>5, ApprovalsUpdate, Zenon

\* The request with one more vote, of an actor that had not voted.
LEMMA VoteApprovals ==
    ASSUME ApprovalsOK, NEW a \in Approvals, NEW actor \in Actors, NEW role \in Roles,
           NEW now \in Nat, Approve(a, actor, role, now)
    PROVE  ApprovalsOK' /\ ApprovalsKept
<1> DEFINE old == approvals[a]
           vote == [actor |-> actor, role |-> role]
           votes == old.votes \cup {vote}
           status == IF Cardinality(votes) >= old.required_count THEN "approved" ELSE "pending"
           row == [old EXCEPT !.votes = votes, !.status = status]
<1>1. /\ old \in ApprovalRequest /\ RequestOK(old) /\ old.status = "pending"
      /\ actor # old.requested_by /\ role \in old.required_roles
      /\ \A v \in old.votes : v.actor # actor
  BY DEF Approve, MayVote, Voted, Exists, ApprovalsOK
<1>2. approvals' = [approvals EXCEPT ![a] = row]
  BY DEF Approve, WithVote
<1>3. votes \subseteq Votes /\ vote \notin old.votes
  BY <1>1 DEF ApprovalRequest, Votes
<1>4. status \in Statuses
  BY DEF Statuses
<1>5. status = "approved" => Cardinality(votes) >= old.required_count
  OBVIOUS
<1>6. /\ IsFiniteSet(votes) /\ Cardinality(votes) = Cardinality(old.votes) + 1
  BY <1>1, <1>3, FS_AddElement, Zenon DEF RequestOK
<1>7. /\ \A v \in votes : v.role \in old.required_roles
  BY <1>1 DEF RequestOK
<1>8. {v.actor : v \in votes} = Voters(old) \cup {actor}
  <2>1. vote.actor = actor
    OBVIOUS
  <2> HIDE DEF vote, old
  <2> QED BY <2>1 DEF Voters
<1>9. actor \notin Voters(old)
  BY <1>1 DEF Voters
<1> HIDE DEF votes, status
<1>10. /\ row \in ApprovalRequest
  BY <1>1, <1>3, <1>4, Zenon DEF ApprovalRequest
<1>11. /\ row.votes = votes /\ row.status = status /\ row.requested_by = old.requested_by
       /\ row.required_roles = old.required_roles /\ row.required_count = old.required_count
       /\ row.risk = old.risk /\ row.plan_id = old.plan_id
  BY <1>1 DEF ApprovalRequest
<1> HIDE DEF row, old
<1>12. Voters(row) = Voters(old) \cup {actor}
  BY <1>8, <1>11 DEF Voters
<1>13. /\ IsFiniteSet(Voters(row)) /\ Cardinality(Voters(row)) = Cardinality(Voters(old)) + 1
  BY <1>1, <1>9, <1>12, FS_AddElement DEF RequestOK
<1>14. RequestOK(row)
  BY <1>1, <1>5, <1>6, <1>7, <1>11, <1>12, <1>13 DEF RequestOK
<1>15. approvals[a].status # "approved" /\ row.plan_id = approvals[a].plan_id
  BY <1>1, <1>11 DEF old
<1> QED BY <1>2, <1>10, <1>14, <1>15, ApprovalsUpdate, Zenon

\* A request that expires or is rejected keeps its votes.
LEMMA CloseApprovals ==
    ASSUME ApprovalsOK, NEW a \in Approvals, NEW status \in {"expired", "rejected"},
           Exists(a), approvals[a].status # "approved",
           approvals' = [approvals EXCEPT ![a] = [@ EXCEPT !.status = status]]
    PROVE  ApprovalsOK' /\ ApprovalsKept
<1> DEFINE old == approvals[a]
           row == [old EXCEPT !.status = status]
<1>1. old \in ApprovalRequest /\ RequestOK(old)
  BY DEF ApprovalsOK, Exists
<1>2. row \in ApprovalRequest
  BY <1>1 DEF ApprovalRequest, Statuses
<1>3. /\ row.votes = old.votes /\ row.status = status /\ row.requested_by = old.requested_by
      /\ row.required_roles = old.required_roles /\ row.required_count = old.required_count
      /\ row.risk = old.risk /\ row.plan_id = old.plan_id
  BY <1>1 DEF ApprovalRequest
<1>4. approvals' = [approvals EXCEPT ![a] = row]
  OBVIOUS
<1> HIDE DEF row
<1>5. RequestOK(row)
  BY <1>1, <1>3 DEF RequestOK, Voters
<1> QED BY <1>2, <1>3, <1>4, <1>5, ApprovalsUpdate, Zenon

\* The requirements change only before the first vote.
LEMMA ModifyApprovals ==
    ASSUME ApprovalsOK, NEW a \in Approvals, NEW actor \in Actors, NEW e \in Nat,
           NEW roles \in SUBSET Roles, NEW n \in Nat, Modify(a, actor, e, roles, n)
    PROVE  ApprovalsOK' /\ ApprovalsKept
<1> DEFINE old == approvals[a]
           row == [old EXCEPT !.expires_at = e, !.required_roles = roles, !.required_count = n]
<1>1. /\ old \in ApprovalRequest /\ RequestOK(old) /\ old.status = "pending" /\ old.votes = {}
      /\ n >= Minimum(old.risk)
  BY DEF Modify, MayModify, Exists, ApprovalsOK, Sufficient
<1>2. row \in ApprovalRequest
  BY <1>1, Zenon DEF ApprovalRequest
<1>3. /\ row.votes = {} /\ row.status = "pending" /\ row.requested_by = old.requested_by
      /\ row.required_count = n /\ row.risk = old.risk /\ row.plan_id = old.plan_id
  BY <1>1 DEF ApprovalRequest
<1>4. approvals' = [approvals EXCEPT ![a] = row]
  BY DEF Modify
<1> HIDE DEF row
<1>5. RequestOK(row)
  BY <1>1, <1>3 DEF RequestOK, Voters
<1> QED BY <1>1, <1>2, <1>3, <1>4, <1>5, ApprovalsUpdate, Zenon

\* The five operations of the workflow, with any arguments the handlers pass.
ApprovalsMove ==
    \/ UNCHANGED approvals
    \/ \E a \in Approvals, p \in Plans, risk \in Risks, actor \in Actors, e \in Nat,
          roles \in SUBSET Roles, n \in Nat : Create(a, p, risk, actor, e, roles, n)
    \/ \E a \in Approvals, actor \in Actors, role \in Roles, now \in Nat : Approve(a, actor, role, now)
    \/ \E a \in Approvals, now \in Nat : Expire(a, now)
    \/ \E a \in Approvals : Reject(a)
    \/ \E a \in Approvals, actor \in Actors, e \in Nat, roles \in SUBSET Roles, n \in Nat :
          Modify(a, actor, e, roles, n)

\* Whatever the approval endpoints do, requests stay in order and grants are final.
LEMMA ApprovalsStep ==
    ASSUME ApprovalsOK, ApprovalsMove
    PROVE  ApprovalsOK' /\ ApprovalsKept
<1>1. CASE UNCHANGED approvals
  BY <1>1 DEF ApprovalsOK, ApprovalsKept, Exists
<1>2. ASSUME NEW a \in Approvals, NEW now \in Nat, Expire(a, now)
      PROVE  ApprovalsOK' /\ ApprovalsKept
  BY <1>1, <1>2, CloseApprovals, Zenon DEF Expire
<1>3. ASSUME NEW a \in Approvals, Reject(a)
      PROVE  ApprovalsOK' /\ ApprovalsKept
  BY <1>3, CloseApprovals, Zenon DEF Reject
<1> QED BY <1>1, <1>2, <1>3, CreateApprovals, VoteApprovals, ModifyApprovals DEF ApprovalsMove

-----------------------------------------------------------------------------
PlanRecords == [version : Nat, state : States, risk : Risks, ready : BOOLEAN,
                approval : Approvals \cup {NoRequest}, drafts : 0 .. MaxDrafts]

Deciding == {"voted", "rejected", "promoting", "demoting"}

\* A handler is where TypeOK and IInv want it.
ThreadOK(t) == (threads[t].step \in Deciding => Exists(threads[t].approval)) /\ DecisionOK(t)

\* No plan, no request, no handler.
LEMMA InitIInv == Init => IInv
<1> SUFFICES ASSUME Init PROVE IInv
  OBVIOUS
<1>1. \A a \in Approvals : ~Exists(a)
  BY DEF Init, ApprovalsInit, Exists
<1>2. \A t \in Threads : threads[t] = Idle /\ threads[t].step = "idle"
  BY DEF Init, Idle
<1>3. ASSUME NEW p \in Plans
      PROVE  /\ plans[p] \in PlanRecords
             /\ plans[p].version = 0 /\ plans[p].state = "absent" /\ plans[p].drafts = 0
  <2> DEFINE new(b) == [version |-> 0, state |-> "absent", risk |-> 0, ready |-> b,
                        approval |-> NoRequest, drafts |-> 0]
  <2>1. ASSUME NEW b \in BOOLEAN PROVE new(b) \in PlanRecords
    BY PlanGovernanceAssumption DEF PlanRecords, States, Risks
  <2>2. plans[p] = new(FALSE)
    BY DEF Init
  <2>3. new(FALSE) \in PlanRecords
    BY <2>1, Zenon
  <2> QED BY <2>2, <2>3
<1>4. plans \in [Plans -> PlanRecords]
  BY <1>3, Zenon DEF Init
<1>5. TypeOK
  BY <1>2, <1>3, <1>4, PlanGovernanceAssumption
     DEF Init, ApprovalsInit, TypeOK, PlanRecords, ThreadStates, Idle
<1>6. ApprovalsOK
  BY <1>1, <1>5 DEF ApprovalsOK, TypeOK
<1>7. \A p \in Plans : VersionOK(plans[p])
  BY <1>3 DEF VersionOK
<1>8. \A t \in Threads : DecisionOK(t)
  BY <1>2 DEF DecisionOK
<1>9. ApprovedPlanIsBacked
  BY <1>3 DEF ApprovedPlanIsBacked
<1> QED BY <1>5, <1>6, <1>7, <1>8, <1>9 DEF IInv

\* What the step of a handler says about its other fields.
LEMMA ThreadCases ==
    ASSUME TypeOK, NEW t \in Threads
    PROVE  /\ threads[t] = Idle => threads[t].step = "idle"
           /\ threads[t].step \in {"idle", "creating"} \cup Deciding
           /\ threads[t].step = "creating" =>
                threads[t].approval \in Approvals /\ threads[t].request \in ApprovalRequest
           /\ threads[t].step \in Deciding =>
                threads[t].approval \in Approvals /\ threads[t].version \in Nat
BY DEF TypeOK, ThreadStates, Idle, Deciding

\* The states handlers move to.
LEMMA StateTypes ==
    /\ Idle \in ThreadStates /\ Idle.step = "idle"
    /\ \A step \in Deciding, a \in Approvals, v \in Nat :
         /\ At(step, a, v) \in ThreadStates
         /\ At(step, a, v).step = step /\ At(step, a, v).approval = a /\ At(step, a, v).version = v
BY DEF Idle, At, ThreadStates, Deciding

\* A step that leaves the plans alone, moves approvals the way the workflow does, and
\* leaves or puts each handler where it belongs.
LEMMA SideStep ==
    ASSUME IInv, UNCHANGED plans, ApprovalsOK', ApprovalsKept, crashes' \in 0 .. MaxCrashes,
           threads' \in [Threads -> ThreadStates],
           \A t \in Threads : threads'[t] = threads[t] \/ ThreadOK(t)'
    PROVE  IInv'
<1> USE DEF IInv
<1>1. ASSUME NEW t \in Threads, threads'[t] = threads[t] PROVE ThreadOK(t)'
  <2>1. CASE threads[t].step \notin Deciding
    BY <1>1, <2>1 DEF ThreadOK, DecisionOK, Deciding
  <2>2. CASE threads[t].step \in Deciding
    <3>1. threads[t].approval \in Approvals /\ Exists(threads[t].approval)
      BY <2>2, ThreadCases DEF TypeOK, Deciding
    <3>2. /\ Exists(threads[t].approval)'
          /\ approvals'[threads[t].approval].plan_id = approvals[threads[t].approval].plan_id
          /\ approvals[threads[t].approval].status = "approved" =>
                approvals'[threads[t].approval].status = "approved"
      BY <1>1, <3>1 DEF ApprovalsKept, Exists
    <3>3. DecisionOK(t)'
      BY <1>1, <3>2 DEF DecisionOK
    <3> QED BY <3>2, <3>3 DEF ThreadOK
  <2> QED BY <2>1, <2>2
<1>2. \A t \in Threads : ThreadOK(t)'
  BY <1>1
<1>3. TypeOK'
  BY <1>2 DEF TypeOK, ApprovalsOK, ThreadOK, Deciding
<1>4. ApprovedPlanIsBacked'
  <2> SUFFICES ASSUME NEW p \in Plans, plans'[p].state = "approved", plans'[p].risk >= 2
               PROVE  \E a \in Approvals : /\ Exists(a)' /\ approvals'[a].plan_id = p
                                            /\ approvals'[a].status = "approved"
    BY DEF ApprovedPlanIsBacked
  <2>1. PICK a \in Approvals : Exists(a) /\ approvals[a].plan_id = p /\ approvals[a].status = "approved"
    BY DEF ApprovedPlanIsBacked
  <2> QED BY <2>1 DEF ApprovalsKept
<1> QED BY <1>2, <1>3, <1>4 DEF ThreadOK

\* A put of a plan under its current etag: a handler that holds an older etag is past it
\* for good.
LEMMA PutStep ==
    ASSUME IInv, NEW p \in Plans, NEW new \in PlanRecords,
           plans' = [plans EXCEPT ![p] = new],
           new.version = plans[p].version + 1, VersionOK(new),
           new.state = "pending_approval" => new.approval = <<p, new.version>>,
           new.state = "approved" /\ new.risk >= 2 =>
             \E a \in Approvals : /\ Exists(a) /\ approvals[a].plan_id = p
                                  /\ approvals[a].status = "approved",
           UNCHANGED <<approvals, crashes>>,
           threads' \in [Threads -> ThreadStates],
           \A t \in Threads : threads'[t] = threads[t] \/ threads'[t].step \notin Deciding
    PROVE  IInv'
<1> USE DEF IInv
<1>1. /\ plans' \in [Plans -> PlanRecords] /\ plans'[p] = new
      /\ \A q \in Plans \ {p} : plans'[q] = plans[q]
  BY DEF TypeOK, PlanRecords
<1>2. ASSUME NEW t \in Threads PROVE ThreadOK(t)'
  <2>1. CASE threads'[t].step \notin Deciding
    BY <2>1 DEF ThreadOK, DecisionOK, Deciding
  <2>2. CASE threads[t].step \in Deciding /\ threads'[t] = threads[t]
    <3>1. /\ threads[t].approval \in Approvals /\ Exists(threads[t].approval)
          /\ threads[t].version \in Nat
      BY <2>2, ThreadCases DEF TypeOK, Deciding
    <3>2. approvals[threads[t].approval] \in ApprovalRequest
      BY <3>1 DEF ApprovalsOK, Exists
    <3>3. PICK q \in Plans : q = approvals[threads[t].approval].plan_id
      BY <3>2 DEF ApprovalRequest
    <3>4. plans[q].version \in Nat /\ plans'[q].version \in Nat
      BY <1>1 DEF TypeOK, PlanRecords
    <3>5. DecisionOK(t)
      OBVIOUS
    <3>6. DecisionOK(t)'
      <4>1. CASE q = p
        BY <1>1, <2>2, <3>1, <3>3, <3>4, <3>5, <4>1 DEF DecisionOK
      <4>2. CASE q # p
        BY <1>1, <2>2, <3>3, <3>5, <4>2 DEF DecisionOK
      <4> QED BY <4>1, <4>2
    <3> QED BY <2>2, <3>1, <3>6 DEF ThreadOK, Exists
  <2> QED BY <2>1, <2>2
<1>3. TypeOK'
  <2>1. plans' \in [Plans -> [version : Nat, state : States, risk : Risks, ready : BOOLEAN,
                              approval : Approvals \cup {NoRequest}, drafts : 0 .. MaxDrafts]]
    BY <1>1 DEF PlanRecords
  <2>2. \A q \in Plans : plans'[q].state = "pending_approval" =>
                            plans'[q].approval = <<q, plans'[q].version>>
    BY <1>1 DEF TypeOK
  <2> QED BY <1>2, <2>1, <2>2 DEF TypeOK, ThreadOK, Deciding
<1>4. ApprovalsOK' /\ \A q \in Plans : VersionOK(plans'[q])
  BY <1>1 DEF ApprovalsOK, Exists
<1>5. ApprovedPlanIsBacked'
  BY <1>1 DEF ApprovedPlanIsBacked, Exists
<1> QED BY <1>2, <1>3, <1>4, <1>5 DEF ThreadOK

\* The plan a handler puts back with another state.
LEMMA PutFields ==
    ASSUME IInv, NEW p \in Plans, NEW state \in States, NEW a \in Approvals \cup {NoRequest},
           PutState(p, state, a)
    PROVE  \E new \in PlanRecords :
             /\ plans' = [plans EXCEPT ![p] = new]
             /\ new.version = plans[p].version + 1 /\ new.state = state /\ new.approval = a
             /\ new.risk = plans[p].risk /\ new.ready = plans[p].ready /\ new.drafts = plans[p].drafts
<1> DEFINE old == plans[p]
           v == old.version + 1
           new == [old EXCEPT !.version = v, !.state = state, !.approval = a]
<1>1. old \in PlanRecords
  BY DEF IInv, TypeOK, PlanRecords
<1>2. plans' = [plans EXCEPT ![p] = new]
  BY DEF PutState
<1>3. new \in PlanRecords
  <2>1. v \in Nat
    BY <1>1 DEF PlanRecords
  <2> HIDE DEF v, old
  <2> QED BY <1>1, <2>1, Zenon DEF PlanRecords
<1>4. /\ new.version = old.version + 1 /\ new.state = state /\ new.approval = a
      /\ new.risk = old.risk /\ new.ready = old.ready /\ new.drafts = old.drafts
  BY <1>1 DEF PlanRecords
<1> QED BY <1>2, <1>3, <1>4, Zenon

\* The types of a plan.
LEMMA PlanTypes ==
    ASSUME IInv, NEW p \in Plans
    PROVE  /\ plans[p] \in PlanRecords /\ plans[p].version \in Nat /\ plans[p].drafts \in 0 .. MaxDrafts
           /\ plans[p].drafts \in Nat /\ VersionOK(plans[p]) /\ MaxDrafts \in Nat
BY PlanGovernanceAssumption DEF IInv, TypeOK, PlanRecords

\* POST /v1/plans.
LEMMA CreatePlanStep ==
    ASSUME IInv, NEW p \in Plans, NEW risk \in PlanRisks, NEW ready \in BOOLEAN,
           CreatePlan(p, risk, ready)
    PROVE  IInv'
<1>0. /\ plans[p].version \in Nat /\ plans[p].drafts \in Nat /\ plans[p].drafts < MaxDrafts
      /\ VersionOK(plans[p]) /\ MaxDrafts \in Nat
  BY PlanTypes DEF CreatePlan
<1>1. PICK v, d : v = plans[p].version /\ d = plans[p].drafts
  OBVIOUS
<1>2. PICK new : new = [version |-> v + 1, state |-> "draft", risk |-> risk, ready |-> ready,
                        approval |-> NoRequest, drafts |-> d + 1]
  BY Zenon
<1>3. new \in PlanRecords
  <2>1. v + 1 \in Nat /\ d + 1 \in 0 .. MaxDrafts /\ risk \in Risks
    BY <1>0, <1>1, PlanGovernanceAssumption
  <2> QED BY <1>2, <2>1 DEF PlanRecords, States
<1>4. new.version = v + 1 /\ new.state = "draft" /\ new.drafts = d + 1
  BY <1>2
<1>5. VersionOK(new)
  BY <1>0, <1>1, <1>4 DEF VersionOK
<1>6. plans' = [plans EXCEPT ![p] = new] /\ UNCHANGED <<approvals, threads, crashes>>
  BY <1>1, <1>2 DEF CreatePlan
<1>7. threads' \in [Threads -> ThreadStates]
  BY <1>6 DEF IInv, TypeOK
<1> QED BY <1>1, <1>3, <1>4, <1>5, <1>6, <1>7, PutStep, Zenon

\* POST /v1/plans/{id}/validate.
LEMMA ValidatePlanStep ==
    ASSUME IInv, NEW p \in Plans, ValidatePlan(p)
    PROVE  IInv'
<1>0. /\ plans[p].version \in Nat /\ plans[p].drafts \in Nat /\ VersionOK(plans[p])
      /\ plans[p].state = "draft" /\ plans[p].ready
      /\ plans[p].approval \in Approvals \cup {NoRequest}
  BY PlanTypes DEF ValidatePlan, Valid, PlanRecords
<1>1. PICK new \in PlanRecords :
        /\ plans' = [plans EXCEPT ![p] = new]
        /\ new.version = plans[p].version + 1 /\ new.state = "validated"
        /\ new.ready = plans[p].ready /\ new.drafts = plans[p].drafts
  <2>1. PICK a \in Approvals \cup {NoRequest} : a = plans[p].approval
    BY <1>0
  <2>2. PutState(p, "validated", a)
    BY <2>1 DEF ValidatePlan
  <2>3. "validated" \in States
    BY DEF States
  <2> QED BY <2>2, <2>3, PutFields
<1>2. VersionOK(new)
  BY <1>0, <1>1 DEF VersionOK
<1>3. UNCHANGED <<approvals, threads, crashes>> /\ threads' \in [Threads -> ThreadStates]
  BY DEF ValidatePlan, IInv, TypeOK
<1> QED BY <1>1, <1>2, <1>3, PutStep, Zenon

\* POST /v1/plans/{id}/submit-approval, the put: the id it makes up is within the bound.
LEMMA SubmitPutStep ==
    ASSUME IInv, NEW t \in Threads, NEW p \in Plans, NEW actor \in Actors, NEW e \in Expiries,
           NEW roles \in SUBSET Roles, NEW n \in Counts, SubmitPut(t, p, actor, e, roles, n)
    PROVE  IInv'
<1>0. /\ plans[p].version \in Nat /\ plans[p].drafts \in 0 .. MaxDrafts /\ MaxDrafts \in Nat
      /\ VersionOK(plans[p]) /\ plans[p].state = "validated" /\ plans[p].risk \in Risks
      /\ plans[p] \in PlanRecords
  BY PlanTypes DEF SubmitPut, Submittable, PlanRecords
<1>1. PICK id : id = ApprovalId(p)
  OBVIOUS
<1>2. id = <<p, plans[p].version + 1>> /\ id \in Approvals
  <2>1. plans[p].version + 1 \in 0 .. 4 * MaxDrafts
    BY <1>0 DEF VersionOK
  <2> QED BY <1>1, <2>1, PlanGovernanceAssumption DEF ApprovalId
<1>3. PICK request : request = NewRequest(p, plans[p].risk, actor, e, roles, n)
  OBVIOUS
<1>4. request \in ApprovalRequest
  BY <1>0, <1>3, PlanGovernanceAssumption DEF NewRequest, ApprovalRequest, Statuses
<1>5. PICK state : state = IF plans[p].risk >= 2
                           THEN [step |-> "creating", approval |-> id, request |-> request]
                           ELSE Idle
  BY Zenon
<1>6. state \in ThreadStates /\ state.step \notin Deciding
  BY <1>2, <1>4, <1>5 DEF ThreadStates, Deciding, Idle
<1>7. /\ threads' = [threads EXCEPT ![t] = state]
      /\ UNCHANGED <<approvals, crashes>>
  BY <1>1, <1>3, <1>5 DEF SubmitPut
<1>8. /\ threads' \in [Threads -> ThreadStates]
      /\ \A u \in Threads : threads'[u] = threads[u] \/ threads'[u].step \notin Deciding
  BY <1>6, <1>7 DEF IInv, TypeOK
<1>9. PICK new \in PlanRecords :
        /\ plans' = [plans EXCEPT ![p] = new]
        /\ new.version = plans[p].version + 1
        /\ new.ready = plans[p].ready /\ new.drafts = plans[p].drafts /\ new.risk = plans[p].risk
        /\ \/ plans[p].risk >= 2 /\ new.state = "pending_approval" /\ new.approval = id
           \/ ~(plans[p].risk >= 2) /\ new.state = "approved"
  <2>1. CASE plans[p].risk >= 2
    <3>1. PutState(p, "pending_approval", id)
      BY <1>1, <2>1 DEF SubmitPut
    <3>2. "pending_approval" \in States
      BY DEF States
    <3> QED BY <1>2, <2>1, <3>1, <3>2, PutFields
  <2>2. CASE ~(plans[p].risk >= 2)
    <3>1. PutState(p, "approved", NoRequest)
      BY <2>2 DEF SubmitPut
    <3>2. "approved" \in States
      BY DEF States
    <3> QED BY <2>2, <3>1, <3>2, PutFields
  <2> QED BY <2>1, <2>2
<1>10. VersionOK(new)
  BY <1>0, <1>9 DEF VersionOK
<1>11. new.state = "pending_approval" => new.approval = <<p, new.version>>
  BY <1>2, <1>9
<1>12. ~(new.state = "approved" /\ new.risk >= 2)
  BY <1>9
<1> QED BY <1>7, <1>8, <1>9, <1>10, <1>11, <1>12, PutStep, Zenon

\* ... and the creation of the request, which may be refused.
LEMMA SubmitCreateStep ==
    ASSUME IInv, NEW t \in Threads, SubmitCreate(t)
    PROVE  IInv'
<1>1. PICK r, a : r = threads[t].request /\ a = threads[t].approval
  OBVIOUS
<1>2. r \in ApprovalRequest /\ a \in Approvals
  BY <1>1, ThreadCases DEF SubmitCreate, IInv
<1>3. /\ r.plan_id \in Plans /\ r.risk \in Risks /\ r.requested_by \in Actors /\ r.expires_at \in Nat
      /\ r.required_roles \in SUBSET Roles /\ r.required_count \in Nat
  BY <1>2 DEF ApprovalRequest
<1>4. \/ Create(a, r.plan_id, r.risk, r.requested_by, r.expires_at, r.required_roles,
               r.required_count)
      \/ UNCHANGED approvals
  BY <1>1 DEF SubmitCreate
<1>5. ApprovalsMove
  BY <1>2, <1>3, <1>4 DEF ApprovalsMove
<1>6. ApprovalsOK' /\ ApprovalsKept
  BY <1>5, ApprovalsStep DEF IInv
<1>7. /\ threads' \in [Threads -> ThreadStates] /\ threads'[t] = Idle
      /\ \A u \in Threads \ {t} : threads'[u] = threads[u]
      /\ UNCHANGED <<plans, crashes>>
  BY StateTypes DEF SubmitCreate, IInv, TypeOK
<1>8. ThreadOK(t)'
  BY <1>7, StateTypes DEF ThreadOK, DecisionOK, Deciding
<1>9. crashes' \in 0 .. MaxCrashes
  BY <1>7 DEF IInv, TypeOK
<1> QED BY <1>6, <1>7, <1>8, <1>9, SideStep

\* A vote or a rejection leaves the handler with a request that exists.
LEMMA DecideStep ==
    ASSUME IInv, NEW t \in Threads, NEW a \in Approvals, NEW step \in {"voted", "rejected"},
           ApprovalsMove, Exists(a), threads' = [threads EXCEPT ![t] = At(step, a, 0)],
           UNCHANGED <<plans, crashes>>
    PROVE  IInv'
<1>1. ApprovalsOK' /\ ApprovalsKept
  BY ApprovalsStep DEF IInv
<1>2. /\ At(step, a, 0) \in ThreadStates
      /\ At(step, a, 0).step = step /\ At(step, a, 0).approval = a
  BY StateTypes DEF Deciding
<1>3. /\ threads' \in [Threads -> ThreadStates] /\ threads'[t] = At(step, a, 0)
      /\ \A u \in Threads \ {t} : threads'[u] = threads[u]
  BY <1>2 DEF IInv, TypeOK
<1>4. ThreadOK(t)'
  BY <1>1, <1>2, <1>3 DEF ThreadOK, DecisionOK, ApprovalsKept
<1>5. crashes' \in 0 .. MaxCrashes
  BY DEF IInv, TypeOK
<1> QED BY <1>1, <1>3, <1>4, <1>5, SideStep

\* The read of the plan: what it finds pending is promoted only when the request was
\* approved.
LEMMA ReadPlanStep ==
    ASSUME IInv, NEW t \in Threads, ReadPlan(t)
    PROVE  IInv'
<1>1. PICK a, step : a = threads[t].approval /\ step = threads[t].step
  OBVIOUS
<1>2. /\ step \in {"voted", "rejected"} /\ a \in Approvals /\ Exists(a)
  BY <1>1, ThreadCases DEF ReadPlan, IInv, TypeOK, Deciding
<1>3. PICK p \in Plans : p = approvals[a].plan_id
  BY <1>2 DEF IInv, TypeOK, Exists, ApprovalRequest
<1>4. PICK v \in Nat : v = plans[p].version
  BY PlanTypes
<1>5. PICK put : put = IF step = "voted" THEN "promoting" ELSE "demoting"
  OBVIOUS
<1>6. PICK state : state = IF Decided(t) /\ plans[p].state = "pending_approval" THEN At(put, a, v) ELSE Idle
  OBVIOUS
<1>7. threads' = [threads EXCEPT ![t] = state] /\ UNCHANGED <<approvals, plans, crashes>>
  BY <1>1, <1>3, <1>4, <1>5, <1>6 DEF ReadPlan
<1>8. state \in ThreadStates
  BY <1>2, <1>5, <1>6, StateTypes DEF Deciding
<1>9. /\ threads' \in [Threads -> ThreadStates] /\ threads'[t] = state
      /\ \A u \in Threads \ {t} : threads'[u] = threads[u]
  BY <1>7, <1>8 DEF IInv, TypeOK
<1>10. ThreadOK(t)'
  <2>1. CASE state = Idle
    BY <1>9, <2>1, StateTypes DEF ThreadOK, DecisionOK, Deciding
  <2>2. CASE Decided(t) /\ plans[p].state = "pending_approval"
    <3>1. /\ threads'[t].step = put /\ threads'[t].approval = a /\ threads'[t].version = v
          /\ put \in {"promoting", "demoting"}
      BY <1>2, <1>5, <1>6, <1>9, <2>2, StateTypes DEF Deciding
    <3>2. put = "promoting" => approvals[a].status = "approved"
      BY <1>1, <1>5, <2>2 DEF Decided
    <3> QED BY <1>2, <1>3, <1>4, <1>7, <2>2, <3>1, <3>2 DEF ThreadOK, DecisionOK, Exists
  <2> QED BY <1>6, <2>1, <2>2
<1>11. ApprovalsOK' /\ ApprovalsKept /\ crashes' \in 0 .. MaxCrashes
  BY <1>7, ApprovalsStep DEF ApprovalsMove, IInv, TypeOK
<1> QED BY <1>7, <1>9, <1>10, <1>11, SideStep

\* The put of the decision: the etag matches a pending plan, or nothing is written.
LEMMA PutDecisionStep ==
    ASSUME IInv, NEW t \in Threads, PutDecision(t)
    PROVE  IInv'
<1>1. PICK a, step : a = threads[t].approval /\ step = threads[t].step
  OBVIOUS
<1>2. /\ step \in {"promoting", "demoting"} /\ a \in Approvals /\ Exists(a)
  BY <1>1, ThreadCases DEF PutDecision, IInv, TypeOK, Deciding
<1>3. PICK p \in Plans : p = approvals[a].plan_id
  BY <1>2 DEF IInv, TypeOK, Exists, ApprovalRequest
<1>4. /\ threads' \in [Threads -> ThreadStates] /\ threads'[t] = Idle
      /\ \A u \in Threads \ {t} : threads'[u] = threads[u]
      /\ UNCHANGED <<approvals, crashes>>
  BY StateTypes DEF PutDecision, IInv, TypeOK
<1>5. CASE ~EtagMatches(t)
  <2>1. UNCHANGED plans
    BY <1>5 DEF PutDecision
  <2>2. ThreadOK(t)'
    BY <1>4, StateTypes DEF ThreadOK, DecisionOK, Deciding
  <2>3. ApprovalsOK' /\ ApprovalsKept /\ crashes' \in 0 .. MaxCrashes
    BY <1>4, ApprovalsStep DEF ApprovalsMove, IInv, TypeOK
  <2> QED BY <1>4, <2>1, <2>2, <2>3, SideStep
<1>6. CASE EtagMatches(t)
  <2>1. /\ plans[p].state = "pending_approval"
        /\ step = "promoting" => approvals[a].status = "approved"
    BY <1>1, <1>2, <1>3, <1>6 DEF EtagMatches, IInv, DecisionOK
  <2>2. PICK state : state = IF step = "promoting" THEN "approved" ELSE "rejected"
    OBVIOUS
  <2>3. PutState(p, state, plans[p].approval)
    BY <1>1, <1>3, <1>6, <2>2 DEF PutDecision
  <2>4. state \in States /\ plans[p].approval \in Approvals \cup {NoRequest}
    BY <2>2, PlanTypes DEF States, PlanRecords
  <2>5. PICK new \in PlanRecords :
          /\ plans' = [plans EXCEPT ![p] = new]
          /\ new.version = plans[p].version + 1 /\ new.state = state
          /\ new.drafts = plans[p].drafts
    BY <2>3, <2>4, PutFields
  <2>6. VersionOK(new)
    BY <2>1, <2>2, <2>5, PlanTypes DEF VersionOK
  <2>7. /\ new.state # "pending_approval"
        /\ new.state = "approved" => /\ Exists(a) /\ approvals[a].plan_id = p
                                     /\ approvals[a].status = "approved"
    BY <1>2, <1>3, <2>1, <2>2, <2>5
  <2>8. \A u \in Threads : threads'[u] = threads[u] \/ threads'[u].step \notin Deciding
    BY <1>4, StateTypes DEF Deciding
  <2> QED BY <1>2, <1>4, <2>5, <2>6, <2>7, <2>8, PutStep, Zenon
<1> QED BY <1>5, <1>6

\* Every step of the API, a stuttering one included.
LEMMA NextIInv == IInv /\ [Next]_pvars => IInv'
<1> SUFFICES ASSUME IInv, [Next]_pvars PROVE IInv'
  OBVIOUS
<1> USE PlanGovernanceAssumption
<1>1. ASSUME UNCHANGED <<plans, threads, crashes>>, ApprovalsMove PROVE IInv'
  <2>1. ApprovalsOK' /\ ApprovalsKept
    BY <1>1, ApprovalsStep DEF IInv
  <2>2. crashes' \in 0 .. MaxCrashes /\ threads' \in [Threads -> ThreadStates]
    BY <1>1 DEF IInv, TypeOK
  <2> QED BY <1>1, <2>1, <2>2, SideStep
<1>2. CASE UNCHANGED pvars
  BY <1>1, <1>2 DEF pvars, ApprovalsMove
<1>3. ASSUME NEW a \in Approvals, NEW p \in Plans, NEW risk \in PlanRisks, NEW actor \in Actors,
             NEW e \in Expiries, NEW roles \in SUBSET Roles, NEW n \in Counts,
             CreateApproval(a, p, risk, actor, e, roles, n)
      PROVE  IInv'
  BY <1>1, <1>3 DEF CreateApproval, ApprovalsMove
<1>4. ASSUME NEW a \in Approvals, NEW actor \in Actors, NEW e \in Expiries,
             NEW roles \in SUBSET Roles, NEW n \in Counts, ModifyApproval(a, actor, e, roles, n)
      PROVE  IInv'
  BY <1>1, <1>4 DEF ModifyApproval, ApprovalsMove
<1>5. ASSUME NEW a \in Approvals, NEW now \in Times, VoteExpired(a, now) PROVE IInv'
  BY <1>1, <1>5 DEF VoteExpired, ApprovalsMove
<1>6. ASSUME NEW t \in Threads, NEW a \in Approvals, NEW actor \in Actors, NEW role \in Roles,
             NEW now \in Times, Vote(t, a, actor, role, now)
      PROVE  IInv'
  <2>1. ApprovalsMove
    BY <1>6 DEF Vote, ApprovalsMove
  <2>2. Exists(a)
    BY <1>6 DEF Vote, Approve, MayVote
  <2> QED BY <1>6, <2>1, <2>2, DecideStep, Zenon DEF Vote
<1>7. ASSUME NEW t \in Threads, NEW a \in Approvals, RejectRequest(t, a) PROVE IInv'
  <2>1. ApprovalsMove
    BY <1>7 DEF RejectRequest, ApprovalsMove
  <2>2. Exists(a)
    BY <1>7 DEF RejectRequest, Reject
  <2> QED BY <1>7, <2>1, <2>2, DecideStep, Zenon DEF RejectRequest
<1>8. ASSUME NEW t \in Threads, Crash(t) PROVE IInv'
  <2>1. /\ threads' \in [Threads -> ThreadStates] /\ threads'[t] = Idle
        /\ \A u \in Threads \ {t} : threads'[u] = threads[u]
        /\ UNCHANGED <<approvals, plans>> /\ crashes' \in 0 .. MaxCrashes
    BY <1>8, StateTypes DEF Crash, IInv, TypeOK
  <2>2. ThreadOK(t)'
    BY <2>1, StateTypes DEF ThreadOK, DecisionOK, Deciding
  <2>3. ApprovalsOK' /\ ApprovalsKept
    BY <2>1, ApprovalsStep DEF ApprovalsMove, IInv
  <2> QED BY <2>1, <2>2, <2>3, SideStep
<1>9. ASSUME NEW t \in Threads, Handle(t) PROVE IInv'
  BY <1>9, SubmitCreateStep, ReadPlanStep, PutDecisionStep DEF Handle
<1> QED BY <1>2, <1>3, <1>4, <1>5, <1>6, <1>7, <1>8, <1>9, CreatePlanStep, ValidatePlanStep,
           SubmitPutStep DEF Next

\* IInv holds in every reachable state.
THEOREM Invariance == Spec => []IInv
BY InitIInv, NextIInv, PTL DEF Spec

-----------------------------------------------------------------------------
\* Types, the approval a pending plan names, and the request a decision is about.
THEOREM TypeCorrect == Spec => []TypeOK
<1>1. IInv => TypeOK
  BY DEF IInv
<1> QED BY <1>1, Invariance, PTL

\* A plan of risk L2 or above is never approved ahead of its approvals.
THEOREM ApprovedBacked == Spec => []ApprovedPlanIsBacked
<1>1. IInv => ApprovedPlanIsBacked
  BY DEF IInv
<1> QED BY <1>1, Invariance, PTL

\* An approved request has enough voters for its risk, distinct, in the required roles
\* and without its requester.
THEOREM RolesSeparated == Spec => []RoleSeparation
<1>1. IInv => RoleSeparation
  <2> SUFFICES ASSUME IInv, NEW a \in Approvals, Exists(a), approvals[a].status = "approved"
               PROVE  /\ Cardinality(Voters(approvals[a])) >= approvals[a].required_count
                      /\ Cardinality(Voters(approvals[a])) >= Minimum(approvals[a].risk)
                      /\ approvals[a].requested_by \notin Voters(approvals[a])
                      /\ \A v \in approvals[a].votes : v.role \in approvals[a].required_roles
    BY DEF RoleSeparation, Voters
  <2>1. RequestOK(approvals[a]) /\ approvals[a] \in ApprovalRequest
    BY DEF IInv, ApprovalsOK, Exists
  <2>2. Cardinality(Voters(approvals[a])) \in Nat
    BY <2>1, FS_CardinalityType DEF RequestOK
  <2>3. Minimum(approvals[a].risk) \in Nat /\ approvals[a].required_count \in Nat
    BY <2>1 DEF Minimum, ApprovalRequest
  <2> QED BY <2>1, <2>2, <2>3 DEF RequestOK
<1> QED BY <1>1, Invariance, PTL

\* Plans move along TRANSITIONS or start over, and leave draft only when they are valid.
THEOREM LegalMoves == Spec => PlanMovesAreLegal
<1> DEFINE A == \A p \in Plans :
                  plans'[p].version # plans[p].version =>
                     \/ plans'[p].state = "draft"
                     \/ /\ <<plans[p].state, plans'[p].state>> \in TRANSITIONS
                        /\ plans'[p].ready
<1>1. ASSUME IInv, NEW p \in Plans, NEW state \in States, NEW a \in Approvals \cup {NoRequest},
             PutState(p, state, a), <<plans[p].state, state>> \in TRANSITIONS, plans[p].ready
      PROVE  A
  <2>1. PICK new \in PlanRecords :
          plans' = [plans EXCEPT ![p] = new] /\ new.state = state /\ new.ready = plans[p].ready
    BY <1>1, PutFields, Zenon
  <2> QED BY <1>1, <2>1, Zenon DEF IInv, TypeOK
<1>2. IInv /\ [Next]_pvars => [A]_pvars
  <2> SUFFICES ASSUME IInv, Next PROVE A
    OBVIOUS
  <2>1. CASE UNCHANGED plans
    BY <2>1
  <2>2. ASSUME NEW p \in Plans, NEW risk \in PlanRisks, NEW ready \in BOOLEAN,
               CreatePlan(p, risk, ready)
        PROVE  A
    BY <2>2 DEF CreatePlan, IInv, TypeOK
  <2>3. ASSUME NEW p \in Plans, ValidatePlan(p) PROVE A
    <3>1. PICK a \in Approvals \cup {NoRequest} : a = plans[p].approval
      BY PlanTypes DEF PlanRecords
    <3>2. /\ PutState(p, "validated", a) /\ "validated" \in States
          /\ <<plans[p].state, "validated">> \in TRANSITIONS /\ plans[p].ready
      BY <2>3, <3>1 DEF ValidatePlan, Valid, States, TRANSITIONS
    <3> QED BY <1>1, <3>2
  <2>4. ASSUME NEW t \in Threads, NEW p \in Plans, NEW actor \in Actors, NEW e \in Expiries,
               NEW roles \in SUBSET Roles, NEW n \in Counts, SubmitPut(t, p, actor, e, roles, n)
        PROVE  A
    <3>1. /\ plans[p].state = "validated" /\ plans[p].ready /\ plans[p].version \in Nat
          /\ plans[p].drafts \in 0 .. MaxDrafts /\ VersionOK(plans[p]) /\ MaxDrafts \in Nat
      BY <2>4, PlanTypes DEF SubmitPut, Submittable, VersionOK
    <3>2. ApprovalId(p) \in Approvals
      <4>1. plans[p].version + 1 \in 0 .. 4 * MaxDrafts
        BY <3>1 DEF VersionOK
      <4> QED BY <4>1, PlanGovernanceAssumption DEF ApprovalId
    <3>3. PICK state, a : /\ state = IF plans[p].risk >= 2 THEN "pending_approval" ELSE "approved"
                          /\ a = IF plans[p].risk >= 2 THEN ApprovalId(p) ELSE NoRequest
      OBVIOUS
    <3>4. PutState(p, state, a)
      BY <2>4, <3>3 DEF SubmitPut
    <3>5. /\ state \in States /\ a \in Approvals \cup {NoRequest}
          /\ <<plans[p].state, state>> \in TRANSITIONS
      BY <3>1, <3>2, <3>3 DEF States, TRANSITIONS
    <3> QED BY <1>1, <3>1, <3>4, <3>5
  <2>5. ASSUME NEW t \in Threads, PutDecision(t), EtagMatches(t) PROVE A
    <3>1. PICK a, step : a = threads[t].approval /\ step = threads[t].step
      OBVIOUS
    <3>2. step \in {"promoting", "demoting"} /\ a \in Approvals /\ Exists(a)
      BY <2>5, <3>1, ThreadCases DEF PutDecision, IInv, TypeOK, Deciding
    <3>3. PICK p \in Plans : p = approvals[a].plan_id
      BY <3>2 DEF IInv, TypeOK, Exists, ApprovalRequest
    <3>4. plans[p].state = "pending_approval"
      BY <2>5, <3>1, <3>2, <3>3 DEF EtagMatches, IInv, DecisionOK
    <3>5. plans[p].ready /\ plans[p].approval \in Approvals \cup {NoRequest}
      BY <3>4, PlanTypes DEF VersionOK, PlanRecords
    <3>6. PICK state, b : /\ state = IF step = "promoting" THEN "approved" ELSE "rejected"
                          /\ b = plans[p].approval
      OBVIOUS
    <3>7. PutState(p, state, b)
      BY <2>5, <3>1, <3>3, <3>6 DEF PutDecision
    <3>8. state \in States /\ <<plans[p].state, state>> \in TRANSITIONS
      BY <3>4, <3>6 DEF States, TRANSITIONS
    <3> QED BY <1>1, <3>5, <3>6, <3>7, <3>8
  <2>6. ASSUME NEW t \in Threads, Handle(t) \/ Crash(t) PROVE A
    BY <2>1, <2>5, <2>6, Zenon DEF Handle, Crash, SubmitCreate, ReadPlan, PutDecision
  <2>7. ASSUME NEW t \in Threads, NEW a \in Approvals, NEW actor \in Actors, NEW role \in Roles,
               NEW now \in Times, Vote(t, a, actor, role, now)
        PROVE  A
    BY <2>1, <2>7 DEF Vote
  <2>8. CASE \E t \in Threads, a \in Approvals : RejectRequest(t, a)
    BY <2>1, <2>8 DEF RejectRequest
  <2>9. CASE \E a \in Approvals, now \in Times : VoteExpired(a, now)
    BY <2>1, <2>9 DEF VoteExpired
  <2>10. CASE \E a \in Approvals, actor \in Actors, e \in Expiries, roles \in SUBSET Roles,
                 n \in Counts : ModifyApproval(a, actor, e, roles, n)
    BY <2>1, <2>10 DEF ModifyApproval
  <2>11. CASE \E a \in Approvals, p \in Plans, risk \in PlanRisks, actor \in Actors,
                 e \in Expiries, roles \in SUBSET Roles, n \in Counts :
                   a[2] = 0 /\ CreateApproval(a, p, risk, actor, e, roles, n)
    BY <2>1, <2>11 DEF CreateApproval
  <2> QED BY <2>2, <2>3, <2>4, <2>6, <2>7, <2>8, <2>9, <2>10, <2>11, Zenon DEF Next
<1> QED BY <1>2, Invariance, PTL DEF Spec, PlanMovesAreLegal
=============================================================================
