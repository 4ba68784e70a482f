--------------------------- MODULE PlanGovernance ---------------------------
(***************************************************************************)
(* The life of a governed plan as the API handlers of apps/api/main.py      *)
(* drive it: the plan is a versioned resource of the store, its approval a  *)
(* row of ApprovalWorkflow, and the two are written by separate             *)
(* transactions of one handler, so other handlers and crashes come between. *)
(*                                                                         *)
(* The etag of a plan is its version: it digests the version with the body. *)
(* A plan body is abstracted to its state, its risk, whether it passes      *)
(* validation (no hard violations, exact policy versions) and approval_id.  *)
(* The id "approval-<plan>-<version>" is the pair <<plan, version>>; the    *)
(* pair <<plan, 0>> is an id chosen by a caller of POST /v1/approvals, who  *)
(* is assumed not to choose an id of the generated form.                    *)
(***************************************************************************)
EXTENDS ApprovalWorkflow

CONSTANTS
    Threads,    \* handlers in progress
    PlanRisks,  \* risks of the plans and approvals callers submit
    Counts,     \* values of required_count callers ask for
    Expiries,   \* values of expires_at
    Times,      \* values of now in a vote
    MaxDrafts,  \* bound: times a plan is (re)submitted as a draft
    MaxCrashes  \* bound: handlers that die half way

ASSUME PlanGovernanceAssumption ==
    /\ PlanRisks \subseteq Risks /\ Counts \subseteq Nat
    /\ Expiries \subseteq Nat /\ Times \subseteq Nat
    /\ MaxDrafts \in Nat /\ MaxCrashes \in Nat
    /\ Approvals = Plans \X (0 .. 4 * MaxDrafts)

VARIABLES
    plans,      \* plan -> its current version in the store
    threads,    \* thread -> the step its handler is at
    crashes

pvars == <<approvals, plans, threads, crashes>>

States == {"absent", "draft", "validated", "pending_approval", "approved", "rejected"}
Idle == [step |-> "idle"]
At(step, a, version) == [step |-> step, approval |-> a, version |-> version]

Init ==
    /\ ApprovalsInit
    /\ plans = [p \in Plans |-> [version |-> 0, state |-> "absent", risk |-> 0, ready |-> FALSE,
                                 approval |-> NoRequest, drafts |-> 0]]
    /\ threads = [t \in Threads |-> Idle]
    /\ crashes = 0

\* store.put of plan p under the etag the handler read: other fields are copied.
PutState(p, state, approval) ==
    LET plan == plans[p]
    IN plans' = [plans EXCEPT ![p] = [plan EXCEPT !.version = plan.version + 1, !.state = state,
                                                  !.approval = approval]]

-----------------------------------------------------------------------------
\* POST /v1/plans: a new plan, or a new body for an existing one under If-Match.
CreatePlan(p, risk, ready) ==
    /\ plans[p].drafts < MaxDrafts
    /\ plans' = [plans EXCEPT ![p] =
                   [version |-> @.version + 1, state |-> "draft", risk |-> risk,
                    ready |-> ready, approval |-> NoRequest, drafts |-> @.drafts + 1]]
    /\ UNCHANGED <<approvals, threads, crashes>>

\* POST /v1/plans/{id}/validate.  The If-Match check of the handler and the one of
\* the put name the same etag: the plan the checks read is the plan the put replaces.
Valid(p) == plans[p].state = "draft" /\ plans[p].ready

ValidatePlan(p) ==
    /\ Valid(p)
    /\ PutState(p, "validated", plans[p].approval)
    /\ UNCHANGED <<approvals, threads, crashes>>

\* POST /v1/plans/{id}/submit-approval: the put of the plan ...
Submittable(p) == plans[p].state = "validated"

MutantIdOfCurrentVersion(p) == <<p, plans[p].version>>
ApprovalId(p) == <<p, plans[p].version + 1>>

SubmitPut(t, p, actor, expires, roles, count) ==
    LET gated == plans[p].risk >= 2
    IN /\ threads[t] = Idle
       /\ Submittable(p)
       /\ PutState(p, IF gated THEN "pending_approval" ELSE "approved",
                   IF gated THEN ApprovalId(p) ELSE NoRequest)
       /\ threads' = [threads EXCEPT ![t] =
                        IF gated THEN [step |-> "creating", approval |-> ApprovalId(p),
                                       request |-> NewRequest(p, plans[p].risk, actor, expires,
                                                              roles, count)]
                        ELSE Idle]
       /\ UNCHANGED <<approvals, crashes>>

\* ... then approval_workflow.create, which may refuse the requirements.
SubmitCreate(t) ==
    /\ threads[t].step = "creating"
    /\ LET r == threads[t].request
           a == threads[t].approval
       IN \/ Create(a, r.plan_id, r.risk, r.requested_by, r.expires_at, r.required_roles,
                    r.required_count)
          \/ /\ Exists(a) \/ ~Sufficient(r.risk, r.required_roles, r.required_count)
             /\ UNCHANGED approvals
    /\ threads' = [threads EXCEPT ![t] = Idle]
    /\ UNCHANGED <<plans, crashes>>

\* POST /v1/approvals: a request for any plan, under any id.
CreateApproval(a, p, risk, actor, expires, roles, count) ==
    /\ Create(a, p, risk, actor, expires, roles, count)
    /\ UNCHANGED <<plans, threads, crashes>>

\* POST /v1/approvals/{id}/modify
ModifyApproval(a, actor, expires, roles, count) ==
    /\ Modify(a, actor, expires, roles, count)
    /\ UNCHANGED <<plans, threads, crashes>>

-----------------------------------------------------------------------------
\* POST /v1/approvals/{id}/approve: the vote ...
Vote(t, a, actor, role, now) ==
    /\ threads[t] = Idle
    /\ Approve(a, actor, role, now)
    /\ threads' = [threads EXCEPT ![t] = At("voted", a, 0)]
    /\ UNCHANGED <<plans, crashes>>

VoteExpired(a, now) ==
    /\ Expire(a, now)
    /\ UNCHANGED <<plans, threads, crashes>>

\* POST /v1/approvals/{id}/reject: the rejection ...
RejectRequest(t, a) ==
    /\ threads[t] = Idle
    /\ Reject(a)
    /\ threads' = [threads EXCEPT ![t] = At("rejected", a, 0)]
    /\ UNCHANGED <<plans, crashes>>

\* ... then, in both, the read of the approval and of the plan it names ...
MutantEveryVoteDecides(t) == TRUE
MutantDecidedOffByOne(t) ==
    LET request == approvals[threads[t].approval]
    IN IF threads[t].step = "voted"
       THEN Cardinality(request.votes) > request.required_count ELSE TRUE
Decided(t) ==
    LET request == approvals[threads[t].approval]
    IN IF threads[t].step = "voted" THEN request.status = "approved" ELSE TRUE

ReadPlan(t) ==
    /\ threads[t].step \in {"voted", "rejected"}
    /\ LET a == threads[t].approval
           plan == plans[approvals[a].plan_id]
           put == IF threads[t].step = "voted" THEN "promoting" ELSE "demoting"
       IN threads' = [threads EXCEPT ![t] =
                        IF Decided(t) /\ plan.state = "pending_approval"
                        THEN At(put, a, plan.version) ELSE Idle]
    /\ UNCHANGED <<approvals, plans, crashes>>

\* ... and the put under the etag read, refused when the plan moved on.
MutantIgnoreEtag(t) == TRUE
EtagMatches(t) == plans[approvals[threads[t].approval].plan_id].version = threads[t].version

PutDecision(t) ==
    LET p == approvals[threads[t].approval].plan_id
    IN /\ threads[t].step \in {"promoting", "demoting"}
       /\ IF EtagMatches(t)
          THEN PutState(p, IF threads[t].step = "promoting" THEN "approved" ELSE "rejected",
                        plans[p].approval)
          ELSE UNCHANGED plans
       /\ threads' = [threads EXCEPT ![t] = Idle]
       /\ UNCHANGED <<approvals, crashes>>

\* The process dies, or the database is gone, between two transactions.
Crash(t) ==
    /\ threads[t] # Idle
    /\ crashes < MaxCrashes
    /\ threads' = [threads EXCEPT ![t] = Idle]
    /\ crashes' = crashes + 1
    /\ UNCHANGED <<approvals, plans>>

Handle(t) == SubmitCreate(t) \/ ReadPlan(t) \/ PutDecision(t)

Next ==
    \/ \E p \in Plans, risk \in PlanRisks, ready \in BOOLEAN : CreatePlan(p, risk, ready)
    \/ \E p \in Plans : ValidatePlan(p)
    \/ \E t \in Threads, p \in Plans, actor \in Actors, e \in Expiries, roles \in SUBSET Roles,
          n \in Counts : SubmitPut(t, p, actor, e, roles, n)
    \/ \E a \in Approvals, p \in Plans, risk \in PlanRisks, actor \in Actors, e \in Expiries,
          roles \in SUBSET Roles, n \in Counts :
            a[2] = 0 /\ CreateApproval(a, p, risk, actor, e, roles, n)
    \/ \E a \in Approvals, actor \in Actors, e \in Expiries, roles \in SUBSET Roles, n \in Counts :
            ModifyApproval(a, actor, e, roles, n)
    \/ \E t \in Threads, a \in Approvals, actor \in Actors, role \in Roles, now \in Times :
            Vote(t, a, actor, role, now)
    \/ \E a \in Approvals, now \in Times : VoteExpired(a, now)
    \/ \E t \in Threads, a \in Approvals : RejectRequest(t, a)
    \/ \E t \in Threads : Handle(t) \/ Crash(t)

Spec == Init /\ [][Next]_pvars

\* A handler that is not killed runs to its end.
Fairness == \A t \in Threads : WF_pvars(Handle(t))

FairSpec == Spec /\ Fairness

-----------------------------------------------------------------------------
\* Properties

ThreadStates ==
    [step : {"idle"}]
    \cup [step : {"creating"}, approval : Approvals, request : ApprovalRequest]
    \cup [step : {"voted", "rejected", "promoting", "demoting"}, approval : Approvals, version : Nat]

\* Type invariant; a pending plan names the approval of the version it was submitted
\* as, and a handler past its vote or rejection works on a request that exists.
TypeOK ==
    /\ approvals \in [Approvals -> ApprovalRequest \cup {NoRequest}]
    /\ plans \in [Plans -> [version : Nat, state : States, risk : Risks, ready : BOOLEAN,
                            approval : Approvals \cup {NoRequest}, drafts : 0 .. MaxDrafts]]
    /\ threads \in [Threads -> ThreadStates]
    /\ crashes \in 0 .. MaxCrashes
    /\ \A p \in Plans : plans[p].state = "pending_approval" =>
                          plans[p].approval = <<p, plans[p].version>>
    /\ \A t \in Threads : threads[t].step \in {"voted", "rejected", "promoting", "demoting"}
                          => Exists(threads[t].approval)

\* A plan of risk L2 or above is approved only when an approval of that plan was
\* granted, whatever handlers raced or died half way: the plan never runs ahead of
\* its approvals.
ApprovedPlanIsBacked ==
    \A p \in Plans :
        plans[p].state = "approved" /\ plans[p].risk >= 2 =>
            \E a \in Approvals : Exists(a) /\ approvals[a].plan_id = p /\ approvals[a].status = "approved"

\* TRANSITIONS of packages/plans/lifecycle.py.
TRANSITIONS ==
    {<<"draft", "validated">>, <<"draft", "rejected">>,
     <<"validated", "pending_approval">>, <<"validated", "approved">>,
     <<"pending_approval", "approved">>, <<"pending_approval", "rejected">>,
     <<"approved", "active">>, <<"approved", "rejected">>, <<"active", "superseded">>}

\* The API handlers move a plan along TRANSITIONS of packages/plans/lifecycle.py, or
\* replace it by a new draft, and only a plan that passes validation leaves draft.
PlanMovesAreLegal ==
    [][\A p \in Plans :
         plans'[p].version # plans[p].version =>
            \/ plans'[p].state = "draft"
            \/ /\ <<plans[p].state, plans'[p].state>> \in TRANSITIONS
               /\ plans'[p].ready]_pvars

\* A plan whose approval was granted does not stay pending, unless a handler died
\* between the vote and the update of the plan.
GrantedPlanMovesOn ==
    \A p \in Plans, a \in Approvals :
        (/\ plans[p].state = "pending_approval" /\ plans[p].approval = a
         /\ Exists(a) /\ approvals[a].status = "approved" /\ crashes = 0)
        ~> (plans[p].state # "pending_approval" \/ crashes > 0)

\* A stale approval approves nothing: an approved plan has the approval that was
\* requested for its current version, or one a caller requested for the plan by hand,
\* never only one requested for a version that was replaced since.
StaleApprovalRejected ==
    \A p \in Plans :
        plans[p].state = "approved" /\ plans[p].risk >= 2 =>
            \E a \in {plans[p].approval, <<p, 0>>} :
                Exists(a) /\ approvals[a].status = "approved"
=============================================================================
