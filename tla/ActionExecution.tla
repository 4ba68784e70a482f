--------------------------- MODULE ActionExecution ---------------------------
(***************************************************************************)
(* POST /v1/actions/{id}/execute and /cancel (apps/api/main.py), the action  *)
(* guard (packages/execution/action_guard.py) and the persistent             *)
(* IdempotencyStore (packages/execution/idempotency.py) together with the    *)
(* approvals they rely on.                                                   *)
(*                                                                          *)
(* execute reads the approval, evaluates the guard, records 'started' in a   *)
(* transaction, calls the adapter outside any transaction, and records the   *)
(* outcome in a second one.  The checks of the guard that concern only the   *)
(* request (whitelist, prohibited kinds, target state, age, bounds) are one  *)
(* Boolean, `sound'.                                                         *)
(***************************************************************************)
EXTENDS ApprovalWorkflow

CONSTANTS
    Threads,        \* execute handlers in progress
    Actions, Keys,  \* action ids and the idempotency_key of the request body
    Parameters,     \* action parameters
    RiskInputs,     \* risk levels callers send
    Times,          \* values of expires_at and now
    Counts,         \* values of required_count
    MaxTries,       \* bound: no new request for a key after as many failures
    MaxCrashes,     \* bound: handlers that die half way
    NoRow           \* a key without execution; also a request without approval_id

ASSUME ActionExecutionAssumption ==
    /\ RiskInputs \subseteq Risks /\ Times \subseteq Nat /\ Counts \subseteq Nat
    /\ MaxTries \in Nat /\ MaxCrashes \in Nat
    /\ NoRow \notin Approvals

VARIABLES
    action_executions,      \* key -> row or NoRow
    action_cancellations,   \* cancelled actions
    threads,                \* thread -> step and request of its handler
    applied,                \* ghost: key -> times the adapter applied it
    failures,               \* ghost: key -> attempts recorded as failed
    executed,               \* ghost: requests the adapter applied
    crashes

evars == <<action_executions, action_cancellations, threads, applied, failures, executed, crashes>>
avars == <<approvals, evars>>

Requests ==
    [action : Actions, plan : Plans, risk : Risks, key : Keys, parameters : Parameters,
     approval : Approvals \cup {NoRow}]
Row == [action : Actions, parameters : Parameters,
        status : {"started", "succeeded", "failed"}, result : BOOLEAN]

ASSUME NoRowAssumption == NoRow \notin Row

Idle == [step |-> "idle"]
At(step, request) == [step |-> step, request |-> request]
InFlight(t) == threads[t].step \in {"running", "applied", "raised"}
Move(t, state) == threads' = [threads EXCEPT ![t] = state]

Init ==
    /\ ApprovalsInit
    /\ action_executions = [k \in Keys |-> NoRow]
    /\ action_cancellations = {}
    /\ threads = [t \in Threads |-> Idle]
    /\ applied = [k \in Keys |-> 0]
    /\ failures = [k \in Keys |-> 0]
    /\ executed = {}
    /\ crashes = 0

-----------------------------------------------------------------------------
\* ActionGuard.evaluate on the approval the handler has just read.
MutantGuardAnyStatus(request, now, sound) ==
    /\ sound
    /\ request.risk >= 2 =>
         /\ request.approval # NoRow /\ Exists(request.approval)
         /\ approvals[request.approval].plan_id = request.plan
         /\ now < approvals[request.approval].expires_at
GuardAllows(request, now, sound) ==
    /\ sound
    /\ request.risk >= 2 =>
         /\ request.approval # NoRow
         /\ approvals[request.approval].status = "approved"
         /\ approvals[request.approval].plan_id = request.plan
         /\ now < approvals[request.approval].expires_at

\* execute_action up to the call of execute_once; an approval_id that is not in use
\* raises KeyError, and a refused request leaves no trace.
Evaluate(t, request, now, sound) ==
    /\ threads[t] = Idle
    /\ failures[request.key] < MaxTries
    /\ request.approval # NoRow => Exists(request.approval)
    /\ GuardAllows(request, now, sound)
    /\ Move(t, At("allowed", request))
    /\ UNCHANGED <<approvals, action_executions, action_cancellations, applied, failures,
                   executed, crashes>>

\* The first transaction of execute_once, serialised per action by an advisory lock
\* and per key by the primary key of action_executions.
Row0(t) == action_executions[threads[t].request.key]
SameIntent(t) ==
    /\ Row0(t).action = threads[t].request.action
    /\ Row0(t).parameters = threads[t].request.parameters

MutantRestartStarted(t) ==
    /\ threads[t].request.action \notin action_cancellations
    /\ Row0(t) # NoRow => SameIntent(t) /\ Row0(t).status \in {"failed", "started"}
Startable(t) ==
    /\ threads[t].request.action \notin action_cancellations
    /\ Row0(t) # NoRow => SameIntent(t) /\ Row0(t).status = "failed"

Start(t) ==
    LET request == threads[t].request
    IN /\ threads[t].step = "allowed"
       /\ Startable(t)
       /\ action_executions' = [action_executions EXCEPT ![request.key] =
            [action |-> request.action, parameters |-> request.parameters,
             status |-> "started", result |-> FALSE]]
       /\ Move(t, At("running", request))
       /\ UNCHANGED <<approvals, action_cancellations, applied, failures, executed, crashes>>

\* Cancelled, another intent, in progress (raises) or succeeded (returns the result).
Answer(t) ==
    /\ threads[t].step = "allowed"
    /\ ~Startable(t)
    /\ Move(t, Idle)
    /\ UNCHANGED <<approvals, action_executions, action_cancellations, applied, failures,
                   executed, crashes>>

\* operation(): the adapter applies the action ...
Apply(t) ==
    LET request == threads[t].request
    IN /\ threads[t].step = "running"
       /\ applied' = [applied EXCEPT ![request.key] = @ + 1]
       /\ executed' = executed \cup {request}
       /\ Move(t, At("applied", request))
       /\ UNCHANGED <<approvals, action_executions, action_cancellations, failures, crashes>>

\* ... or raises: refused before the call, or the acknowledgement was lost after it.
AdapterRaises(t) ==
    /\ threads[t].step \in {"running", "applied"}
    /\ Move(t, At("raised", threads[t].request))
    /\ UNCHANGED <<approvals, action_executions, action_cancellations, applied, failures,
                   executed, crashes>>

MutantFailureKeepsStarted(row) == row
FailedRow(row) == [row EXCEPT !.status = "failed"]

RecordFailure(t) ==
    LET key == threads[t].request.key
    IN /\ threads[t].step = "raised"
       /\ action_executions' = [action_executions EXCEPT ![key] =
                                  IF SameIntent(t) THEN FailedRow(@) ELSE @]
       /\ failures' = [failures EXCEPT ![key] = @ + 1]
       /\ Move(t, Idle)
       /\ UNCHANGED <<approvals, action_cancellations, applied, executed, crashes>>

SucceededRow(row) == [row EXCEPT !.status = "succeeded", !.result = TRUE]

RecordSuccess(t) ==
    LET key == threads[t].request.key
    IN /\ threads[t].step = "applied"
       /\ action_executions' = [action_executions EXCEPT ![key] =
                                  IF SameIntent(t) THEN SucceededRow(@) ELSE @]
       /\ Move(t, Idle)
       /\ UNCHANGED <<approvals, action_cancellations, applied, failures, executed, crashes>>

\* The process dies, or the transaction that records the outcome fails.
Crash(t) ==
    /\ threads[t] # Idle
    /\ crashes < MaxCrashes
    /\ crashes' = crashes + 1
    /\ Move(t, Idle)
    /\ UNCHANGED <<approvals, action_executions, action_cancellations, applied, failures, executed>>

\* cancel, under the same advisory lock; a repeated cancellation changes nothing.
MutantCancelStarted(a) ==
    \A k \in Keys : action_executions[k] # NoRow /\ action_executions[k].action = a =>
                      action_executions[k].status # "succeeded"
Cancellable(a) ==
    \A k \in Keys : action_executions[k] # NoRow /\ action_executions[k].action = a =>
                      action_executions[k].status \notin {"started", "succeeded"}

Cancel(a) ==
    /\ Cancellable(a)
    /\ a \notin action_cancellations
    /\ action_cancellations' = action_cancellations \cup {a}
    /\ UNCHANGED <<approvals, action_executions, threads, applied, failures, executed, crashes>>

\* The approval endpoints, as in ApprovalWorkflow.
Approval ==
    /\ \/ \E a \in Approvals, p \in Plans, risk \in RiskInputs, actor \in Actors, e \in Times,
             roles \in SUBSET Roles, n \in Counts : Create(a, p, risk, actor, e, roles, n)
       \/ \E a \in Approvals, actor \in Actors, role \in Roles, now \in Times :
             Approve(a, actor, role, now)
       \/ \E a \in Approvals, now \in Times : Expire(a, now)
       \/ \E a \in Approvals : Reject(a)
       \/ \E a \in Approvals, actor \in Actors, e \in Times, roles \in SUBSET Roles,
             n \in Counts : Modify(a, actor, e, roles, n)
    /\ UNCHANGED evars

Settle(t) == Apply(t) \/ AdapterRaises(t) \/ RecordFailure(t) \/ RecordSuccess(t)

Next ==
    \/ Approval
    \/ \E t \in Threads, request \in [action : Actions, plan : Plans, risk : RiskInputs,
            key : Keys, parameters : Parameters, approval : Approvals \cup {NoRow}],
          now \in Times, sound \in BOOLEAN : Evaluate(t, request, now, sound)
    \/ \E t \in Threads : Start(t) \/ Answer(t) \/ Settle(t) \/ Crash(t)
    \/ \E a \in Actions : Cancel(a)

Spec == Init /\ [][Next]_avars

\* A handler that is not killed finishes; the adapter call has a timeout.
FairSpec == Spec /\ \A t \in Threads : WF_avars(Settle(t))

-----------------------------------------------------------------------------
\* Properties

\* No action of risk L2 or above is executed without an approval of its plan that was
\* granted and still is, although the handler read the approval some steps before the
\* adapter ran and others voted, rejected and modified in between.
ExecutedWasApproved ==
    \A request \in executed :
        request.risk >= 2 =>
            /\ request.approval # NoRow
            /\ approvals[request.approval].plan_id = request.plan
            /\ approvals[request.approval].status = "approved"

\* A cancelled action is not being executed, was not executed with success, and never
\* will be, under whichever key it was requested.
CancelledNeverRuns ==
    /\ \A t \in Threads : InFlight(t) => threads[t].request.action \notin action_cancellations
    /\ \A k \in Keys : action_executions[k] # NoRow
                         /\ action_executions[k].status \in {"started", "succeeded"} =>
                            action_executions[k].action \notin action_cancellations

\* Duplicate and concurrent execute requests under one key reach the adapter once,
\* and once more only for each attempt that was recorded as failed.
AppliedOncePerAttempt ==
    \A k \in Keys : applied[k] <= failures[k] + 1

Started(k) == action_executions[k] # NoRow /\ action_executions[k].status = "started"

\* An execution that was started is settled, unless a handler died: then its row stays
\* 'started', which refuses every retry and every cancellation.
StartedSettles ==
    \A k \in Keys : (Started(k) /\ crashes = 0) ~> (~Started(k) \/ crashes > 0)
=============================================================================
