------------------------ MODULE ActionExecutionProofs ------------------------
(***************************************************************************)
(* Proofs about ActionExecution for every set of handlers, actions, keys,    *)
(* parameters and approvals, every risk and every bound.                     *)
(***************************************************************************)
EXTENDS ActionExecution, TLAPS

Steps == {"allowed", "running", "applied", "raised"}
ThreadStates == {Idle} \cup [step : Steps, request : Requests]
Busy(t) == threads[t].step \in Steps

TypeOK ==
    /\ approvals \in [Approvals -> ApprovalRequest \cup {NoRequest}]
    /\ action_executions \in [Keys -> Row \cup {NoRow}]
    /\ action_cancellations \subseteq Actions
    /\ threads \in [Threads -> ThreadStates]
    /\ applied \in [Keys -> Nat] /\ failures \in [Keys -> Nat]
    /\ executed \subseteq Requests

\* The approval a request needs was granted, for its plan.
Granted(request) ==
    request.risk >= 2 =>
        /\ request.approval \in Approvals /\ Exists(request.approval)
        /\ approvals[request.approval].plan_id = request.plan
        /\ approvals[request.approval].status = "approved"

\* What the guard saw still holds for every handler past it.
GrantOK ==
    /\ \A t \in Threads : Busy(t) => Granted(threads[t].request)
    /\ \A request \in executed : Granted(request)

\* A handler in flight has the row of its key to itself, 'started' by itself: the WHERE
\* clauses of the second transaction never miss.
FlightOK ==
    /\ \A t \in Threads :
         InFlight(t) => Row0(t) # NoRow /\ SameIntent(t) /\ Row0(t).status = "started"
    /\ \A t, u \in Threads :
         InFlight(t) /\ InFlight(u) /\ threads[t].request.key = threads[u].request.key => t = u

\* Where another attempt may still reach the adapter, every application so far was
\* followed by a failure.
CountOK ==
    \A k \in Keys :
        /\ applied[k] <= failures[k] + 1
        /\ action_executions[k] = NoRow \/ action_executions[k].status = "failed"
             => applied[k] <= failures[k]
        /\ \A t \in Threads : threads[t].step = "running" /\ threads[t].request.key = k
             => applied[k] <= failures[k]

\* The inductive invariant.
IInv == TypeOK /\ GrantOK /\ FlightOK /\ CancelledNeverRuns /\ CountOK

\* Nothing is requested, executed or cancelled at first.
LEMMA InitIInv == Init => IInv
<1> SUFFICES ASSUME Init PROVE IInv
  OBVIOUS
<1>1. \A t \in Threads : threads[t] = Idle /\ threads[t].step = "idle" /\ ~Busy(t) /\ ~InFlight(t)
  BY DEF Init, Idle, Busy, Steps, InFlight
<1>2. TypeOK
  BY <1>1 DEF Init, ApprovalsInit, TypeOK, ThreadStates
<1>3. GrantOK /\ FlightOK
  BY <1>1 DEF Init, GrantOK, FlightOK
<1>4. CancelledNeverRuns /\ CountOK
  BY <1>1 DEF Init, CancelledNeverRuns, CountOK
<1> QED BY <1>2, <1>3, <1>4 DEF IInv

\* A handler is idle or busy with a request.
LEMMA ThreadCases ==
    ASSUME TypeOK, NEW t \in Threads
    PROVE  /\ threads[t] = Idle => ~Busy(t) /\ ~InFlight(t)
           /\ threads[t] # Idle => Busy(t)
           /\ InFlight(t) => Busy(t)
           /\ Busy(t) => threads[t].request \in Requests
BY DEF TypeOK, ThreadStates, Idle, Busy, Steps, InFlight

\* The state a handler moves to.
LEMMA AtFields ==
    ASSUME NEW step \in Steps, NEW r \in Requests
    PROVE  /\ At(step, r) \in ThreadStates
           /\ At(step, r).step = step /\ At(step, r).request = r
BY DEF At, ThreadStates

\* Only one handler moves at a time.
LEMMA MoveFacts ==
    ASSUME TypeOK, NEW t \in Threads, NEW state \in ThreadStates, Move(t, state)
    PROVE  /\ threads' \in [Threads -> ThreadStates]
           /\ threads'[t] = state
           /\ \A u \in Threads \ {t} : threads'[u] = threads[u]
BY DEF TypeOK, Move

\* An approval that was granted is never touched again: a vote, a modification and an
\* expiry need a pending request, a rejection a pending or rejected one, a creation an
\* id that is not in use.
LEMMA ApprovalFinal ==
    ASSUME TypeOK, Approval
    PROVE  /\ approvals' \in [Approvals -> ApprovalRequest \cup {NoRequest}]
           /\ \A a \in Approvals : Exists(a) /\ approvals[a].status = "approved"
                                    => approvals'[a] = approvals[a]
<1>1. ASSUME NEW a \in Approvals, NEW row \in ApprovalRequest,
             approvals' = [approvals EXCEPT ![a] = row],
             ~Exists(a) \/ approvals[a].status # "approved"
      PROVE  /\ approvals' \in [Approvals -> ApprovalRequest \cup {NoRequest}]
             /\ \A b \in Approvals : Exists(b) /\ approvals[b].status = "approved"
                                      => approvals'[b] = approvals[b]
  BY <1>1 DEF TypeOK
<1>2. ASSUME NEW a \in Approvals, Exists(a) PROVE approvals[a] \in ApprovalRequest
  BY <1>2 DEF TypeOK, Exists
<1>3. ASSUME NEW a \in Approvals, NEW p \in Plans, NEW risk \in RiskInputs, NEW actor \in Actors,
             NEW e \in Times, NEW roles \in SUBSET Roles, NEW n \in Counts,
             Create(a, p, risk, actor, e, roles, n)
      PROVE  /\ NewRequest(p, risk, actor, e, roles, n) \in ApprovalRequest
             /\ approvals' = [approvals EXCEPT ![a] = NewRequest(p, risk, actor, e, roles, n)]
             /\ ~Exists(a)
  BY <1>3, ActionExecutionAssumption DEF Create, NewRequest, ApprovalRequest, Statuses
<1>4. ASSUME NEW a \in Approvals, NEW actor \in Actors, NEW role \in Roles, NEW now \in Times,
             Approve(a, actor, role, now)
      PROVE  /\ WithVote(approvals[a], actor, role) \in ApprovalRequest
             /\ approvals' = [approvals EXCEPT ![a] = WithVote(approvals[a], actor, role)]
             /\ approvals[a].status # "approved"
  <2> DEFINE votes == approvals[a].votes \cup {[actor |-> actor, role |-> role]}
             status == IF Cardinality(votes) >= approvals[a].required_count
                       THEN "approved" ELSE "pending"
  <2>1. approvals[a] \in ApprovalRequest /\ approvals[a].status = "pending"
    BY <1>2, <1>4 DEF Approve, MayVote
  <2>2. votes \subseteq Votes
    BY <2>1 DEF ApprovalRequest, Votes
  <2>3. status \in Statuses
    BY DEF Statuses
  <2>4. WithVote(approvals[a], actor, role) = [approvals[a] EXCEPT !.votes = votes, !.status = status]
    BY DEF WithVote
  <2> HIDE DEF votes, status
  <2> QED BY <1>4, <2>1, <2>2, <2>3, <2>4, Zenon DEF ApprovalRequest, Approve
<1>5. ASSUME NEW a \in Approvals, NEW now \in Times, Expire(a, now)
      PROVE  \/ approvals' = approvals
             \/ /\ [approvals[a] EXCEPT !.status = "expired"] \in ApprovalRequest
                /\ approvals' = [approvals EXCEPT ![a] = [approvals[a] EXCEPT !.status = "expired"]]
                /\ approvals[a].status # "approved"
  <2>1. approvals[a] \in ApprovalRequest
    BY <1>2, <1>5 DEF Expire
  <2> QED BY <1>5, <2>1 DEF Expire, ApprovalRequest, Statuses
<1>6. ASSUME NEW a \in Approvals, Reject(a)
      PROVE  /\ [approvals[a] EXCEPT !.status = "rejected"] \in ApprovalRequest
             /\ approvals' = [approvals EXCEPT ![a] = [approvals[a] EXCEPT !.status = "rejected"]]
             /\ approvals[a].status # "approved"
  <2>1. approvals[a] \in ApprovalRequest
    BY <1>2, <1>6 DEF Reject
  <2> QED BY <1>6, <2>1 DEF Reject, ApprovalRequest, Statuses
<1>7. ASSUME NEW a \in Approvals, NEW actor \in Actors, NEW e \in Times,
             NEW roles \in SUBSET Roles, NEW n \in Counts, Modify(a, actor, e, roles, n)
      PROVE  \E row \in ApprovalRequest : /\ approvals' = [approvals EXCEPT ![a] = row]
                                           /\ approvals[a].status # "approved"
  <2>1. approvals[a] \in ApprovalRequest /\ approvals[a].status # "approved"
    BY <1>2, <1>7 DEF Modify, MayModify
  <2>2. [approvals[a] EXCEPT !.expires_at = e, !.required_roles = roles, !.required_count = n]
          \in ApprovalRequest
    BY <2>1, ActionExecutionAssumption, Zenon DEF ApprovalRequest
  <2> QED BY <1>7, <2>1, <2>2, Zenon DEF Modify
<1>8. CASE \E a \in Approvals, p \in Plans, risk \in RiskInputs, actor \in Actors, e \in Times,
              roles \in SUBSET Roles, n \in Counts : Create(a, p, risk, actor, e, roles, n)
  BY <1>1, <1>3, <1>8, Zenon
<1>9. CASE \E a \in Approvals, actor \in Actors, role \in Roles, now \in Times :
              Approve(a, actor, role, now)
  BY <1>1, <1>4, <1>9
<1>10. CASE \E a \in Approvals, now \in Times : Expire(a, now)
  BY <1>1, <1>5, <1>10, Zenon DEF TypeOK
<1>11. CASE \E a \in Approvals : Reject(a)
  BY <1>1, <1>6, <1>11, Zenon
<1>12. CASE \E a \in Approvals, actor \in Actors, e \in Times, roles \in SUBSET Roles,
               n \in Counts : Modify(a, actor, e, roles, n)
  BY <1>1, <1>7, <1>12
<1> QED BY <1>8, <1>9, <1>10, <1>11, <1>12 DEF Approval


\* The approval endpoints take nothing away from a request that was granted.
LEMMA ApprovalStep ==
    ASSUME IInv, Approval
    PROVE  IInv'
<1>1. UNCHANGED evars
  BY DEF Approval
<1>2. \A r : Granted(r) => Granted(r)'
  BY ApprovalFinal DEF IInv, Granted, Exists
<1>3. TypeOK'
  BY <1>1, ApprovalFinal DEF IInv, TypeOK, evars
<1>4. GrantOK'
  BY <1>1, <1>2 DEF IInv, GrantOK, evars, Busy
<1>5. FlightOK' /\ CancelledNeverRuns' /\ CountOK'
  BY <1>1 DEF IInv, FlightOK, CancelledNeverRuns, CountOK, evars, InFlight, Row0, SameIntent
<1> QED BY <1>3, <1>4, <1>5 DEF IInv

\* A handler that passes the guard: the approval it read is granted.
LEMMA EvaluateStep ==
    ASSUME IInv, NEW t \in Threads, NEW now \in Times, NEW sound \in BOOLEAN,
           NEW r \in Requests, Evaluate(t, r, now, sound)
    PROVE  IInv'
<1> USE DEF IInv
<1>1. /\ threads[t] = Idle
      /\ r.approval # NoRow => Exists(r.approval)
      /\ GuardAllows(r, now, sound)
      /\ Move(t, At("allowed", r))
      /\ UNCHANGED <<approvals, action_executions, action_cancellations, applied, failures,
                     executed, crashes>>
  BY DEF Evaluate
<1>2. /\ At("allowed", r) \in ThreadStates
      /\ At("allowed", r).step = "allowed" /\ At("allowed", r).request = r
  BY AtFields DEF Steps
<1>3. /\ threads' \in [Threads -> ThreadStates] /\ threads'[t] = At("allowed", r)
      /\ \A u \in Threads \ {t} : threads'[u] = threads[u]
  BY <1>1, <1>2, MoveFacts
<1>4. Granted(r)
  BY <1>1 DEF GuardAllows, Granted, Requests
<1>5. \A u \in Threads : /\ InFlight(u)' => u # t /\ InFlight(u)
                         /\ threads'[u].step = "running" => u # t
  BY <1>2, <1>3 DEF InFlight
<1>6. TypeOK'
  BY <1>1, <1>3 DEF TypeOK
<1>7. \A q : Granted(q) => Granted(q)'
  BY <1>1 DEF Granted, Exists
<1>8. GrantOK'
  BY <1>1, <1>2, <1>3, <1>4, <1>7 DEF GrantOK, Busy
<1>9. FlightOK'
  BY <1>1, <1>3, <1>5 DEF FlightOK, Row0, SameIntent
<1>10. CancelledNeverRuns'
  BY <1>1, <1>3, <1>5 DEF CancelledNeverRuns
<1>11. CountOK'
  BY <1>1, <1>3, <1>5 DEF CountOK
<1> QED BY <1>6, <1>8, <1>9, <1>10, <1>11

\* The first transaction: the key has no attempt, or a failed one of the same intent.
LEMMA StartStep ==
    ASSUME IInv, NEW t \in Threads, Start(t)
    PROVE  IInv'
<1> USE DEF IInv
<1>1. PICK r : r = threads[t].request
  OBVIOUS
<1>2. PICK k : k = r.key
  OBVIOUS
<1>3. PICK row : row = [action |-> r.action, parameters |-> r.parameters,
                        status |-> "started", result |-> FALSE]
  BY Zenon
<1>4. /\ threads[t].step = "allowed"
      /\ r.action \notin action_cancellations
      /\ action_executions[k] # NoRow => action_executions[k].status = "failed"
      /\ action_executions' = [action_executions EXCEPT ![k] = row]
      /\ Move(t, At("running", r))
      /\ UNCHANGED <<approvals, action_cancellations, applied, failures, executed, crashes>>
  BY <1>1, <1>2, <1>3 DEF Start, Startable, Row0
<1>5. r \in Requests /\ Granted(r) /\ k \in Keys
  <2>1. Busy(t)
    BY <1>4 DEF Busy, Steps
  <2>2. r \in Requests /\ Granted(r)
    BY <1>1, <2>1, ThreadCases DEF GrantOK
  <2> QED BY <1>2, <2>2 DEF Requests
<1>6. row \in Row /\ row # NoRow
  <2>1. ASSUME NEW a \in Actions, NEW x \in Parameters, NEW b \in BOOLEAN
        PROVE  [action |-> a, parameters |-> x, status |-> "started", result |-> b] \in Row
    BY DEF Row
  <2>2. r.action \in Actions /\ r.parameters \in Parameters
    BY <1>5 DEF Requests
  <2>3. row \in Row
    BY <1>3, <2>1, <2>2, Zenon
  <2> QED BY <2>3, NoRowAssumption
<1>7. row.action = r.action /\ row.parameters = r.parameters /\ row.status = "started"
  BY <1>3
<1>8. /\ At("running", r) \in ThreadStates
      /\ At("running", r).step = "running" /\ At("running", r).request = r
  BY <1>5, AtFields DEF Steps
<1>9. /\ threads' \in [Threads -> ThreadStates] /\ threads'[t] = At("running", r)
      /\ \A u \in Threads \ {t} : threads'[u] = threads[u]
  BY <1>4, <1>8, MoveFacts
<1>10. /\ action_executions' \in [Keys -> Row \cup {NoRow}] /\ action_executions'[k] = row
       /\ \A j \in Keys \ {k} : action_executions'[j] = action_executions[j]
  BY <1>4, <1>5, <1>6 DEF TypeOK
<1>11. \A u \in Threads \ {t} :
         /\ InFlight(u)' => InFlight(u)
         /\ InFlight(u) => /\ threads[u].request \in Requests
                           /\ threads[u].request.key \in Keys
                           /\ threads[u].request.key # k
  <2> SUFFICES ASSUME NEW u \in Threads \ {t}
               PROVE  /\ InFlight(u)' => InFlight(u)
                      /\ InFlight(u) => /\ threads[u].request \in Requests
                                        /\ threads[u].request.key \in Keys
                                        /\ threads[u].request.key # k
    OBVIOUS
  <2>1. InFlight(u)' => InFlight(u)
    BY <1>9 DEF InFlight
  <2>2. InFlight(u) => threads[u].request \in Requests
    BY ThreadCases
  <2>3. InFlight(u) => threads[u].request.key # k
    BY <1>4 DEF FlightOK, Row0
  <2> QED BY <2>1, <2>2, <2>3 DEF Requests
<1>12. TypeOK'
  BY <1>4, <1>9, <1>10 DEF TypeOK
<1>13. \A q : Granted(q) => Granted(q)'
  BY <1>4 DEF Granted, Exists
<1>14. GrantOK'
  BY <1>4, <1>5, <1>8, <1>9, <1>13 DEF GrantOK, Busy
<1>15. FlightOK'
  <2>1. ASSUME NEW u \in Threads, InFlight(u)'
        PROVE  Row0(u)' # NoRow /\ SameIntent(u)' /\ Row0(u)'.status = "started"
    <3>1. CASE u = t
      BY <1>2, <1>6, <1>7, <1>8, <1>9, <1>10, <3>1 DEF Row0, SameIntent
    <3>2. CASE u # t
      BY <1>9, <1>10, <1>11, <2>1, <3>2 DEF Row0, SameIntent, FlightOK
    <3> QED BY <3>1, <3>2
  <2>2. ASSUME NEW u \in Threads, NEW w \in Threads, InFlight(u)', InFlight(w)',
               threads'[u].request.key = threads'[w].request.key
        PROVE  u = w
    BY <1>2, <1>8, <1>9, <1>11, <2>2 DEF FlightOK
  <2> QED BY <2>1, <2>2 DEF FlightOK
<1>16. CancelledNeverRuns'
  <2>1. \A u \in Threads : InFlight(u)' => threads'[u].request.action \notin action_cancellations'
    BY <1>4, <1>8, <1>9, <1>11 DEF CancelledNeverRuns
  <2>2. \A j \in Keys : action_executions'[j] # NoRow
                          /\ action_executions'[j].status \in {"started", "succeeded"} =>
                             action_executions'[j].action \notin action_cancellations'
    BY <1>4, <1>7, <1>10 DEF CancelledNeverRuns
  <2> QED BY <2>1, <2>2 DEF CancelledNeverRuns
<1>17. CountOK'
  <2> SUFFICES ASSUME NEW j \in Keys
               PROVE  /\ applied'[j] <= failures'[j] + 1
                      /\ action_executions'[j] = NoRow \/ action_executions'[j].status = "failed"
                           => applied'[j] <= failures'[j]
                      /\ \A u \in Threads : threads'[u].step = "running"
                                             /\ threads'[u].request.key = j
                                             => applied'[j] <= failures'[j]
    BY DEF CountOK
  <2>1. CASE j = k
    BY <1>4, <2>1 DEF CountOK
  <2>2. CASE j # k
    BY <1>2, <1>4, <1>8, <1>9, <1>10, <2>2 DEF CountOK
  <2> QED BY <2>1, <2>2
<1> QED BY <1>12, <1>14, <1>15, <1>16, <1>17


\* Answer and Crash: the handler ends and leaves the tables alone.
LEMMA LeaveStep ==
    ASSUME IInv, NEW t \in Threads, Move(t, Idle),
           UNCHANGED <<approvals, action_executions, action_cancellations, applied, failures, executed>>
    PROVE  IInv'
<1> USE DEF IInv
<1>1. /\ threads' \in [Threads -> ThreadStates] /\ threads'[t] = Idle
      /\ \A u \in Threads \ {t} : threads'[u] = threads[u]
  BY MoveFacts DEF ThreadStates
<1>2. \A u \in Threads : /\ InFlight(u)' => u # t /\ InFlight(u)
                         /\ Busy(u)' => u # t /\ Busy(u)
                         /\ threads'[u].step = "running" => u # t
  BY <1>1 DEF InFlight, Busy, Steps, Idle
<1>3. TypeOK'
  BY <1>1 DEF TypeOK
<1>4. \A q : Granted(q) => Granted(q)'
  BY DEF Granted, Exists
<1>5. GrantOK'
  BY <1>1, <1>2, <1>4 DEF GrantOK
<1>6. FlightOK'
  BY <1>1, <1>2 DEF FlightOK, Row0, SameIntent
<1>7. CancelledNeverRuns' /\ CountOK'
  BY <1>1, <1>2 DEF CancelledNeverRuns, CountOK
<1> QED BY <1>3, <1>5, <1>6, <1>7

\* The adapter applies the action of the handler that owns the row.
LEMMA ApplyStep ==
    ASSUME IInv, NEW t \in Threads, Apply(t)
    PROVE  IInv'
<1> USE DEF IInv
<1>1. PICK r : r = threads[t].request
  OBVIOUS
<1>2. PICK k : k = r.key
  OBVIOUS
<1>3. /\ threads[t].step = "running"
      /\ applied' = [applied EXCEPT ![k] = @ + 1]
      /\ executed' = executed \cup {r}
      /\ Move(t, At("applied", r))
      /\ UNCHANGED <<approvals, action_executions, action_cancellations, failures, crashes>>
  BY <1>1, <1>2 DEF Apply
<1>4. Busy(t) /\ InFlight(t)
  BY <1>3 DEF Busy, Steps, InFlight
<1>5. r \in Requests /\ Granted(r)
  BY <1>1, <1>4, ThreadCases DEF GrantOK
<1>6. /\ k \in Keys /\ action_executions[k] # NoRow /\ action_executions[k].status = "started"
      /\ applied[k] <= failures[k]
      /\ \A u \in Threads : InFlight(u) /\ threads[u].request.key = k => u = t
  BY <1>1, <1>2, <1>3, <1>4, <1>5 DEF Requests, FlightOK, Row0, CountOK
<1>7. /\ At("applied", r) \in ThreadStates
      /\ At("applied", r).step = "applied" /\ At("applied", r).request = r
  BY <1>5, AtFields DEF Steps
<1>8. /\ threads' \in [Threads -> ThreadStates] /\ threads'[t] = At("applied", r)
      /\ \A u \in Threads \ {t} : threads'[u] = threads[u]
  BY <1>3, <1>7, MoveFacts
<1>9. /\ applied' \in [Keys -> Nat] /\ applied'[k] = applied[k] + 1
      /\ \A j \in Keys \ {k} : applied'[j] = applied[j]
  BY <1>3, <1>6 DEF TypeOK
<1>10. \A u \in Threads : /\ threads'[u].request = threads[u].request
                          /\ InFlight(u)' => InFlight(u)
                          /\ Busy(u)' => Busy(u)
                          /\ threads'[u].step = "running" => u # t /\ InFlight(u)
  BY <1>1, <1>3, <1>4, <1>7, <1>8 DEF InFlight, Busy
<1>11. TypeOK'
  BY <1>3, <1>5, <1>8, <1>9 DEF TypeOK
<1>12. \A q : Granted(q) => Granted(q)'
  BY <1>3 DEF Granted, Exists
<1>13. GrantOK'
  BY <1>3, <1>5, <1>10, <1>12 DEF GrantOK
<1>14. FlightOK' /\ CancelledNeverRuns'
  BY <1>3, <1>10 DEF FlightOK, Row0, SameIntent, CancelledNeverRuns
<1>15. CountOK'
  <2> SUFFICES ASSUME NEW j \in Keys
               PROVE  /\ applied'[j] <= failures'[j] + 1
                      /\ action_executions'[j] = NoRow \/ action_executions'[j].status = "failed"
                           => applied'[j] <= failures'[j]
                      /\ \A u \in Threads : threads'[u].step = "running"
                                             /\ threads'[u].request.key = j
                                             => applied'[j] <= failures'[j]
    BY DEF CountOK
  <2>0. applied[k] \in Nat /\ failures[k] \in Nat
    BY <1>6 DEF TypeOK
  <2>1. CASE j = k
    BY <1>3, <1>6, <1>9, <1>10, <2>0, <2>1
  <2>2. CASE j # k
    BY <1>3, <1>8, <1>9, <1>10, <2>2 DEF CountOK
  <2> QED BY <2>1, <2>2
<1> QED BY <1>11, <1>13, <1>14, <1>15

\* The adapter raises, before or after it applied the action.
LEMMA RaiseStep ==
    ASSUME IInv, NEW t \in Threads, AdapterRaises(t)
    PROVE  IInv'
<1> USE DEF IInv
<1>1. PICK r : r = threads[t].request
  OBVIOUS
<1>2. /\ threads[t].step \in {"running", "applied"}
      /\ Move(t, At("raised", r))
      /\ UNCHANGED <<approvals, action_executions, action_cancellations, applied, failures,
                     executed, crashes>>
  BY <1>1 DEF AdapterRaises
<1>3. Busy(t) /\ InFlight(t)
  BY <1>2 DEF Busy, Steps, InFlight
<1>4. r \in Requests
  BY <1>1, <1>3, ThreadCases
<1>5. /\ At("raised", r) \in ThreadStates
      /\ At("raised", r).step = "raised" /\ At("raised", r).request = r
  BY <1>4, AtFields DEF Steps
<1>6. /\ threads' \in [Threads -> ThreadStates] /\ threads'[t] = At("raised", r)
      /\ \A u \in Threads \ {t} : threads'[u] = threads[u]
  BY <1>2, <1>5, MoveFacts
<1>7. \A u \in Threads : /\ threads'[u].request = threads[u].request
                         /\ InFlight(u)' => InFlight(u)
                         /\ Busy(u)' => Busy(u)
                         /\ threads'[u].step = "running" => threads[u].step = "running"
  BY <1>1, <1>3, <1>5, <1>6 DEF InFlight, Busy
<1>8. TypeOK'
  BY <1>2, <1>6 DEF TypeOK
<1>9. \A q : Granted(q) => Granted(q)'
  BY <1>2 DEF Granted, Exists
<1>10. GrantOK'
  BY <1>2, <1>7, <1>9 DEF GrantOK
<1>11. FlightOK' /\ CancelledNeverRuns'
  BY <1>2, <1>7 DEF FlightOK, Row0, SameIntent, CancelledNeverRuns
<1>12. CountOK'
  BY <1>2, <1>7 DEF CountOK
<1> QED BY <1>8, <1>10, <1>11, <1>12

\* The second transaction, after a failure or a success: the row is the handler's own,
\* and settling it frees the key.
LEMMA SettleStep ==
    ASSUME IInv, NEW t \in Threads, RecordFailure(t) \/ RecordSuccess(t)
    PROVE  IInv'
<1> USE DEF IInv
<1>1. PICK r : r = threads[t].request
  OBVIOUS
<1>2. PICK k : k = r.key
  OBVIOUS
<1>3. InFlight(t) /\ Busy(t)
  BY DEF RecordFailure, RecordSuccess, InFlight, Busy, Steps
<1>4. r \in Requests /\ k \in Keys
  <2>1. r \in Requests
    BY <1>1, <1>3, ThreadCases
  <2> QED BY <1>2, <2>1 DEF Requests
<1>5. /\ action_executions[k] \in Row /\ SameIntent(t) /\ action_executions[k].status = "started"
      /\ \A u \in Threads : InFlight(u) /\ threads[u].request.key = k => u = t
  BY <1>1, <1>2, <1>3, <1>4 DEF FlightOK, Row0, TypeOK
<1>6. PICK row \in Row :
        /\ row.action = action_executions[k].action
        /\ row.parameters = action_executions[k].parameters
        /\ row.status \in {"failed", "succeeded"}
        /\ action_executions' = [action_executions EXCEPT ![k] = row]
        /\ \/ failures' = [failures EXCEPT ![k] = @ + 1]
           \/ failures' = failures /\ row.status = "succeeded"
  <2>1. CASE RecordFailure(t)
    <3>1. FailedRow(action_executions[k]) \in Row
      BY <1>5 DEF FailedRow, Row
    <3>2. /\ FailedRow(action_executions[k]).action = action_executions[k].action
          /\ FailedRow(action_executions[k]).parameters = action_executions[k].parameters
          /\ FailedRow(action_executions[k]).status = "failed"
      BY <1>5 DEF FailedRow, Row
    <3> QED BY <1>1, <1>2, <1>5, <2>1, <3>1, <3>2, Zenon DEF RecordFailure
  <2>2. CASE RecordSuccess(t)
    <3>1. ASSUME NEW old \in Row, NEW b \in BOOLEAN
          PROVE  [old EXCEPT !.status = "succeeded", !.result = b] \in Row
      BY Zenon DEF Row
    <3>2. SucceededRow(action_executions[k]) \in Row
      BY <1>5, <3>1, Zenon DEF SucceededRow
    <3>3. /\ SucceededRow(action_executions[k]).action = action_executions[k].action
          /\ SucceededRow(action_executions[k]).parameters = action_executions[k].parameters
          /\ SucceededRow(action_executions[k]).status = "succeeded"
      BY <1>5 DEF SucceededRow, Row
    <3> QED BY <1>1, <1>2, <1>5, <2>2, <3>2, <3>3, Zenon DEF RecordSuccess
  <2> QED BY <2>1, <2>2
<1>7. /\ Move(t, Idle)
      /\ UNCHANGED <<approvals, action_cancellations, applied, executed>>
  BY DEF RecordFailure, RecordSuccess
<1>8. /\ threads' \in [Threads -> ThreadStates] /\ threads'[t] = Idle
      /\ \A u \in Threads \ {t} : threads'[u] = threads[u]
  BY <1>7, MoveFacts DEF ThreadStates
<1>9. /\ action_executions' \in [Keys -> Row \cup {NoRow}] /\ action_executions'[k] = row
      /\ \A j \in Keys \ {k} : action_executions'[j] = action_executions[j]
  BY <1>4, <1>6 DEF TypeOK
<1>10. /\ failures' \in [Keys -> Nat]
       /\ \A j \in Keys \ {k} : failures'[j] = failures[j]
       /\ failures'[k] = failures[k] + 1 \/ (failures'[k] = failures[k] /\ row.status = "succeeded")
  BY <1>4, <1>6 DEF TypeOK
<1>11. \A u \in Threads : /\ InFlight(u)' => u # t /\ InFlight(u) /\ threads[u].request.key # k
                          /\ InFlight(u)' => threads[u].request.key \in Keys
                          /\ Busy(u)' => u # t /\ Busy(u)
                          /\ threads'[u].step = "running" => InFlight(u)'
  <2>1. \A u \in Threads : /\ InFlight(u)' => u # t /\ InFlight(u)
                           /\ Busy(u)' => u # t /\ Busy(u)
                           /\ threads'[u].step = "running" => InFlight(u)'
    BY <1>8 DEF InFlight, Busy, Steps, Idle
  <2>2. \A u \in Threads : InFlight(u) => threads[u].request.key \in Keys
    BY ThreadCases DEF Requests
  <2> QED BY <1>5, <2>1, <2>2
<1>12. TypeOK'
  BY <1>7, <1>8, <1>9, <1>10 DEF TypeOK
<1>13. \A q : Granted(q) => Granted(q)'
  BY <1>7 DEF Granted, Exists
<1>14. GrantOK'
  BY <1>7, <1>8, <1>11, <1>13 DEF GrantOK
<1>15. FlightOK'
  BY <1>8, <1>9, <1>11 DEF FlightOK, Row0, SameIntent
<1>16. CancelledNeverRuns'
  <2>1. \A u \in Threads : InFlight(u)' => threads'[u].request.action \notin action_cancellations'
    BY <1>7, <1>8, <1>11 DEF CancelledNeverRuns
  <2>2. \A j \in Keys : action_executions'[j] # NoRow
                          /\ action_executions'[j].status \in {"started", "succeeded"} =>
                             action_executions'[j].action \notin action_cancellations'
    BY <1>4, <1>5, <1>6, <1>7, <1>9, NoRowAssumption DEF CancelledNeverRuns
  <2> QED BY <2>1, <2>2 DEF CancelledNeverRuns
<1>17. CountOK'
  <2> SUFFICES ASSUME NEW j \in Keys
               PROVE  /\ applied'[j] <= failures'[j] + 1
                      /\ action_executions'[j] = NoRow \/ action_executions'[j].status = "failed"
                           => applied'[j] <= failures'[j]
                      /\ \A u \in Threads : threads'[u].step = "running"
                                             /\ threads'[u].request.key = j
                                             => applied'[j] <= failures'[j]
    BY DEF CountOK
  <2>0. /\ applied[k] \in Nat /\ failures[k] \in Nat /\ applied[k] <= failures[k] + 1
    BY <1>4 DEF TypeOK, CountOK
  <2>1. CASE j = k
    BY <1>7, <1>6, <1>8, <1>9, <1>10, <1>11, <2>0, <2>1, NoRowAssumption
  <2>2. CASE j # k
    BY <1>7, <1>8, <1>9, <1>10, <1>11, <2>2 DEF CountOK
  <2> QED BY <2>1, <2>2
<1> QED BY <1>12, <1>14, <1>15, <1>16, <1>17

\* A cancellation finds no attempt of the action started or succeeded.
LEMMA CancelStep ==
    ASSUME IInv, NEW a \in Actions, Cancel(a)
    PROVE  IInv'
<1> USE DEF IInv
<1>1. /\ Cancellable(a)
      /\ action_cancellations' = action_cancellations \cup {a}
      /\ UNCHANGED <<approvals, action_executions, threads, applied, failures, executed, crashes>>
  BY DEF Cancel
<1>2. \A q : Granted(q) => Granted(q)'
  BY <1>1 DEF Granted, Exists
<1>3. TypeOK'
  BY <1>1 DEF TypeOK
<1>4. GrantOK' /\ FlightOK' /\ CountOK'
  BY <1>1, <1>2 DEF GrantOK, FlightOK, CountOK, Busy, InFlight, Row0, SameIntent
<1>5. ASSUME NEW t \in Threads, InFlight(t)
      PROVE  threads[t].request.action # a
  <2>1. threads[t].request.key \in Keys
    BY <1>5, ThreadCases DEF Requests
  <2> QED BY <1>1, <1>5, <2>1 DEF FlightOK, Row0, SameIntent, Cancellable
<1>6. CancelledNeverRuns'
  BY <1>1, <1>5 DEF CancelledNeverRuns, Cancellable, InFlight
<1> QED BY <1>3, <1>4, <1>6

\* Every step, a stuttering one included.
LEMMA NextIInv == IInv /\ [Next]_avars => IInv'
<1> SUFFICES ASSUME IInv, [Next]_avars PROVE IInv'
  OBVIOUS
<1>1. CASE UNCHANGED avars
  BY <1>1 DEF avars, evars, IInv, TypeOK, GrantOK, FlightOK, CancelledNeverRuns, CountOK, Granted,
              Exists, Busy, InFlight, Row0, SameIntent
<1>2. CASE \E t \in Threads, r \in [action : Actions, plan : Plans, risk : RiskInputs,
                key : Keys, parameters : Parameters, approval : Approvals \cup {NoRow}],
              now \in Times, sound \in BOOLEAN : Evaluate(t, r, now, sound)
  <2>1. [action : Actions, plan : Plans, risk : RiskInputs, key : Keys, parameters : Parameters,
         approval : Approvals \cup {NoRow}] \subseteq Requests
    BY ActionExecutionAssumption DEF Requests
  <2> QED BY <1>2, <2>1, EvaluateStep
<1>3. ASSUME NEW t \in Threads, Answer(t) \/ Crash(t) PROVE IInv'
  BY <1>3, LeaveStep DEF Answer, Crash
<1>4. ASSUME NEW t \in Threads, Settle(t) PROVE IInv'
  BY <1>4, ApplyStep, RaiseStep, SettleStep DEF Settle
<1> QED BY <1>1, <1>2, <1>3, <1>4, ApprovalStep, StartStep, CancelStep DEF Next

\* IInv holds in every reachable state.
THEOREM Invariance == Spec => []IInv
BY InitIInv, NextIInv, PTL DEF Spec

-----------------------------------------------------------------------------
\* Nothing of risk L2 or above reaches the adapter without a granted approval of its
\* plan, which stays granted.
THEOREM ExecutedApproved == Spec => []ExecutedWasApproved
<1>1. IInv => ExecutedWasApproved
  BY ActionExecutionAssumption DEF IInv, GrantOK, Granted, ExecutedWasApproved
<1> QED BY <1>1, Invariance, PTL

\* A cancelled action is not running, did not succeed and never will.
THEOREM CancellationHolds == Spec => []CancelledNeverRuns
<1>1. IInv => CancelledNeverRuns
  BY DEF IInv
<1> QED BY <1>1, Invariance, PTL

\* One application per attempt, and a new attempt only after a recorded failure.
THEOREM AppliedOnce == Spec => []AppliedOncePerAttempt
<1>1. IInv => AppliedOncePerAttempt
  BY DEF IInv, CountOK, AppliedOncePerAttempt
<1> QED BY <1>1, Invariance, PTL
=============================================================================
