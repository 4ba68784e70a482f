--------------------------- MODULE ApiOperations ---------------------------
(***************************************************************************)
(* Request idempotency of stateful API operations on PostgreSQL             *)
(* (packages/persistence/operations.py, table api_operations), driven by    *)
(* audited_operation of apps/api/main.py: the callback runs the operation's *)
(* effect, then appends the audit record.                                   *)
(*                                                                         *)
(* A request is one HTTP call: a (tenant, idempotency key) pair, an intent  *)
(* (operation and digest) and the thread that serves it.  Each transaction  *)
(* of execute_once is one action.  The lease is a flag: only whether it has *)
(* run out is ever tested, and the callback may take any time.              *)
(*                                                                         *)
(* A response is represented by the request whose effect it reports.  The   *)
(* effect of a key in Keyed is itself deduplicated by the idempotency key   *)
(* (JobQueue.enqueue, store.put): a repetition reports the first effect.    *)
(***************************************************************************)
EXTENDS Naturals, FiniteSets

CONSTANTS
    Requests,   \* HTTP calls
    Keys,       \* (tenant_id, idempotency_key) pairs
    Keyed,      \* keys whose effect is deduplicated by the same key
    Intents,    \* (operation, intent digest) pairs
    None        \* no row, no response

ASSUME ApiOperationsAssumption ==
    /\ Keyed \subseteq Keys
    /\ None \notin Requests

VARIABLES
    request,        \* the key and the intent each call carries
    phase,          \* where the thread that serves the call is
    result,         \* the response the call's callback computed
    reply,          \* the response the call was answered with
    api_operations, \* the table: key -> row or None
    effects,        \* key -> the calls whose effect was applied
    audited,        \* key -> the calls that appended an audit record
    overdue,        \* calls in flight when the lease of their key ran out
    owner,          \* key -> the call that last wrote 'started'
    spoiled         \* keys where a call recorded a failure over another's row

vars == <<request, phase, result, reply, api_operations, effects, audited,
          overdue, owner, spoiled>>

Row == [intent : Intents, status : {"started", "succeeded", "failed"},
        lease_active : BOOLEAN, response : Requests \cup {None}]

ASSUME NoneIsNoRow == None \notin Row

InFlight(p) == phase[p] \in {"effect", "audit", "completing", "failing"}
Key(p) == request[p].key
Operation(p) == api_operations[Key(p)]

Init ==
    /\ request \in [Requests -> [key : Keys, intent : Intents]]
    /\ phase = [p \in Requests |-> "new"]
    /\ result = [p \in Requests |-> None]
    /\ reply = [p \in Requests |-> None]
    /\ api_operations = [k \in Keys |-> None]
    /\ effects = [k \in Keys |-> {}]
    /\ audited = [k \in Keys |-> {}]
    /\ overdue = {}
    /\ owner = [k \in Keys |-> None]
    /\ spoiled = {}

To(p, ph) == phase' = [phase EXCEPT ![p] = ph]

-----------------------------------------------------------------------------
\* execute_once, first transaction.  Without a row the SELECT locks nothing and two
\* INSERTs may meet on the primary key: the loser gets an error, as if it had read
\* the winner's row.

Conflict(p) == Operation(p).intent # request[p].intent

\* The early exits: another intent, or an attempt whose lease has not run out.
MutantRefuseNothingActive(p) == Operation(p) # None /\ Conflict(p)
Refused(p) ==
    /\ Operation(p) # None
    /\ \/ Conflict(p)
       \/ Operation(p).status = "started" /\ Operation(p).lease_active

MutantReplayAnyIntent(p) == Operation(p) # None /\ Operation(p).status = "succeeded"
Replayable(p) ==
    Operation(p) # None /\ ~Conflict(p) /\ Operation(p).status = "succeeded"

Refuse(p) ==
    /\ phase[p] = "new"
    /\ Refused(p) /\ ~Replayable(p)
    /\ To(p, "error")
    /\ UNCHANGED <<request, result, reply, api_operations, effects, audited, overdue, owner, spoiled>>

Replay(p) ==
    /\ phase[p] = "new"
    /\ Replayable(p)
    /\ reply' = [reply EXCEPT ![p] = Operation(p).response]
    /\ To(p, "answered")
    /\ UNCHANGED <<request, result, api_operations, effects, audited, overdue, owner, spoiled>>

\* INSERT, or UPDATE of a failed row or of one whose lease ran out.
Start(p) ==
    /\ phase[p] = "new"
    /\ ~Refused(p) /\ ~Replayable(p)
    /\ api_operations' = [api_operations EXCEPT ![Key(p)] =
                            [intent |-> request[p].intent, status |-> "started",
                             lease_active |-> TRUE, response |-> None]]
    /\ owner' = [owner EXCEPT ![Key(p)] = p]
    /\ To(p, "effect")
    /\ UNCHANGED <<request, result, reply, effects, audited, overdue, spoiled>>

-----------------------------------------------------------------------------
\* The callback of audited_operation: the effect, then the audit record

\* A keyed effect that was applied before is not applied again, and is reported.
Applied(p) ==
    IF Key(p) \in Keyed /\ effects[Key(p)] # {} THEN effects[Key(p)]
    ELSE effects[Key(p)] \cup {p}

Effect(p) ==
    /\ phase[p] = "effect"
    /\ effects' = [effects EXCEPT ![Key(p)] = Applied(p)]
    /\ result' = [result EXCEPT ![p] =
                    IF Key(p) \in Keyed THEN CHOOSE q \in Applied(p) : TRUE ELSE p]
    /\ To(p, "audit")
    /\ UNCHANGED <<request, reply, api_operations, audited, overdue, owner, spoiled>>

Audit(p) ==
    /\ phase[p] = "audit"
    /\ audited' = [audited EXCEPT ![Key(p)] = @ \cup {p}]
    /\ To(p, "completing")
    /\ UNCHANGED <<request, result, reply, api_operations, effects, overdue, owner, spoiled>>

\* The effect raises before it applied anything, or the audit append raises.
CallbackRaises(p) ==
    /\ phase[p] \in {"effect", "audit"}
    /\ To(p, "failing")
    /\ UNCHANGED <<request, result, reply, api_operations, effects, audited, overdue, owner, spoiled>>

-----------------------------------------------------------------------------
\* execute_once, last transaction

\* UPDATE ... SET status = 'failed' WHERE intent_hash = digest: neither the status
\* nor the attempt is compared.
RecordFailure(p) ==
    /\ phase[p] = "failing"
    /\ api_operations' = [api_operations EXCEPT ![Key(p)].status = "failed"]
    /\ spoiled' = IF Operation(p).status = "started" /\ owner[Key(p)] = p THEN spoiled
                  ELSE spoiled \cup {Key(p)}
    /\ To(p, "error")
    /\ UNCHANGED <<request, result, reply, effects, audited, overdue, owner>>

\* UPDATE ... SET status = 'succeeded' WHERE intent_hash = digest AND status = 'started'
MutantCompletesAnyStatus(p) == TRUE
Completes(p) == Operation(p).status = "started"

SucceededRow(row, r) == [row EXCEPT !.status = "succeeded", !.response = r]

\* The caller gets the result, or never hears of the commit.
RecordSuccess(p) ==
    /\ phase[p] = "completing"
    /\ Completes(p)
    /\ api_operations' = [api_operations EXCEPT ![Key(p)] = SucceededRow(@, result[p])]
    /\ \/ To(p, "answered") /\ reply' = [reply EXCEPT ![p] = result[p]]
       \/ To(p, "dead") /\ UNCHANGED reply
    /\ UNCHANGED <<request, result, effects, audited, overdue, owner, spoiled>>

\* RuntimeError: "API operation lease was lost before completion".
LeaseLost(p) ==
    /\ phase[p] = "completing"
    /\ ~Completes(p)
    /\ To(p, "error")
    /\ UNCHANGED <<request, result, reply, api_operations, effects, audited, overdue, owner, spoiled>>

-----------------------------------------------------------------------------
\* The process serving the call dies, or cannot reach the database any more.
Crash(p) ==
    /\ InFlight(p)
    /\ To(p, "dead")
    /\ UNCHANGED <<request, result, reply, api_operations, effects, audited, overdue, owner, spoiled>>

\* now() passes lease_expires_at.
LeaseRunsOut(k) ==
    /\ api_operations[k] # None
    /\ api_operations[k].status = "started" /\ api_operations[k].lease_active
    /\ api_operations' = [api_operations EXCEPT ![k].lease_active = FALSE]
    /\ overdue' = overdue \cup {p \in Requests : InFlight(p) /\ Key(p) = k}
    /\ UNCHANGED <<request, phase, result, reply, effects, audited, owner, spoiled>>

Serve(p) ==
    \/ Refuse(p) \/ Replay(p) \/ Start(p)
    \/ Effect(p) \/ Audit(p) \/ CallbackRaises(p)
    \/ RecordFailure(p) \/ RecordSuccess(p) \/ LeaseLost(p)

Next ==
    \/ \E p \in Requests : Serve(p) \/ Crash(p)
    \/ \E k \in Keys : LeaseRunsOut(k)

Spec == Init /\ [][Next]_vars

-----------------------------------------------------------------------------
\* Properties

\* Every answer, fresh or replayed, reports an effect that was really applied for a
\* call with the same key and the same intent, and was audited at least once.
AnswersAreBacked ==
    \A p \in Requests :
        reply[p] # None => /\ reply[p] \in effects[Key(p)]
                           /\ request[reply[p]] = request[p]
                           /\ audited[Key(p)] # {}

\* The lease excludes concurrent execution: of two calls executing the same key, one
\* has outlived its lease, unless a call recorded its failure over another's attempt.
LeaseExcludes ==
    \A p, q \in Requests :
        /\ p # q /\ InFlight(p) /\ InFlight(q) /\ Key(p) = Key(q)
        /\ Key(p) \notin spoiled
        => p \in overdue \/ q \in overdue

\* All answers to one key report the same effect: for a keyed effect whatever happens,
\* for any other effect unless a failure was recorded over another call's attempt.
AnswersAgree ==
    \A p, q \in Requests :
        /\ Key(p) = Key(q) /\ reply[p] # None /\ reply[q] # None
        /\ Key(p) \in Keyed \/ Key(p) \notin spoiled
        => reply[p] = reply[q]

\* A retry never answers differently from the call it repeats.
RetriesAgree ==
    \A p, q \in Requests :
        Key(p) = Key(q) /\ reply[p] # None /\ reply[q] # None => reply[p] = reply[q]
=============================================================================
