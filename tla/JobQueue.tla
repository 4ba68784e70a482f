------------------------------ MODULE JobQueue ------------------------------
(***************************************************************************)
(* The durable job queue (packages/jobs/queue.py, table durable_jobs) and   *)
(* the workers that drain it (apps/worker/main.py).                         *)
(*                                                                         *)
(* A row is identified by its (tenant, idempotency key) pair, a member of   *)
(* Keys; a (kind, payload) pair is a member of Requests.  A queue method is *)
(* one database transaction, hence one action, except enqueue: its SELECT   *)
(* takes no lock, so another transaction may commit before its INSERT.      *)
(*                                                                         *)
(* Every timestamp is kept relative to now(), in seconds: the code only     *)
(* ever compares a timestamp with now() or with another timestamp.  A due   *)
(* time older than AgeCap seconds is not told apart from one AgeCap old.    *)
(*                                                                         *)
(* A recorded result or error is represented by the number of the attempt   *)
(* whose handler produced it.                                               *)
(*                                                                         *)
(* A definition named Mutant... is a plausible bug in the definition that   *)
(* follows it; no action uses it.  It shows that a property depends on what *)
(* the code does.                                                           *)
(***************************************************************************)
EXTENDS Integers, FiniteSets

CONSTANTS
    Keys,           \* (tenant_id, idempotency_key) pairs
    Requests,       \* (kind, payload) pairs
    Limits,         \* values of max_attempts callers ask for
    Callers,        \* API requests that call enqueue
    Workers,        \* worker processes, each with its own worker_id
    LeaseSeconds,   \* lease_seconds of claim and heartbeat
    AgeCap,         \* bound: the oldest due time told apart
    AttemptCap,     \* bound: claims of one job that are explored
    CrashCap,       \* bound: worker crashes that are explored
    Null            \* SQL NULL, "no row", "no job"

ASSUME JobQueueAssumption ==
    /\ Limits \subseteq Nat \ {0}
    /\ LeaseSeconds \in Nat /\ LeaseSeconds >= 5
    /\ AgeCap \in Nat /\ AttemptCap \in Nat /\ CrashCap \in Nat
    /\ Null \notin Keys \cup Workers \cup Int

VARIABLES
    durable_jobs,   \* the table: key -> row or Null
    lastId,         \* the bigserial sequence behind durable_jobs.id
    call,           \* caller -> its enqueue after the SELECT found no row
    reply,          \* caller -> what its last enqueue returned
    work,           \* worker -> phase of run_once and the job it holds
    crashes         \* worker crashes so far, up to CrashCap

vars == <<durable_jobs, lastId, call, reply, work, crashes>>

Statuses == {"pending", "running", "succeeded", "dead_letter"}
Phases == {"idle", "handling", "completing", "failing", "stopped"}

Row == [id : Nat, request : Requests, status : Statuses, attempt : Nat,
        max_attempts : Limits, available_in : Int, leased_by : Workers \cup {Null},
        lease_in : Nat \cup {Null}, result : Nat \cup {Null}, last_error : Nat \cup {Null}]

Call == [key : Keys, request : Requests, limit : Limits]
Reply == [key : Keys, request : Requests, id : Nat]
Work == [phase : Phases, key : Keys \cup {Null}, attempt : Nat, limit : Limits \cup {Null}]

Abstract == [status : Statuses, attempt : Nat, limit : Limits]

ASSUME NullAssumption == Null \notin Row \cup Call \cup Reply \cup Abstract

Jobs == {k \in Keys : durable_jobs[k] # Null}
Busy(w) == work[w].phase \in {"handling", "completing", "failing"}
Terminal(row) == row.status \in {"succeeded", "dead_letter"}
At(phase) == [phase |-> phase, key |-> Null, attempt |-> 0, limit |-> Null]

Init ==
    /\ durable_jobs = [k \in Keys |-> Null]
    /\ lastId = 0
    /\ call = [c \in Callers |-> Null]
    /\ reply = [c \in Callers |-> Null]
    /\ work = [w \in Workers |-> At("idle")]
    /\ crashes = 0

-----------------------------------------------------------------------------
\* enqueue

\* The SELECT: a row with the same request answers with its id, a row with
\* another request raises ValueError, no row goes on to the INSERT.
EnqueueSelect(c, k, r, n) ==
    /\ call[c] = Null
    /\ IF k \in Jobs
       THEN /\ reply' = [reply EXCEPT ![c] =
                            IF durable_jobs[k].request = r
                            THEN [key |-> k, request |-> r, id |-> durable_jobs[k].id]
                            ELSE Null]
            /\ UNCHANGED call
       ELSE /\ call' = [call EXCEPT ![c] = [key |-> k, request |-> r, limit |-> n]]
            /\ reply' = [reply EXCEPT ![c] = Null]
    /\ UNCHANGED <<durable_jobs, lastId, work, crashes>>

NewRow(id, r, n) ==
    [id |-> id, request |-> r, status |-> "pending", attempt |-> 0, max_attempts |-> n,
     available_in |-> 0, leased_by |-> Null, lease_in |-> Null, result |-> Null,
     last_error |-> Null]

\* UNIQUE (tenant_id, idempotency_key)
MutantNoUniqueIndex(k) == FALSE
UniqueViolation(k) == k \in Jobs

\* The INSERT: the unique index on (tenant_id, idempotency_key) refuses it when
\* another enqueue committed first, and the caller gets the database error.
\* The sequence hands out an id either way.
EnqueueInsert(c) ==
    /\ call[c] # Null
    /\ lastId' = lastId + 1
    /\ call' = [call EXCEPT ![c] = Null]
    /\ LET k == call[c].key
           r == call[c].request
       IN IF UniqueViolation(k)
          THEN UNCHANGED <<durable_jobs, reply>>
          ELSE /\ durable_jobs' = [durable_jobs EXCEPT ![k] = NewRow(lastId', r, call[c].limit)]
               /\ reply' = [reply EXCEPT ![c] = [key |-> k, request |-> r, id |-> lastId']]
    /\ UNCHANGED <<work, crashes>>

\* The API process dies or loses its connection inside the transaction.
EnqueueAbort(c) ==
    /\ call[c] # Null
    /\ call' = [call EXCEPT ![c] = Null]
    /\ UNCHANGED <<durable_jobs, lastId, reply, work, crashes>>

-----------------------------------------------------------------------------
\* The worker: Worker.run_once, one action per transaction and per handler exit

MutantNoReclaim(row) == row.status = "pending" /\ row.available_in <= 0
MutantSwappedDueTime(row) ==
    \/ row.status = "pending" /\ row.available_in > 0
    \/ row.status = "running" /\ row.lease_in <= 0
Claimable(row) ==
    \/ row.status = "pending" /\ row.available_in <= 0
    \/ row.status = "running" /\ row.lease_in <= 0

Candidates ==
    {k \in Jobs : Claimable(durable_jobs[k]) /\ durable_jobs[k].attempt < AttemptCap}

\* ORDER BY available_at, id
Before(row, other) ==
    \/ row.available_in < other.available_in
    \/ row.available_in = other.available_in /\ row.id < other.id

MutantClaimKeepsAttempt(row, w) ==
    [row EXCEPT !.status = "running", !.leased_by = w, !.lease_in = LeaseSeconds]
ClaimRow(row, w) ==
    [row EXCEPT !.status = "running", !.attempt = @ + 1, !.leased_by = w,
                !.lease_in = LeaseSeconds]

Claim(w) ==
    /\ work[w].phase = "idle"
    /\ \E k \in Candidates :
         /\ \A other \in Candidates \ {k} : Before(durable_jobs[k], durable_jobs[other])
         /\ durable_jobs' = [durable_jobs EXCEPT ![k] = ClaimRow(@, w)]
         /\ work' = [work EXCEPT ![w] =
                       [phase |-> "handling", key |-> k,
                        attempt |-> durable_jobs[k].attempt + 1,
                        limit |-> durable_jobs[k].max_attempts]]
    /\ UNCHANGED <<lastId, call, reply, crashes>>

\* The handler returns a result, or raises (an unknown kind raises as well).
HandlerExit(w, phase) ==
    /\ work[w].phase = "handling"
    /\ work' = [work EXCEPT ![w].phase = phase]
    /\ UNCHANGED <<durable_jobs, lastId, call, reply, crashes>>

HandlerReturns(w) == HandlerExit(w, "completing")
HandlerRaises(w) == HandlerExit(w, "failing")

\* WHERE id = job.id AND status = 'running' AND leased_by = worker_id
MutantHoldsRunning(w) == durable_jobs[work[w].key].status = "running"
MutantHoldsById(w) == TRUE
Holds(w) ==
    /\ durable_jobs[work[w].key].status = "running"
    /\ durable_jobs[work[w].key].leased_by = w

Heartbeat(w) ==
    /\ work[w].phase = "handling"
    /\ Holds(w)
    /\ durable_jobs' = [durable_jobs EXCEPT ![work[w].key].lease_in = LeaseSeconds]
    /\ UNCHANGED <<lastId, call, reply, work, crashes>>

SucceedRow(row, attempt) ==
    [row EXCEPT !.status = "succeeded", !.result = attempt, !.leased_by = Null,
                !.lease_in = Null]

\* min(300, 2 ** min(attempt, 8)): the cap of 300 is never reached.
Backoff == <<2, 4, 8, 16, 32, 64, 128, 256>>
Delay(attempt) == IF attempt < 8 THEN Backoff[attempt] ELSE Backoff[8]

MutantFailKeepsLease(row, attempt, limit) ==
    [row EXCEPT !.status = IF attempt >= limit THEN "dead_letter" ELSE "pending",
                !.last_error = attempt, !.available_in = Delay(attempt)]
MutantFailOffByOne(row, attempt, limit) ==
    [row EXCEPT !.status = IF attempt > limit THEN "dead_letter" ELSE "pending",
                !.last_error = attempt, !.available_in = Delay(attempt),
                !.leased_by = Null, !.lease_in = Null]
FailRow(row, attempt, limit) ==
    [row EXCEPT !.status = IF attempt >= limit THEN "dead_letter" ELSE "pending",
                !.last_error = attempt, !.available_in = Delay(attempt),
                !.leased_by = Null, !.lease_in = Null]

\* The table after the guarded UPDATE of succeed, and of fail: no row of the
\* table matches once the lease was lost.
Succeeded(w) ==
    IF Holds(w) THEN [durable_jobs EXCEPT ![work[w].key] = SucceedRow(@, work[w].attempt)]
    ELSE durable_jobs

Failed(w) ==
    IF Holds(w) THEN [durable_jobs EXCEPT ![work[w].key] =
                        FailRow(@, work[w].attempt, work[w].limit)]
    ELSE durable_jobs

\* queue.succeed: the lost lease raises RuntimeError, which the except clause of
\* run_once answers with queue.fail.
Succeed(w) ==
    /\ work[w].phase = "completing"
    /\ durable_jobs' = Succeeded(w)
    /\ work' = [work EXCEPT ![w] = IF Holds(w) THEN At("idle")
                                   ELSE [@ EXCEPT !.phase = "failing"]]
    /\ UNCHANGED <<lastId, call, reply, crashes>>

\* The connection breaks during succeed, before or after the commit.
SucceedDisconnects(w) ==
    /\ work[w].phase = "completing"
    /\ crashes < CrashCap
    /\ durable_jobs' \in {durable_jobs, Succeeded(w)}
    /\ work' = [work EXCEPT ![w].phase = "failing"]
    /\ crashes' = crashes + 1
    /\ UNCHANGED <<lastId, call, reply>>

\* queue.fail: an exception of fail itself leaves run_once and ends main().
Fail(w) ==
    /\ work[w].phase = "failing"
    /\ durable_jobs' = Failed(w)
    /\ work' = [work EXCEPT ![w] = At(IF Holds(w) THEN "idle" ELSE "stopped")]
    /\ UNCHANGED <<lastId, call, reply, crashes>>

FailDisconnects(w) ==
    /\ work[w].phase = "failing"
    /\ crashes < CrashCap
    /\ durable_jobs' \in {durable_jobs, Failed(w)}
    /\ work' = [work EXCEPT ![w] = At("stopped")]
    /\ crashes' = crashes + 1
    /\ UNCHANGED <<lastId, call, reply>>

\* The process is killed in any phase: its local state is gone, its lease stays.
Crash(w) ==
    /\ work[w].phase # "stopped"
    /\ crashes < CrashCap
    /\ work' = [work EXCEPT ![w] = At("stopped")]
    /\ crashes' = crashes + 1
    /\ UNCHANGED <<durable_jobs, lastId, call, reply>>

\* The supervisor starts the process again with the worker_id it had.
Restart(w) ==
    /\ work[w].phase = "stopped"
    /\ work' = [work EXCEPT ![w] = At("idle")]
    /\ UNCHANGED <<durable_jobs, lastId, call, reply, crashes>>

-----------------------------------------------------------------------------
\* One second passes.

Aged(row) ==
    [row EXCEPT !.available_in = IF @ > 0 - AgeCap THEN @ - 1 ELSE @,
                !.lease_in = IF @ # Null /\ @ > 0 THEN @ - 1 ELSE @]

Tick ==
    /\ durable_jobs' = [k \in Keys |-> IF durable_jobs[k] = Null THEN Null
                                       ELSE Aged(durable_jobs[k])]
    /\ UNCHANGED <<lastId, call, reply, work, crashes>>

Enqueue(c) ==
    \/ \E k \in Keys, r \in Requests, n \in Limits : EnqueueSelect(c, k, r, n)
    \/ EnqueueInsert(c)
    \/ EnqueueAbort(c)

RunOnce(w) ==
    \/ Claim(w) \/ HandlerReturns(w) \/ HandlerRaises(w) \/ Succeed(w) \/ Fail(w)

Next ==
    \/ \E c \in Callers : Enqueue(c)
    \/ \E w \in Workers : RunOnce(w) \/ Heartbeat(w) \/ Restart(w)
    \/ \E w \in Workers : SucceedDisconnects(w) \/ FailDisconnects(w) \/ Crash(w)
    \/ Tick

Spec == Init /\ [][Next]_vars

\* Time passes; a live worker polls and its handlers return or raise; the
\* supervisor restarts a worker that stopped.
Fairness ==
    /\ WF_vars(Tick)
    /\ \A w \in Workers : WF_vars(RunOnce(w)) /\ WF_vars(Restart(w))

FairSpec == Spec /\ Fairness
-----------------------------------------------------------------------------
\* Properties

\* Type invariant: rows, pending enqueues, replies and worker states are well formed,
\* and a row carries a holder and a lease exactly while it is running.
TypeOK ==
    /\ durable_jobs \in [Keys -> Row \cup {Null}]
    /\ \A k \in Jobs : /\ durable_jobs[k].status = "running" <=> durable_jobs[k].leased_by # Null
                       /\ durable_jobs[k].status = "running" <=> durable_jobs[k].lease_in # Null
    /\ lastId \in Nat
    /\ call \in [Callers -> Call \cup {Null}]
    /\ reply \in [Callers -> Reply \cup {Null}]
    /\ work \in [Workers -> Work]
    /\ crashes \in 0..CrashCap

\* Fencing by leased_by: a worker that still matches the row it claimed works on
\* the row's current attempt, whatever leases lapsed, workers crashed or came back
\* under the same worker_id in between.  This is what lets succeed and fail get by
\* with WHERE leased_by = worker_id and no attempt number.
AttemptFenced ==
    \A w \in Workers :
        Busy(w) /\ Holds(w) => /\ work[w].attempt = durable_jobs[work[w].key].attempt
                               /\ work[w].limit = durable_jobs[work[w].key].max_attempts

\* The recorded outcome of a settled job is that of its last attempt, and no job is
\* dead-lettered while it has attempts left: a worker that lost its lease never
\* records its result or its error over a newer attempt.
OutcomeOfLastAttempt ==
    \A k \in Jobs :
        LET row == durable_jobs[k]
        IN /\ row.status = "succeeded" => row.result = row.attempt
           /\ row.status = "dead_letter" => /\ row.last_error = row.attempt
                                            /\ row.attempt >= row.max_attempts

\* Idempotent enqueue: whoever was given an id for a key was given the id of the one
\* row of that key, and that row carries the request they asked for; this holds for
\* enqueues that raced between the SELECT and the INSERT too.
EnqueueIdempotent ==
    \A c \in Callers :
        reply[c] # Null =>
            /\ reply[c].key \in Jobs
            /\ durable_jobs[reply[c].key].id = reply[c].id
            /\ durable_jobs[reply[c].key].request = reply[c].request

\* A job that reached succeeded or dead_letter keeps its status, attempt, result and
\* error: no late worker, retried succeed or reclaim reopens it.
SettledIsFinal ==
    [][\A k \in Jobs :
         Terminal(durable_jobs[k]) =>
            /\ durable_jobs'[k].status = durable_jobs[k].status
            /\ durable_jobs'[k].attempt = durable_jobs[k].attempt
            /\ durable_jobs'[k].result = durable_jobs[k].result
            /\ durable_jobs'[k].last_error = durable_jobs[k].last_error]_vars

Running(k, n) ==
    k \in Jobs /\ durable_jobs[k].status = "running" /\ durable_jobs[k].attempt = n

Waiting(k) ==
    k \in Jobs /\ durable_jobs[k].status = "pending" /\ durable_jobs[k].attempt < AttemptCap

\* Lease recovery: no attempt runs for ever.  When its worker crashed, hung on a
\* lost lease or lost the acknowledgement, the job is settled, put back or taken
\* over by a new attempt (attempts up to AttemptCap are explored).
NoAttemptIsStuck ==
    \A k \in Keys : \A n \in 1 .. AttemptCap - 1 : Running(k, n) ~> ~Running(k, n)

\* No starvation: a job waiting for its first attempt or its backoff is eventually
\* claimed, whatever other jobs are retried meanwhile.
PendingIsClaimed == \A k \in Keys : Waiting(k) ~> ~Waiting(k)

\* A row without its holder, lease, timers, request and outcome.
View(row) ==
    IF row = Null THEN Null
    ELSE [status |-> row.status, attempt |-> row.attempt, limit |-> row.max_attempts]

views == [k \in Keys |-> View(durable_jobs[k])]

Lifecycle == INSTANCE JobLifecycle WITH Absent <- Null, job <- views

\* The queue implements the job lifecycle: hiding workers, leases and time, every
\* step of the system is a submission, an attempt, a completion, a retry below the
\* limit, a burial at the limit, or nothing.
ImplementsLifecycle == Lifecycle!Spec

\* max_attempts as a bound: no job is attempted more than max_attempts times.
AttemptsWithinLimit ==
    \A k \in Jobs : durable_jobs[k].attempt <= durable_jobs[k].max_attempts
=============================================================================
