--------------------------- MODULE JobQueueProofs ---------------------------
(***************************************************************************)
(* Proofs about JobQueue for every set of keys, workers and callers, every  *)
(* lease length and every bound.                                            *)
(***************************************************************************)
EXTENDS JobQueue, TLAPS

\* A busy worker remembers a job that exists and the number of an attempt that was
\* started: what makes a lost lease the only way to miss in succeed and fail.
BusyOK ==
    \A w \in Workers :
        Busy(w) => /\ work[w].key \in Jobs
                   /\ work[w].attempt \in Nat \ {0}
                   /\ work[w].limit \in Limits

\* The inductive invariant.
IInv ==
    /\ TypeOK
    /\ BusyOK
    /\ AttemptFenced
    /\ OutcomeOfLastAttempt
    /\ EnqueueIdempotent

\* The retry delay of fail is a number of seconds, for every attempt number.
LEMMA DelayType == ASSUME NEW a \in Nat \ {0} PROVE Delay(a) \in Nat
BY DEF Delay, Backoff

\* The row claim writes: the next attempt, held by the claiming worker.
LEMMA ClaimRowFields ==
    ASSUME NEW row \in Row, NEW w \in Workers
    PROVE  /\ ClaimRow(row, w) \in Row
           /\ ClaimRow(row, w).id = row.id
           /\ ClaimRow(row, w).request = row.request
           /\ ClaimRow(row, w).max_attempts = row.max_attempts
           /\ ClaimRow(row, w).status = "running"
           /\ ClaimRow(row, w).leased_by = w
           /\ ClaimRow(row, w).lease_in = LeaseSeconds
           /\ ClaimRow(row, w).attempt = row.attempt + 1
<1> DEFINE a == row.attempt + 1
<1>1. a \in Nat
  BY DEF Row
<1>2. ClaimRow(row, w) = [row EXCEPT !.status = "running", !.attempt = a, !.leased_by = w,
                                     !.lease_in = LeaseSeconds]
  BY DEF ClaimRow
<1> HIDE DEF a
<1>3. ClaimRow(row, w) \in Row
  BY <1>1, <1>2, JobQueueAssumption, Zenon DEF Row, Statuses
<1>4. ClaimRow(row, w).attempt = a
  BY <1>2 DEF Row
<1>5. /\ ClaimRow(row, w).id = row.id
      /\ ClaimRow(row, w).request = row.request
      /\ ClaimRow(row, w).max_attempts = row.max_attempts
      /\ ClaimRow(row, w).status = "running"
      /\ ClaimRow(row, w).leased_by = w
      /\ ClaimRow(row, w).lease_in = LeaseSeconds
  BY <1>2 DEF Row
<1> QED BY <1>3, <1>4, <1>5 DEF a

\* The row succeed writes.
LEMMA SucceedRowFields ==
    ASSUME NEW row \in Row, NEW a \in Nat
    PROVE  /\ SucceedRow(row, a) \in Row
           /\ SucceedRow(row, a).id = row.id
           /\ SucceedRow(row, a).request = row.request
           /\ SucceedRow(row, a).max_attempts = row.max_attempts
           /\ SucceedRow(row, a).status = "succeeded"
           /\ SucceedRow(row, a).leased_by = Null
           /\ SucceedRow(row, a).lease_in = Null
           /\ SucceedRow(row, a).attempt = row.attempt
           /\ SucceedRow(row, a).result = a
BY Zenon DEF SucceedRow, Row, Statuses

\* The row fail writes: buried at the limit, put back below it.
LEMMA FailRowFields ==
    ASSUME NEW row \in Row, NEW a \in Nat \ {0}, NEW n \in Limits
    PROVE  /\ FailRow(row, a, n) \in Row
           /\ FailRow(row, a, n).id = row.id
           /\ FailRow(row, a, n).request = row.request
           /\ FailRow(row, a, n).max_attempts = row.max_attempts
           /\ FailRow(row, a, n).leased_by = Null
           /\ FailRow(row, a, n).lease_in = Null
           /\ FailRow(row, a, n).attempt = row.attempt
           /\ FailRow(row, a, n).last_error = a
           /\ a >= n => FailRow(row, a, n).status = "dead_letter"
           /\ ~(a >= n) => FailRow(row, a, n).status = "pending"
<1> DEFINE d == Delay(a)
           s == IF a >= n THEN "dead_letter" ELSE "pending"
<1>0. d \in Int
  BY DelayType
<1>1. s \in Statuses
  BY DEF Statuses
<1>2. FailRow(row, a, n) = [row EXCEPT !.status = s, !.last_error = a, !.available_in = d,
                                       !.leased_by = Null, !.lease_in = Null]
  BY DEF FailRow
<1>3. a >= n => s = "dead_letter"
  OBVIOUS
<1>4. ~(a >= n) => s = "pending"
  OBVIOUS
<1> HIDE DEF d, s
<1>5. FailRow(row, a, n) \in Row
  <2>1. ASSUME NEW e \in Nat, NEW t \in Statuses, NEW x \in Int
        PROVE  [row EXCEPT !.status = t, !.last_error = e, !.available_in = x,
                           !.leased_by = Null, !.lease_in = Null] \in Row
    BY Zenon DEF Row
  <2>2. a \in Nat
    OBVIOUS
  <2>3. [row EXCEPT !.status = s, !.last_error = a, !.available_in = d,
                    !.leased_by = Null, !.lease_in = Null] \in Row
    BY <1>0, <1>1, <2>1, <2>2, Zenon
  <2> QED BY <1>2, <2>3, Zenon
<1>6. /\ FailRow(row, a, n).id = row.id
      /\ FailRow(row, a, n).request = row.request
      /\ FailRow(row, a, n).max_attempts = row.max_attempts
      /\ FailRow(row, a, n).leased_by = Null
      /\ FailRow(row, a, n).lease_in = Null
      /\ FailRow(row, a, n).attempt = row.attempt
      /\ FailRow(row, a, n).last_error = a
      /\ FailRow(row, a, n).status = s
  BY <1>2 DEF Row
<1> QED BY <1>3, <1>4, <1>5, <1>6

\* The row after a second: only its two timers moved.
LEMMA AgedFields ==
    ASSUME NEW row \in Row
    PROVE  /\ Aged(row) \in Row
           /\ Aged(row).lease_in = Null <=> row.lease_in = Null
           /\ \A f \in {"id", "request", "max_attempts", "status", "leased_by",
                        "attempt", "result", "last_error"} : Aged(row)[f] = row[f]
<1> DEFINE v == IF row.available_in > 0 - AgeCap THEN row.available_in - 1 ELSE row.available_in
           t == IF row.lease_in # Null /\ row.lease_in > 0 THEN row.lease_in - 1 ELSE row.lease_in
<1>1. v \in Int
  BY JobQueueAssumption DEF Row
<1>2. t \in Nat \cup {Null} /\ (t = Null <=> row.lease_in = Null)
  <2>1. CASE row.lease_in = Null
    BY <2>1
  <2>2. CASE row.lease_in \in Nat
    BY <2>2, JobQueueAssumption
  <2> QED BY <2>1, <2>2 DEF Row
<1>3. Aged(row) = [row EXCEPT !.available_in = v, !.lease_in = t]
  BY DEF Aged
<1> HIDE DEF v, t
<1>4. Aged(row) \in Row
  BY <1>1, <1>2, <1>3, Zenon DEF Row
<1>5. Aged(row).lease_in = t
  BY <1>3 DEF Row
<1>6. \A f \in {"id", "request", "max_attempts", "status", "leased_by",
                "attempt", "result", "last_error"} : Aged(row)[f] = row[f]
  BY <1>3, Zenon DEF Row
<1> QED BY <1>2, <1>4, <1>5, <1>6

\* The initial state satisfies the invariant.
LEMMA InitIInv == Init => IInv
BY JobQueueAssumption DEF Init, IInv, TypeOK, BusyOK, AttemptFenced, OutcomeOfLastAttempt,
   EnqueueIdempotent, Jobs, Busy, Holds, At, Work, Phases

\* The invariant depends on the rows only through their existence and these fields:
\* a step that rewrites one existing row and keeps id, request and limit keeps the
\* replies valid.
LEMMA RewriteKeepsReplies ==
    ASSUME TypeOK, EnqueueIdempotent, NEW k \in Jobs, NEW r \in Row,
           durable_jobs' = [durable_jobs EXCEPT ![k] = r], reply' = reply,
           r.id = durable_jobs[k].id, r.request = durable_jobs[k].request
    PROVE  /\ durable_jobs' \in [Keys -> Row \cup {Null}]
           /\ Jobs' = Jobs
           /\ EnqueueIdempotent'
<1>1. durable_jobs' \in [Keys -> Row \cup {Null}]
  BY Zenon DEF TypeOK
<1>2. Jobs' = Jobs
  BY NullAssumption DEF TypeOK, Jobs
<1>3. EnqueueIdempotent'
  BY <1>2 DEF EnqueueIdempotent, TypeOK, Jobs
<1> QED BY <1>1, <1>2, <1>3

\* enqueue preserves the invariant.
LEMMA EnqueueIInv ==
    ASSUME IInv, NEW c \in Callers, Enqueue(c)
    PROVE  IInv'
<1> USE DEF IInv
<1>1. ASSUME NEW k \in Keys, NEW r \in Requests, NEW n \in Limits, EnqueueSelect(c, k, r, n)
      PROVE  IInv'
  <2>1. UNCHANGED <<durable_jobs, lastId, work, crashes>>
    BY <1>1 DEF EnqueueSelect
  <2>2. /\ call' \in [Callers -> Call \cup {Null}]
        /\ reply' \in [Callers -> Reply \cup {Null}]
    <3>1. CASE k \in Jobs
      <4>1. durable_jobs[k].id \in Nat
        BY <3>1 DEF Jobs, TypeOK, Row
      <4>2. [key |-> k, request |-> r, id |-> durable_jobs[k].id] \in Reply
        BY <4>1 DEF Reply
      <4> QED BY <1>1, <3>1, <4>2 DEF EnqueueSelect, TypeOK
    <3>2. CASE k \notin Jobs
      <4>1. [key |-> k, request |-> r, limit |-> n] \in Call
        BY DEF Call
      <4> QED BY <1>1, <3>2, <4>1 DEF EnqueueSelect, TypeOK
    <3> QED BY <3>1, <3>2
  <2>3. TypeOK' /\ BusyOK' /\ AttemptFenced' /\ OutcomeOfLastAttempt'
    BY <2>1, <2>2 DEF TypeOK, BusyOK, AttemptFenced, OutcomeOfLastAttempt, Jobs, Busy, Holds
  <2>4. EnqueueIdempotent'
    <3>1. ASSUME NEW d \in Callers, reply'[d] # Null
          PROVE  /\ reply'[d].key \in Jobs
                 /\ durable_jobs[reply'[d].key].id = reply'[d].id
                 /\ durable_jobs[reply'[d].key].request = reply'[d].request
      <4>1. CASE d # c
        BY <1>1, <3>1, <4>1 DEF EnqueueSelect, TypeOK, EnqueueIdempotent
      <4>2. CASE d = c
        BY <1>1, <3>1, <4>2 DEF EnqueueSelect, TypeOK, EnqueueIdempotent
      <4> QED BY <4>1, <4>2
    <3> QED BY <2>1, <3>1 DEF EnqueueIdempotent, Jobs
  <2> QED BY <2>3, <2>4
<1>2. CASE EnqueueInsert(c)
  <2> DEFINE k == call[c].key
             r == call[c].request
             n == call[c].limit
             new == NewRow(lastId', r, n)
  <2>1. k \in Keys /\ r \in Requests /\ n \in Limits
    BY <1>2 DEF EnqueueInsert, TypeOK, Call
  <2>2. lastId' \in Nat /\ work' = work /\ crashes' = crashes
    BY <1>2 DEF EnqueueInsert, TypeOK
  <2>3. call' \in [Callers -> Call \cup {Null}]
    BY <1>2 DEF EnqueueInsert, TypeOK
  <2>4. CASE k \in Jobs
    <3>1. durable_jobs' = durable_jobs /\ reply' = reply
      BY <1>2, <2>4 DEF EnqueueInsert, UniqueViolation
    <3> QED BY <2>2, <2>3, <3>1 DEF TypeOK, BusyOK, AttemptFenced, OutcomeOfLastAttempt,
              EnqueueIdempotent, Jobs, Busy, Holds
  <2>5. CASE k \notin Jobs
    <3>1. new \in Row
      BY <2>1, <2>2 DEF NewRow, Row, Statuses
    <3>2. /\ new.id = lastId' /\ new.request = r /\ new.status = "pending"
          /\ new.leased_by = Null /\ new.lease_in = Null
      BY DEF NewRow
    <3>3. /\ durable_jobs' = [durable_jobs EXCEPT ![k] = new]
          /\ reply' = [reply EXCEPT ![c] = [key |-> k, request |-> r, id |-> lastId']]
      BY <1>2, <2>5 DEF EnqueueInsert, UniqueViolation
    <3> HIDE DEF new, k, r, n
    <3>4. /\ durable_jobs' \in [Keys -> Row \cup {Null}]
          /\ durable_jobs'[k] = new
          /\ \A j \in Keys \ {k} : durable_jobs'[j] = durable_jobs[j]
      BY <2>1, <3>1, <3>3 DEF TypeOK
    <3>5. Jobs' = Jobs \cup {k}
      BY <2>1, <3>1, <3>4, NullAssumption DEF Jobs
    <3>6. [key |-> k, request |-> r, id |-> lastId'] \in Reply
      BY <2>1, <2>2 DEF Reply
    <3>7. reply' \in [Callers -> Reply \cup {Null}]
      BY <3>3, <3>6 DEF TypeOK
    <3>8. TypeOK'
      BY <2>2, <2>3, <3>2, <3>4, <3>5, <3>7, <2>5 DEF TypeOK, Jobs
    <3>9. BusyOK'
      BY <2>2, <3>5 DEF BusyOK, Busy
    <3>10. AttemptFenced'
      <4> SUFFICES ASSUME NEW w \in Workers, Busy(w)', Holds(w)'
                   PROVE  /\ work'[w].attempt = durable_jobs'[work'[w].key].attempt
                          /\ work'[w].limit = durable_jobs'[work'[w].key].max_attempts
        BY DEF AttemptFenced
      <4>1. Busy(w) /\ work'[w] = work[w]
        BY <2>2 DEF Busy
      <4>2. work[w].key \in Jobs
        BY <4>1 DEF BusyOK
      <4>3. durable_jobs'[work[w].key] = durable_jobs[work[w].key]
        BY <4>2, <3>4, <2>5 DEF Jobs
      <4>4. Holds(w)
        BY <4>1, <4>3 DEF Holds
      <4> QED BY <4>1, <4>3, <4>4 DEF AttemptFenced
    <3>11. OutcomeOfLastAttempt'
      BY <3>2, <3>4, <3>5, <2>5 DEF OutcomeOfLastAttempt, Jobs
    <3>12. EnqueueIdempotent'
      <4> SUFFICES ASSUME NEW d \in Callers, reply'[d] # Null
                   PROVE  /\ reply'[d].key \in Jobs'
                          /\ durable_jobs'[reply'[d].key].id = reply'[d].id
                          /\ durable_jobs'[reply'[d].key].request = reply'[d].request
        BY DEF EnqueueIdempotent
      <4>1. CASE d = c
        BY <4>1, <3>2, <3>3, <3>4, <3>5 DEF TypeOK
      <4>2. CASE d # c
        BY <4>2, <3>3, <3>4, <3>5, <2>5 DEF TypeOK, EnqueueIdempotent, Jobs
      <4> QED BY <4>1, <4>2
    <3> QED BY <3>8, <3>9, <3>10, <3>11, <3>12
  <2> QED BY <2>4, <2>5
<1>3. CASE EnqueueAbort(c)
  BY <1>3 DEF EnqueueAbort, TypeOK, BusyOK, AttemptFenced, OutcomeOfLastAttempt,
     EnqueueIdempotent, Jobs, Busy, Holds
<1> QED BY <1>1, <1>2, <1>3 DEF Enqueue

\* A claim preserves the invariant: the claimed row names only the claimer, so a
\* worker that held the row before no longer matches it.
LEMMA ClaimIInv ==
    ASSUME IInv, NEW w \in Workers, Claim(w)
    PROVE  IInv'
<1> USE DEF IInv
<1>1. PICK k \in Candidates :
        /\ durable_jobs' = [durable_jobs EXCEPT ![k] = ClaimRow(@, w)]
        /\ work' = [work EXCEPT ![w] = [phase |-> "handling", key |-> k,
                                        attempt |-> durable_jobs[k].attempt + 1,
                                        limit |-> durable_jobs[k].max_attempts]]
  BY Zenon DEF Claim
<1> DEFINE row == durable_jobs[k]
           new == ClaimRow(row, w)
           mine == [phase |-> "handling", key |-> k, attempt |-> row.attempt + 1,
                    limit |-> row.max_attempts]
<1>2. k \in Jobs /\ k \in Keys /\ row \in Row
  BY DEF Candidates, Jobs, TypeOK
<1>3. /\ new \in Row /\ new.id = row.id /\ new.request = row.request
      /\ new.max_attempts = row.max_attempts /\ new.status = "running"
      /\ new.leased_by = w /\ new.lease_in = LeaseSeconds /\ new.attempt = row.attempt + 1
  BY <1>2, ClaimRowFields
<1>4. row.attempt + 1 \in Nat \ {0} /\ row.max_attempts \in Limits
  BY <1>2 DEF Row
<1>5. mine \in Work
  BY <1>2, <1>4 DEF Work, Phases
<1>6. durable_jobs' = [durable_jobs EXCEPT ![k] = new] /\ work' = [work EXCEPT ![w] = mine]
  BY <1>1
<1>7. UNCHANGED <<lastId, call, reply, crashes>>
  BY DEF Claim
<1>8. mine.phase = "handling" /\ mine.key = k /\ mine.attempt = new.attempt
      /\ mine.limit = new.max_attempts
  BY <1>3
<1>9. mine.attempt \in Nat \ {0} /\ mine.limit \in Limits
  BY <1>4
<1> HIDE DEF row, new, mine
<1>10. /\ durable_jobs' \in [Keys -> Row \cup {Null}]
       /\ Jobs' = Jobs
       /\ EnqueueIdempotent'
  BY <1>2, <1>3, <1>6, <1>7, RewriteKeepsReplies, Zenon DEF row
<1>11. /\ durable_jobs'[k] = new
       /\ \A j \in Keys \ {k} : durable_jobs'[j] = durable_jobs[j]
       /\ work'[w] = mine
       /\ \A v \in Workers \ {w} : work'[v] = work[v]
  BY <1>2, <1>6 DEF TypeOK
<1>12. TypeOK'
  <2>1. new.leased_by # Null /\ new.lease_in # Null
    BY <1>3, JobQueueAssumption
  <2>2. work' \in [Workers -> Work]
    BY <1>5, <1>6 DEF TypeOK
  <2> QED BY <1>3, <1>7, <1>10, <1>11, <2>1, <2>2 DEF TypeOK, Jobs
<1>13. BusyOK'
  <2> SUFFICES ASSUME NEW v \in Workers, Busy(v)'
               PROVE  /\ work'[v].key \in Jobs
                      /\ work'[v].attempt \in Nat \ {0}
                      /\ work'[v].limit \in Limits
    BY <1>10 DEF BusyOK
  <2>1. CASE v = w
    BY <2>1, <1>2, <1>8, <1>9, <1>11
  <2>2. CASE v # w
    BY <2>2, <1>11 DEF BusyOK, Busy
  <2> QED BY <2>1, <2>2
<1>14. AttemptFenced'
  <2> SUFFICES ASSUME NEW v \in Workers, Busy(v)', Holds(v)'
               PROVE  /\ work'[v].attempt = durable_jobs'[work'[v].key].attempt
                      /\ work'[v].limit = durable_jobs'[work'[v].key].max_attempts
    BY DEF AttemptFenced
  <2>1. CASE v = w
    BY <2>1, <1>8, <1>11
  <2>2. CASE v # w
    <3>1. work'[v] = work[v] /\ Busy(v)
      BY <2>2, <1>11 DEF Busy
    <3>2. work[v].key # k
      BY <2>2, <3>1, <1>3, <1>11 DEF Holds
    <3>3. durable_jobs'[work[v].key] = durable_jobs[work[v].key]
      BY <3>1, <3>2, <1>11 DEF BusyOK, Jobs
    <3>4. Holds(v)
      BY <3>1, <3>3 DEF Holds
    <3> QED BY <3>1, <3>3, <3>4 DEF AttemptFenced
  <2> QED BY <2>1, <2>2
<1>15. OutcomeOfLastAttempt'
  BY <1>3, <1>10, <1>11 DEF OutcomeOfLastAttempt, Jobs
<1> QED BY <1>10, <1>12, <1>13, <1>14, <1>15

\* succeed and fail preserve the invariant, whether the UPDATE matched, missed or
\* was lost with its connection: the row they write names no holder, and records the
\* outcome of the attempt it carries because of AttemptFenced.
LEMMA SettleIInv ==
    ASSUME IInv, NEW w \in Workers, Busy(w),
           durable_jobs' \in {durable_jobs, Succeeded(w), Failed(w)},
           NEW mine \in {At("idle"), At("stopped"), [work[w] EXCEPT !.phase = "failing"]},
           work' = [work EXCEPT ![w] = mine],
           UNCHANGED <<lastId, call, reply>>, crashes' \in 0 .. CrashCap
    PROVE  IInv'
<1> USE DEF IInv
<1> DEFINE k == work[w].key
           row == durable_jobs[k]
<1>1. /\ k \in Jobs /\ k \in Keys /\ row \in Row
      /\ work[w].attempt \in Nat \ {0} /\ work[w].limit \in Limits
  BY DEF BusyOK, Jobs, TypeOK
<1>2. /\ mine \in Work
      /\ mine.phase \in {"handling", "completing", "failing"} =>
            mine.key = k /\ mine.attempt = work[w].attempt /\ mine.limit = work[w].limit
  BY DEF At, Work, Phases, TypeOK
<1>3. /\ work' \in [Workers -> Work]
      /\ work'[w] = mine
      /\ \A v \in Workers \ {w} : work'[v] = work[v]
  BY <1>2 DEF TypeOK
<1>4. \A v \in Workers : Busy(v)' => /\ Busy(v)
                                     /\ work'[v].key = work[v].key
                                     /\ work'[v].attempt = work[v].attempt
                                     /\ work'[v].limit = work[v].limit
  BY <1>2, <1>3 DEF Busy
<1>5. CASE durable_jobs' = durable_jobs
  <2>1. Jobs' = Jobs
    BY <1>5 DEF Jobs
  <2>2. TypeOK' /\ OutcomeOfLastAttempt' /\ EnqueueIdempotent'
    BY <1>3, <1>5, <2>1 DEF TypeOK, OutcomeOfLastAttempt, EnqueueIdempotent
  <2>3. BusyOK'
    BY <1>4, <2>1 DEF BusyOK
  <2>4. AttemptFenced'
    BY <1>4, <1>5 DEF AttemptFenced, Holds
  <2> QED BY <2>2, <2>3, <2>4
<1>6. CASE durable_jobs' # durable_jobs
  <2>1. Holds(w)
    BY <1>6 DEF Succeeded, Failed
  <2>2. work[w].attempt = row.attempt /\ work[w].limit = row.max_attempts
    BY <2>1 DEF AttemptFenced
  <2>3. PICK new \in Row :
          /\ durable_jobs' = [durable_jobs EXCEPT ![k] = new]
          /\ new.id = row.id /\ new.request = row.request
          /\ new.max_attempts = row.max_attempts
          /\ new.leased_by = Null /\ new.lease_in = Null
          /\ new.attempt = row.attempt
          /\ \/ new.status = "succeeded" /\ new.result = work[w].attempt
             \/ /\ new.status = "dead_letter" /\ new.last_error = work[w].attempt
                /\ work[w].attempt >= work[w].limit
             \/ new.status = "pending"
    <3>1. CASE durable_jobs' = Succeeded(w)
      <4>1. SucceedRow(row, work[w].attempt) \in Row
        BY <1>1, SucceedRowFields
      <4> WITNESS SucceedRow(row, work[w].attempt) \in Row
      <4> QED BY <1>1, <2>1, <3>1, SucceedRowFields DEF Succeeded
    <3>2. CASE durable_jobs' = Failed(w)
      <4>1. FailRow(row, work[w].attempt, work[w].limit) \in Row
        BY <1>1, FailRowFields
      <4> WITNESS FailRow(row, work[w].attempt, work[w].limit) \in Row
      <4> QED BY <1>1, <2>1, <3>2, FailRowFields DEF Failed
    <3> QED BY <1>6, <3>1, <3>2
  <2> HIDE DEF row, k
  <2>4. /\ durable_jobs' \in [Keys -> Row \cup {Null}]
        /\ Jobs' = Jobs
        /\ EnqueueIdempotent'
    BY <1>1, <2>3, RewriteKeepsReplies, Zenon DEF row
  <2>5. /\ durable_jobs'[k] = new
        /\ \A j \in Keys \ {k} : durable_jobs'[j] = durable_jobs[j]
    BY <1>1, <2>3 DEF TypeOK
  <2>6. TypeOK'
    BY <1>3, <2>3, <2>4, <2>5 DEF TypeOK, Jobs
  <2>7. BusyOK'
    BY <1>4, <2>4 DEF BusyOK
  <2>8. AttemptFenced'
    <3> SUFFICES ASSUME NEW v \in Workers, Busy(v)', Holds(v)'
                 PROVE  /\ work'[v].attempt = durable_jobs'[work'[v].key].attempt
                        /\ work'[v].limit = durable_jobs'[work'[v].key].max_attempts
      BY DEF AttemptFenced
    <3>1. work'[v].key # k
      BY <2>3, <2>5, JobQueueAssumption DEF Holds
    <3>2. durable_jobs'[work[v].key] = durable_jobs[work[v].key]
      BY <1>4, <2>5, <3>1 DEF BusyOK, Jobs
    <3>3. Holds(v)
      BY <1>4, <3>2 DEF Holds
    <3> QED BY <1>4, <3>2, <3>3 DEF AttemptFenced
  <2>9. OutcomeOfLastAttempt'
    BY <1>1, <2>2, <2>3, <2>4, <2>5 DEF OutcomeOfLastAttempt, Jobs
  <2> QED BY <2>4, <2>6, <2>7, <2>8, <2>9
<1> QED BY <1>5, <1>6

\* The steps of a worker that leave the table alone preserve the invariant.
LEMMA LocalIInv ==
    ASSUME IInv, NEW w \in Workers,
           HandlerReturns(w) \/ HandlerRaises(w) \/ Crash(w) \/ Restart(w)
    PROVE  IInv'
<1> USE DEF IInv
<1>1. UNCHANGED <<durable_jobs, lastId, call, reply>>
  BY DEF HandlerReturns, HandlerRaises, HandlerExit, Crash, Restart
<1>2. PICK mine \in Work :
        /\ work' = [work EXCEPT ![w] = mine]
        /\ mine.phase \in {"handling", "completing", "failing"} =>
              /\ Busy(w)
              /\ mine.key = work[w].key
              /\ mine.attempt = work[w].attempt
              /\ mine.limit = work[w].limit
  <2>1. CASE HandlerReturns(w)
    <3>1. [work[w] EXCEPT !.phase = "completing"] \in Work
      BY DEF TypeOK, Work, Phases
    <3> QED BY <2>1, <3>1, Zenon DEF HandlerReturns, HandlerExit, TypeOK, Work, Busy
  <2>2. CASE HandlerRaises(w)
    <3>1. [work[w] EXCEPT !.phase = "failing"] \in Work
      BY DEF TypeOK, Work, Phases
    <3> QED BY <2>2, <3>1, Zenon DEF HandlerRaises, HandlerExit, TypeOK, Work, Busy
  <2>3. CASE Crash(w) \/ Restart(w)
    <3>1. At("stopped") \in Work /\ At("idle") \in Work
      BY DEF At, Work, Phases
    <3> QED BY <2>3, <3>1 DEF Crash, Restart, At
  <2> QED BY <2>1, <2>2, <2>3
<1>3. /\ work' \in [Workers -> Work]
      /\ work'[w] = mine
      /\ \A v \in Workers \ {w} : work'[v] = work[v]
  BY <1>2 DEF TypeOK
<1>4. \A v \in Workers : Busy(v)' => /\ Busy(v)
                                     /\ work'[v].key = work[v].key
                                     /\ work'[v].attempt = work[v].attempt
                                     /\ work'[v].limit = work[v].limit
  BY <1>2, <1>3 DEF Busy
<1>5. crashes' \in 0 .. CrashCap
  BY JobQueueAssumption DEF HandlerReturns, HandlerRaises, HandlerExit, Crash, Restart, TypeOK
<1>6. Jobs' = Jobs
  BY <1>1 DEF Jobs
<1>7. TypeOK' /\ OutcomeOfLastAttempt' /\ EnqueueIdempotent'
  BY <1>1, <1>3, <1>5, <1>6 DEF TypeOK, OutcomeOfLastAttempt, EnqueueIdempotent
<1>8. BusyOK'
  BY <1>4, <1>6 DEF BusyOK
<1>9. AttemptFenced'
  BY <1>1, <1>4 DEF AttemptFenced, Holds
<1> QED BY <1>7, <1>8, <1>9

\* A heartbeat preserves the invariant: it renews the lease and nothing else.
LEMMA HeartbeatIInv ==
    ASSUME IInv, NEW w \in Workers, Heartbeat(w)
    PROVE  IInv'
<1> USE DEF IInv
<1> DEFINE k == work[w].key
           row == durable_jobs[k]
           new == [row EXCEPT !.lease_in = LeaseSeconds]
<1>1. k \in Jobs /\ k \in Keys /\ row \in Row
  BY DEF Heartbeat, BusyOK, Busy, Jobs, TypeOK
<1>2. new \in Row
  BY <1>1, JobQueueAssumption DEF Row
<1>3. /\ new.id = row.id /\ new.request = row.request /\ new.status = row.status
      /\ new.leased_by = row.leased_by /\ new.attempt = row.attempt
      /\ new.max_attempts = row.max_attempts /\ new.result = row.result
      /\ new.last_error = row.last_error /\ new.lease_in = LeaseSeconds
  BY <1>1 DEF Row
<1>4. durable_jobs' = [durable_jobs EXCEPT ![k] = new]
  BY DEF Heartbeat
<1>5. UNCHANGED <<lastId, call, reply, work, crashes>> /\ row.status = "running"
  BY DEF Heartbeat, Holds
<1> HIDE DEF new, row, k
<1>6. /\ durable_jobs' \in [Keys -> Row \cup {Null}]
      /\ Jobs' = Jobs
      /\ EnqueueIdempotent'
  BY <1>1, <1>2, <1>3, <1>4, <1>5, RewriteKeepsReplies, Zenon DEF row
<1>7. /\ durable_jobs'[k] = new
      /\ \A j \in Keys \ {k} : durable_jobs'[j] = durable_jobs[j]
  BY <1>1, <1>4 DEF TypeOK
<1>8. TypeOK'
  BY <1>1, <1>3, <1>5, <1>6, <1>7, JobQueueAssumption DEF TypeOK, Jobs, row
<1>9. BusyOK'
  BY <1>5, <1>6 DEF BusyOK, Busy
<1>10. AttemptFenced'
  BY <1>3, <1>5, <1>7 DEF AttemptFenced, Holds, Busy, BusyOK, Jobs, row
<1>11. OutcomeOfLastAttempt'
  BY <1>3, <1>6, <1>7 DEF OutcomeOfLastAttempt, Jobs, row
<1> QED BY <1>6, <1>8, <1>9, <1>10, <1>11

\* The passage of a second preserves the invariant.
LEMMA TickIInv ==
    ASSUME IInv, Tick
    PROVE  IInv'
<1> USE DEF IInv
<1>1. UNCHANGED <<lastId, call, reply, work, crashes>>
  BY DEF Tick
<1>2. durable_jobs' \in [Keys -> Row \cup {Null}]
  BY AgedFields DEF Tick, TypeOK
<1>3. Jobs' = Jobs
  BY AgedFields, NullAssumption DEF Tick, TypeOK, Jobs
<1>4. ASSUME NEW k \in Jobs
      PROVE  /\ durable_jobs'[k].lease_in = Null <=> durable_jobs[k].lease_in = Null
             /\ durable_jobs'[k].id = durable_jobs[k].id
             /\ durable_jobs'[k].request = durable_jobs[k].request
             /\ durable_jobs'[k].status = durable_jobs[k].status
             /\ durable_jobs'[k].attempt = durable_jobs[k].attempt
             /\ durable_jobs'[k].max_attempts = durable_jobs[k].max_attempts
             /\ durable_jobs'[k].leased_by = durable_jobs[k].leased_by
             /\ durable_jobs'[k].result = durable_jobs[k].result
             /\ durable_jobs'[k].last_error = durable_jobs[k].last_error
  <2>1. durable_jobs[k] \in Row /\ durable_jobs'[k] = Aged(durable_jobs[k])
    BY <1>4 DEF Tick, TypeOK, Jobs
  <2> QED BY <2>1, AgedFields
<1>5. TypeOK'
  BY <1>1, <1>2, <1>3, <1>4 DEF TypeOK
<1>6. BusyOK'
  BY <1>1, <1>3 DEF BusyOK, Busy
<1>7. AttemptFenced'
  BY <1>1, <1>4 DEF AttemptFenced, Holds, Busy, BusyOK
<1>8. OutcomeOfLastAttempt'
  BY <1>3, <1>4 DEF OutcomeOfLastAttempt
<1>9. EnqueueIdempotent'
  BY <1>1, <1>3, <1>4 DEF EnqueueIdempotent
<1> QED BY <1>5, <1>6, <1>7, <1>8, <1>9

\* Every step preserves the invariant.
LEMMA NextIInv ==
    ASSUME IInv, [Next]_vars
    PROVE  IInv'
<1>1. ASSUME NEW c \in Callers, Enqueue(c) PROVE IInv'
  BY <1>1, EnqueueIInv
<1>2. ASSUME NEW w \in Workers, Claim(w) PROVE IInv'
  BY <1>2, ClaimIInv
<1>3. ASSUME NEW w \in Workers,
             HandlerReturns(w) \/ HandlerRaises(w) \/ Crash(w) \/ Restart(w)
      PROVE  IInv'
  BY <1>3, LocalIInv
<1>4. ASSUME NEW w \in Workers, Succeed(w) \/ SucceedDisconnects(w)
      PROVE  IInv'
  <2> DEFINE lost == [work[w] EXCEPT !.phase = "failing"]
  <2>1. Busy(w)
    BY <1>4 DEF Succeed, SucceedDisconnects, Busy
  <2>2. PICK mine \in {At("idle"), At("stopped"), lost} : work' = [work EXCEPT ![w] = mine]
    BY <1>4 DEF Succeed, SucceedDisconnects
  <2>3. durable_jobs' \in {durable_jobs, Succeeded(w), Failed(w)}
    BY <1>4 DEF Succeed, SucceedDisconnects
  <2>4. UNCHANGED <<lastId, call, reply>> /\ crashes' \in 0 .. CrashCap
    BY <1>4, JobQueueAssumption DEF Succeed, SucceedDisconnects, IInv, TypeOK
  <2> QED BY <2>1, <2>2, <2>3, <2>4, SettleIInv, Zenon
<1>5. ASSUME NEW w \in Workers, Fail(w) \/ FailDisconnects(w)
      PROVE  IInv'
  <2> DEFINE lost == [work[w] EXCEPT !.phase = "failing"]
  <2>1. Busy(w)
    BY <1>5 DEF Fail, FailDisconnects, Busy
  <2>2. PICK mine \in {At("idle"), At("stopped"), lost} : work' = [work EXCEPT ![w] = mine]
    BY <1>5 DEF Fail, FailDisconnects
  <2>3. durable_jobs' \in {durable_jobs, Succeeded(w), Failed(w)}
    BY <1>5 DEF Fail, FailDisconnects
  <2>4. UNCHANGED <<lastId, call, reply>> /\ crashes' \in 0 .. CrashCap
    BY <1>5, JobQueueAssumption DEF Fail, FailDisconnects, IInv, TypeOK
  <2> QED BY <2>1, <2>2, <2>3, <2>4, SettleIInv, Zenon
<1>6. ASSUME NEW w \in Workers, Heartbeat(w) PROVE IInv'
  BY <1>6, HeartbeatIInv
<1>7. CASE Tick
  BY <1>7, TickIInv
<1>8. CASE UNCHANGED vars
  BY <1>8 DEF vars, IInv, TypeOK, BusyOK, AttemptFenced, OutcomeOfLastAttempt,
     EnqueueIdempotent, Jobs, Busy, Holds
<1> QED BY <1>1, <1>2, <1>3, <1>4, <1>5, <1>6, <1>7, <1>8 DEF Next, RunOnce

\* The inductive invariant holds in every reachable state.
THEOREM Invariance == Spec => []IInv
BY InitIInv, NextIInv, PTL DEF Spec

\* Type correctness: in every reachable state a row carries a holder and a lease
\* exactly while it is running.
THEOREM TypeCorrect == Spec => []TypeOK
BY Invariance, PTL DEF IInv

\* Fencing: a worker whose UPDATE would match works on the row's current attempt.
THEOREM Fencing == Spec => []AttemptFenced
BY Invariance, PTL DEF IInv

\* The recorded outcome is that of the last attempt; a dead letter used up its limit.
THEOREM OutcomeCorrect == Spec => []OutcomeOfLastAttempt
BY Invariance, PTL DEF IInv

\* Idempotent enqueue, for any number of racing callers.
THEOREM EnqueueCorrect == Spec => []EnqueueIdempotent
BY Invariance, PTL DEF IInv

\* What one step can do to one existing row: leave its lifecycle fields alone, start
\* the next attempt of an unsettled job, or settle or put back a running one.  Each
\* alternative is a step of JobLifecycle.
RowStep(k) ==
    LET row == durable_jobs[k]
        new == durable_jobs'[k]
    IN \/ /\ new.status = row.status /\ new.attempt = row.attempt
          /\ new.result = row.result /\ new.last_error = row.last_error
       \/ /\ row.status \in {"pending", "running"} /\ new.status = "running"
          /\ new.attempt = row.attempt + 1
       \/ row.status = "running" /\ new.status = "succeeded" /\ new.attempt = row.attempt
       \/ /\ row.status = "running" /\ new.status = "pending" /\ new.attempt = row.attempt
          /\ row.attempt < row.max_attempts
       \/ /\ row.status = "running" /\ new.status = "dead_letter" /\ new.attempt = row.attempt
          /\ row.attempt >= row.max_attempts

\* What one step can do to the table: nothing, a new pending row under a free key,
\* a rewrite of one existing row by RowStep, or the ageing of all of them.
TableStep ==
    \/ durable_jobs' = durable_jobs
    \/ \E k \in Keys \ Jobs, new \in Row :
         /\ durable_jobs' = [durable_jobs EXCEPT ![k] = new]
         /\ new.status = "pending" /\ new.attempt = 0
    \/ \E k \in Jobs, new \in Row :
         /\ durable_jobs' = [durable_jobs EXCEPT ![k] = new]
         /\ new.max_attempts = durable_jobs[k].max_attempts
         /\ RowStep(k)
    \/ /\ DOMAIN durable_jobs' = Keys
       /\ \A k \in Keys \ Jobs : durable_jobs'[k] = Null
       /\ \A k \in Jobs :
            /\ durable_jobs'[k] \in Row
            /\ durable_jobs'[k].status = durable_jobs[k].status
            /\ durable_jobs'[k].attempt = durable_jobs[k].attempt
            /\ durable_jobs'[k].max_attempts = durable_jobs[k].max_attempts
            /\ durable_jobs'[k].result = durable_jobs[k].result
            /\ durable_jobs'[k].last_error = durable_jobs[k].last_error

\* succeed and fail move the row as the lifecycle says: the burial and the retry
\* compare the attempt the worker remembers, which AttemptFenced makes the row's.
LEMMA SettleTable ==
    ASSUME IInv, NEW w \in Workers, Busy(w),
           durable_jobs' \in {durable_jobs, Succeeded(w), Failed(w)}
    PROVE  TableStep
<1> USE DEF IInv
<1> DEFINE k == work[w].key
           row == durable_jobs[k]
           a == work[w].attempt
           n == work[w].limit
<1>1. k \in Jobs /\ row \in Row /\ a \in Nat \ {0} /\ n \in Limits
  BY DEF BusyOK, Jobs, TypeOK
<1>2. CASE durable_jobs' = durable_jobs
  BY <1>2 DEF TableStep
<1>3. CASE durable_jobs' # durable_jobs
  <2>1. Holds(w)
    BY <1>3 DEF Succeeded, Failed
  <2>2. a = row.attempt /\ n = row.max_attempts /\ row.status = "running"
    BY <2>1 DEF AttemptFenced, Holds
  <2>3. CASE durable_jobs' = Succeeded(w)
    <3> DEFINE new == SucceedRow(row, a)
    <3>1. /\ new \in Row /\ new.max_attempts = row.max_attempts
          /\ new.status = "succeeded" /\ new.attempt = row.attempt
      BY <1>1, SucceedRowFields
    <3>2. durable_jobs' = [durable_jobs EXCEPT ![k] = new]
      BY <2>1, <2>3 DEF Succeeded
    <3>3. durable_jobs'[k] = new
      BY <1>1, <3>2 DEF TypeOK, Jobs
    <3> HIDE DEF new
    <3>4. RowStep(k)
      BY <2>2, <3>1, <3>3 DEF RowStep
    <3> QED BY <1>1, <3>1, <3>2, <3>4, Zenon DEF TableStep
  <2>4. CASE durable_jobs' = Failed(w)
    <3> DEFINE new == FailRow(row, a, n)
    <3>1. /\ new \in Row /\ new.max_attempts = row.max_attempts
          /\ new.attempt = row.attempt
          /\ a >= n => new.status = "dead_letter"
          /\ ~(a >= n) => new.status = "pending"
      BY <1>1, FailRowFields
    <3>2. durable_jobs' = [durable_jobs EXCEPT ![k] = new]
      BY <2>1, <2>4 DEF Failed
    <3>3. durable_jobs'[k] = new
      BY <1>1, <3>2 DEF TypeOK, Jobs
    <3>4. a >= n \/ a < n
      BY <1>1, JobQueueAssumption
    <3> HIDE DEF new
    <3>5. RowStep(k)
      BY <1>1, <2>2, <3>1, <3>3, <3>4, JobQueueAssumption DEF RowStep
    <3> QED BY <1>1, <3>1, <3>2, <3>5, Zenon DEF TableStep
  <2> QED BY <1>3, <2>3, <2>4
<1> QED BY <1>2, <1>3

\* Every step of the system moves the table as TableStep says.
LEMMA NextTable ==
    ASSUME IInv, [Next]_vars
    PROVE  TableStep
<1> USE DEF IInv
<1>1. ASSUME NEW c \in Callers, Enqueue(c) PROVE TableStep
  <2>1. CASE EnqueueInsert(c) /\ call[c].key \notin Jobs
    <3> DEFINE k == call[c].key
               new == NewRow(lastId', call[c].request, call[c].limit)
    <3>1. /\ k \in Keys \ Jobs /\ call[c].request \in Requests /\ call[c].limit \in Limits
          /\ lastId' \in Nat
      BY <2>1 DEF EnqueueInsert, TypeOK, Call
    <3>2. new \in Row
      BY <3>1 DEF NewRow, Row, Statuses
    <3>3. new.status = "pending" /\ new.attempt = 0
      BY DEF NewRow
    <3>4. durable_jobs' = [durable_jobs EXCEPT ![k] = new]
      BY <2>1 DEF EnqueueInsert, UniqueViolation
    <3> HIDE DEF k, new
    <3> QED BY <3>1, <3>2, <3>3, <3>4, Zenon DEF TableStep
  <2>2. CASE ~(EnqueueInsert(c) /\ call[c].key \notin Jobs)
    <3>1. durable_jobs' = durable_jobs
      BY <1>1, <2>2 DEF Enqueue, EnqueueSelect, EnqueueInsert, EnqueueAbort, UniqueViolation
    <3> QED BY <3>1 DEF TableStep
  <2> QED BY <2>1, <2>2
<1>2. ASSUME NEW w \in Workers, Claim(w) PROVE TableStep
  <2>1. PICK k \in Candidates : durable_jobs' = [durable_jobs EXCEPT ![k] = ClaimRow(@, w)]
    BY <1>2, Zenon DEF Claim
  <2> DEFINE row == durable_jobs[k]
             new == ClaimRow(row, w)
  <2>2. k \in Jobs /\ row \in Row /\ row.status \in {"pending", "running"}
    BY DEF Candidates, Claimable, Jobs, TypeOK
  <2>3. /\ new \in Row /\ new.max_attempts = row.max_attempts
        /\ new.status = "running" /\ new.attempt = row.attempt + 1
    BY <2>2, ClaimRowFields
  <2>4. durable_jobs' = [durable_jobs EXCEPT ![k] = new]
    BY <2>1
  <2>5. durable_jobs'[k] = new
    BY <2>2, <2>4 DEF TypeOK, Jobs
  <2> HIDE DEF new
  <2>6. RowStep(k)
    BY <2>2, <2>3, <2>5 DEF RowStep
  <2> QED BY <2>2, <2>3, <2>4, <2>6, Zenon DEF TableStep
<1>3. ASSUME NEW w \in Workers,
             HandlerReturns(w) \/ HandlerRaises(w) \/ Crash(w) \/ Restart(w)
      PROVE  TableStep
  BY <1>3 DEF HandlerReturns, HandlerRaises, HandlerExit, Crash, Restart, TableStep
<1>4. ASSUME NEW w \in Workers,
             Succeed(w) \/ SucceedDisconnects(w) \/ Fail(w) \/ FailDisconnects(w)
      PROVE  TableStep
  <2>1. Busy(w) /\ durable_jobs' \in {durable_jobs, Succeeded(w), Failed(w)}
    BY <1>4 DEF Succeed, SucceedDisconnects, Fail, FailDisconnects, Busy
  <2> QED BY <2>1, SettleTable
<1>5. ASSUME NEW w \in Workers, Heartbeat(w) PROVE TableStep
  <2> DEFINE k == work[w].key
             row == durable_jobs[k]
             new == [row EXCEPT !.lease_in = LeaseSeconds]
  <2>1. k \in Jobs /\ row \in Row
    BY <1>5 DEF Heartbeat, BusyOK, Busy, Jobs, TypeOK
  <2>2. new \in Row
    BY <2>1, JobQueueAssumption DEF Row
  <2>3. /\ new.status = row.status /\ new.attempt = row.attempt /\ new.result = row.result
        /\ new.max_attempts = row.max_attempts /\ new.last_error = row.last_error
    BY <2>1 DEF Row
  <2>4. durable_jobs' = [durable_jobs EXCEPT ![k] = new]
    BY <1>5 DEF Heartbeat
  <2>5. durable_jobs'[k] = new
    BY <2>1, <2>4 DEF TypeOK, Jobs
  <2> HIDE DEF new
  <2>6. RowStep(k)
    BY <2>3, <2>5 DEF RowStep
  <2> QED BY <2>1, <2>2, <2>3, <2>4, <2>6, Zenon DEF TableStep
<1>6. CASE Tick
  <2>1. ASSUME NEW k \in Jobs
        PROVE  /\ durable_jobs'[k] \in Row
               /\ durable_jobs'[k].status = durable_jobs[k].status
               /\ durable_jobs'[k].attempt = durable_jobs[k].attempt
               /\ durable_jobs'[k].max_attempts = durable_jobs[k].max_attempts
               /\ durable_jobs'[k].result = durable_jobs[k].result
               /\ durable_jobs'[k].last_error = durable_jobs[k].last_error
    <3>1. durable_jobs[k] \in Row /\ durable_jobs'[k] = Aged(durable_jobs[k])
      BY <1>6 DEF Tick, TypeOK, Jobs
    <3> QED BY <3>1, AgedFields
  <2>2. DOMAIN durable_jobs' = Keys /\ \A k \in Keys \ Jobs : durable_jobs'[k] = Null
    BY <1>6 DEF Tick, Jobs
  <2> QED BY <2>1, <2>2 DEF TableStep
<1>7. CASE UNCHANGED vars
  BY <1>7 DEF vars, TableStep
<1> QED BY <1>1, <1>2, <1>3, <1>4, <1>5, <1>6, <1>7 DEF Next, RunOnce

\* A settled job is final: SettledIsFinal holds of every behaviour of the queue.
THEOREM SettledFinal == Spec => SettledIsFinal
<1>1. ASSUME IInv, [Next]_vars, NEW k \in Jobs, Terminal(durable_jobs[k])
      PROVE  /\ durable_jobs'[k].status = durable_jobs[k].status
             /\ durable_jobs'[k].attempt = durable_jobs[k].attempt
             /\ durable_jobs'[k].result = durable_jobs[k].result
             /\ durable_jobs'[k].last_error = durable_jobs[k].last_error
  <2>1. TableStep
    BY <1>1, NextTable
  <2>2. CASE \E j \in Keys \ Jobs, new \in Row : durable_jobs' = [durable_jobs EXCEPT ![j] = new]
    BY <1>1, <2>2 DEF IInv, TypeOK, Jobs
  <2>3. CASE \E j \in Jobs, new \in Row :
               durable_jobs' = [durable_jobs EXCEPT ![j] = new] /\ RowStep(j)
    <3>1. PICK j \in Jobs, new \in Row :
               durable_jobs' = [durable_jobs EXCEPT ![j] = new] /\ RowStep(j)
      BY <2>3, Zenon
    <3>2. CASE j # k
      BY <1>1, <3>1, <3>2 DEF IInv, TypeOK, Jobs
    <3>3. CASE j = k
      BY <1>1, <3>1, <3>3 DEF RowStep, Terminal
    <3> QED BY <3>2, <3>3
  <2> QED BY <2>1, <2>2, <2>3 DEF TableStep
<1>2. IInv /\ [Next]_vars =>
        [\A k \in Jobs :
           Terminal(durable_jobs[k]) =>
              /\ durable_jobs'[k].status = durable_jobs[k].status
              /\ durable_jobs'[k].attempt = durable_jobs[k].attempt
              /\ durable_jobs'[k].result = durable_jobs[k].result
              /\ durable_jobs'[k].last_error = durable_jobs[k].last_error]_vars
  BY <1>1
<1> QED BY <1>2, Invariance, PTL DEF Spec, SettledIsFinal

\* The abstract job of an existing row.
LEMMA ViewFields ==
    ASSUME NEW row \in Row
    PROVE  /\ View(row) # Null
           /\ View(row) = [status |-> row.status, attempt |-> row.attempt,
                           limit |-> row.max_attempts]
<1>1. row # Null
  BY NullAssumption
<1>2. View(row) = [status |-> row.status, attempt |-> row.attempt, limit |-> row.max_attempts]
  BY <1>1 DEF View
<1>3. [status |-> row.status, attempt |-> row.attempt, limit |-> row.max_attempts] \in Abstract
  BY DEF Row, Abstract
<1> QED BY <1>2, <1>3, NullAssumption

\* The queue implements JobLifecycle: for every set of workers, callers and keys and
\* every history of crashes, lapsed leases and lost connections.
THEOREM Refinement == Spec => ImplementsLifecycle
<1>1. Init => Lifecycle!Init
  BY DEF Init, Lifecycle!Init, views, View
<1>2. ASSUME IInv, [Next]_vars
      PROVE  [Lifecycle!Next]_views
  <2>1. TableStep
    BY <1>2, NextTable
  <2>2. durable_jobs \in [Keys -> Row \cup {Null}]
    BY <1>2 DEF IInv, TypeOK
  <2>3. CASE durable_jobs' = durable_jobs
    BY <2>3 DEF views
  <2>4. ASSUME NEW k \in Keys \ Jobs, NEW new \in Row,
               durable_jobs' = [durable_jobs EXCEPT ![k] = new],
               new.status = "pending", new.attempt = 0
        PROVE  Lifecycle!Next
    <3>1. views' = [views EXCEPT ![k] = View(new)]
      BY <2>2, <2>4, Zenon DEF views
    <3>2. View(new) = [status |-> "pending", attempt |-> 0, limit |-> new.max_attempts]
      BY <2>4, ViewFields
    <3>3. views[k] = Null /\ new.max_attempts \in Limits
      BY <2>4 DEF views, View, Jobs, Row
    <3> QED BY <3>1, <3>2, <3>3, Zenon DEF Lifecycle!Next, Lifecycle!Submit
  <2>5. ASSUME NEW k \in Jobs, NEW new \in Row,
               durable_jobs' = [durable_jobs EXCEPT ![k] = new],
               new.max_attempts = durable_jobs[k].max_attempts, RowStep(k)
        PROVE  [Lifecycle!Next]_views
    <3> DEFINE row == durable_jobs[k]
    <3>1. k \in Keys /\ row \in Row /\ durable_jobs'[k] = new
      BY <2>2, <2>5 DEF Jobs
    <3>2. views' = [views EXCEPT ![k] = View(new)]
      BY <2>2, <2>5, <3>1, Zenon DEF views
    <3>3. /\ views[k] # Null
          /\ views[k] = [status |-> row.status, attempt |-> row.attempt,
                         limit |-> row.max_attempts]
          /\ View(new) = [status |-> new.status, attempt |-> new.attempt,
                          limit |-> row.max_attempts]
      BY <2>5, <3>1, ViewFields DEF views
    <3>4. views = [views EXCEPT ![k] = views[k]]
      BY <3>1 DEF views
    <3> HIDE DEF row
    <3>5. CASE new.status = row.status /\ new.attempt = row.attempt
      BY <3>2, <3>3, <3>4, <3>5
    <3>6. CASE /\ row.status \in {"pending", "running"} /\ new.status = "running"
               /\ new.attempt = row.attempt + 1
      <4>1. /\ views[k].status \in {"pending", "running"}
            /\ views[k].attempt = row.attempt /\ views[k].limit = row.max_attempts
        BY <3>3, <3>6
      <4>2. View(new) = [status |-> "running", attempt |-> views[k].attempt + 1,
                         limit |-> views[k].limit]
        BY <3>3, <3>6, <4>1
      <4> QED BY <3>1, <3>2, <3>3, <4>1, <4>2, Zenon DEF Lifecycle!Next, Lifecycle!Attempt
    <3>7. CASE row.status = "running" /\ new.status = "succeeded" /\ new.attempt = row.attempt
      <4>1. View(new) = [views[k] EXCEPT !.status = "succeeded"]
        BY <3>3, <3>7
      <4>2. views[k].status = "running"
        BY <3>3, <3>7
      <4>3. views' = [views EXCEPT ![k] = [@ EXCEPT !.status = "succeeded"]]
        BY <3>2, <4>1
      <4> QED BY <3>1, <3>3, <4>2, <4>3, Zenon DEF Lifecycle!Next, Lifecycle!Complete, Lifecycle!Conclude
    <3>8. CASE /\ row.status = "running" /\ new.status = "pending"
               /\ new.attempt = row.attempt /\ row.attempt < row.max_attempts
      <4>1. View(new) = [views[k] EXCEPT !.status = "pending"]
        BY <3>3, <3>8
      <4>2. views[k].status = "running" /\ views[k].attempt < views[k].limit
        BY <3>3, <3>8
      <4>3. views' = [views EXCEPT ![k] = [@ EXCEPT !.status = "pending"]]
        BY <3>2, <4>1
      <4> QED BY <3>1, <3>3, <4>2, <4>3, Zenon DEF Lifecycle!Next, Lifecycle!Retry, Lifecycle!Conclude
    <3>9. CASE /\ row.status = "running" /\ new.status = "dead_letter"
               /\ new.attempt = row.attempt /\ row.attempt >= row.max_attempts
      <4>1. View(new) = [views[k] EXCEPT !.status = "dead_letter"]
        BY <3>3, <3>9
      <4>2. views[k].status = "running" /\ views[k].attempt >= views[k].limit
        BY <3>3, <3>9
      <4>3. views' = [views EXCEPT ![k] = [@ EXCEPT !.status = "dead_letter"]]
        BY <3>2, <4>1
      <4> QED BY <3>1, <3>3, <4>2, <4>3, Zenon DEF Lifecycle!Next, Lifecycle!Bury, Lifecycle!Conclude
    <3> QED BY <2>5, <3>1, <3>5, <3>6, <3>7, <3>8, <3>9 DEF RowStep, row
  <2>6. ASSUME \A k \in Keys \ Jobs : durable_jobs'[k] = Null,
               \A k \in Jobs : /\ durable_jobs'[k] \in Row
                               /\ durable_jobs'[k].status = durable_jobs[k].status
                               /\ durable_jobs'[k].attempt = durable_jobs[k].attempt
                               /\ durable_jobs'[k].max_attempts = durable_jobs[k].max_attempts
        PROVE  views' = views
    <3>1. ASSUME NEW k \in Keys PROVE View(durable_jobs'[k]) = View(durable_jobs[k])
      <4>1. CASE k \in Jobs
        <5>1. durable_jobs[k] \in Row
          BY <2>2, <4>1 DEF Jobs
        <5> QED BY <2>6, <4>1, <5>1, ViewFields
      <4>2. CASE k \notin Jobs
        BY <2>6, <3>1, <4>2 DEF Jobs
      <4> QED BY <4>1, <4>2
    <3> QED BY <3>1 DEF views
  <2> QED BY <2>1, <2>3, <2>4, <2>5, <2>6 DEF TableStep
<1> QED BY <1>1, <1>2, Invariance, PTL DEF Spec, ImplementsLifecycle, Lifecycle!Spec
=============================================================================
