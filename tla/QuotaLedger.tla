---------------------------- MODULE QuotaLedger ----------------------------
(***************************************************************************)
(* Tenant quotas (packages/workloads/quota.py) and the admission decision   *)
(* that charges them (packages/admission/service.py, POST                   *)
(* /v1/admission/evaluate).  One tenant; a reservation is three statements  *)
(* of one READ COMMITTED transaction, so another connection may act between *)
(* the SELECT of the prior reservation, the guarded UPDATE of the ledger    *)
(* (which locks the row) and the INSERT of the reservation.                 *)
(***************************************************************************)
EXTENDS Integers, FiniteSetsExt

CONSTANTS
    Connections,  \* API handlers, each on its own database connection
    Jobs,         \* jobs clients ask for: name -> [key, gpus, hours, deadline, sites,
                  \* online]; two may reuse one reservation key
    Snapshots,    \* compute states a client may send: [age, nodes, protected]
    Quotas,       \* limits an administrator may configure: [gpus, hours, jobs]
    None

VARIABLES
    ledger,        \* the row of quota_ledgers: [max, used], or None
    reservations,  \* job -> the row [demand, released] inserted for it, or None
    conn,          \* connection -> its open reserve, or None
    admitted       \* jobs a client was told are admitted

vars == <<ledger, reservations, conn, admitted>>

FRESHNESS == 5        \* 300 seconds, in steps of a minute
JobIds == DOMAIN Jobs

\* GPU hours are the product that admission computes from the request.
Demand(j) == [gpus |-> Jobs[j].gpus, hours |-> Jobs[j].gpus * Jobs[j].hours, jobs |-> 1]

Nothing == [gpus |-> 0, hours |-> 0, jobs |-> 0]
Plus(a, b) == [f \in DOMAIN a |-> a[f] + b[f]]
Minus(a, b) == [f \in DOMAIN a |-> IF a[f] > b[f] THEN a[f] - b[f] ELSE 0]
Within(a, b) == \A f \in DOMAIN a : a[f] <= b[f]

\* The row lock of the ledger: held from the guarded UPDATE to the end.
Locked == \E c \in Connections : conn[c] # None /\ conn[c].charged

\* The rows under the reservation key of a job: at most one, by the primary key.
Prior(j) == {i \in JobIds : Jobs[i].key = Jobs[j].key /\ reservations[i] # None}

Init ==
    /\ ledger = None
    /\ reservations = [j \in JobIds |-> None]
    /\ conn = [c \in Connections |-> None]
    /\ admitted = {}

\* INSERT ... ON CONFLICT DO UPDATE WHERE the usage fits; otherwise it raises.
Configurable(quota) == ledger # None => Within(ledger.used, quota)

Configure(quota) ==
    /\ ~Locked
    /\ Configurable(quota)
    /\ ledger' = [max |-> quota, used |-> IF ledger = None THEN Nothing ELSE ledger.used]
    /\ UNCHANGED <<reservations, conn, admitted>>

\* SnapshotBuilder.build: without scheduler states there is no conflict.
Quality(snap) == IF snap.age > FRESHNESS THEN "stale" ELSE "good"
Schedulable(snap) == MapThenSumSet(LAMBDA n : n.gpus, snap.nodes) - snap.protected

\* AdmissionService.evaluate up to the quota: what blocks the job.
Blocking(job, snap) ==
    (IF Quality(snap) \in {"stale", "conflict"} THEN {"COMPUTE_DATA_QUALITY"} ELSE {})
    \cup (IF job.gpus > Schedulable(snap) THEN {"GPU_CAPACITY"} ELSE {})
    \cup (IF job.hours > job.deadline THEN {"DEADLINE"} ELSE {})
    \cup (IF job.sites # {} /\ \A n \in snap.nodes : n.site \notin job.sites
          THEN {"SOVEREIGNTY"} ELSE {})
    \cup (IF ~job.online /\ Schedulable(snap) - job.gpus < snap.protected
          THEN {"PROTECTED_INFERENCE_RESERVATION"} ELSE {})

\* reserve, SELECT of the prior reservation: an unreleased one for the same demand
\* admits again, another demand raises, a released one refuses, none leads on to
\* the charge.
Evaluate(c, j, snap) ==
    /\ conn[c] = None
    /\ Blocking(Jobs[j], snap) = {}
    /\ \/ /\ Prior(j) = {}
          /\ conn' = [conn EXCEPT ![c] = [job |-> j, charged |-> FALSE]]
          /\ UNCHANGED admitted
       \/ /\ \E i \in Prior(j) :
                reservations[i].demand = Demand(j) /\ ~reservations[i].released
          /\ admitted' = admitted \cup {j}
          /\ UNCHANGED conn
    /\ UNCHANGED <<ledger, reservations>>

\* The guarded UPDATE waits for the row and is evaluated on what it then finds.
Fits(j) == Within(Plus(ledger.used, Demand(j)), ledger.max)

Charge(c) ==
    /\ conn[c] # None /\ ~conn[c].charged /\ ~Locked
    /\ conn' = [conn EXCEPT ![c] = IF ledger # None /\ Fits(conn[c].job)
                                   THEN [@ EXCEPT !.charged = TRUE] ELSE None]
    /\ UNCHANGED <<ledger, reservations, admitted>>

\* INSERT under the primary key, COMMIT; a reservation that won the race for the
\* key raises, and the charge is rolled back with the rest.
MutantNoReservationKey(j) == FALSE
KeyTaken(j) == Prior(j) # {}

Reserve(c) ==
    /\ conn[c] # None /\ conn[c].charged
    /\ LET j == conn[c].job
       IN IF KeyTaken(j)
          THEN UNCHANGED <<ledger, reservations, admitted>>
          ELSE /\ ledger' = [ledger EXCEPT !.used = Plus(@, Demand(j))]
               /\ reservations' = [reservations EXCEPT ![j] = [demand |-> Demand(j), released |-> FALSE]]
               /\ admitted' = admitted \cup {j}
    /\ conn' = [conn EXCEPT ![c] = None]

\* The connection breaks or the process dies: everything is rolled back.
Abort(c) ==
    /\ conn[c] # None
    /\ conn' = [conn EXCEPT ![c] = None]
    /\ UNCHANGED <<ledger, reservations, admitted>>

\* release: the reservation is closed first, when key and demand are its own, and only
\* its closing refunds the ledger.
Refundable(j) == reservations[j] # None /\ ~reservations[j].released

ReleaseJob(j) ==
    /\ ~Locked
    /\ Refundable(j)
    /\ reservations' = [reservations EXCEPT ![j].released = TRUE]
    /\ ledger' = [ledger EXCEPT !.used = Minus(@, Demand(j))]
    /\ UNCHANGED <<conn, admitted>>

ConfigureQuota == \E quota \in Quotas : Configure(quota)
EvaluateAdmission(c) ==
    \/ \E j \in JobIds, snap \in Snapshots : Evaluate(c, j, snap)
    \/ Charge(c) \/ Reserve(c) \/ Abort(c)

Next ==
    \/ ConfigureQuota
    \/ \E c \in Connections : EvaluateAdmission(c)
    \/ \E j \in JobIds : ReleaseJob(j)

Spec == Init /\ [][Next]_vars

-----------------------------------------------------------------------------
\* Properties

\* Type invariant of the quota tables and the open reservations.
TypeOK ==
    /\ ledger # None => ledger.max \in Quotas /\ \A f \in DOMAIN Nothing : ledger.used[f] \in Nat
    /\ \A j \in JobIds : reservations[j] # None =>
          reservations[j].demand = Demand(j) /\ reservations[j].released \in BOOLEAN
    /\ \A c \in Connections : conn[c] # None => conn[c].job \in JobIds /\ conn[c].charged \in BOOLEAN
    /\ admitted \subseteq JobIds

\* What the ledger says is used is, whatever the connections do, the sum of the open
\* reservations; it stays within the configured limits, a key is charged once, and every
\* admitted job holds or held a reservation of its demand.  Racing reserves of one key, for
\* one demand or for two, and repeated releases charge or refund it once
\* (QuotaLedger.reserve, release, configure).
Outstanding == {j \in JobIds : reservations[j] # None /\ ~reservations[j].released}
Total(f) == MapThenSumSet(LAMBDA j : Demand(j)[f], Outstanding)

LedgerIsBacked ==
    /\ ledger = None => Outstanding = {}
    /\ ledger # None => /\ \A f \in DOMAIN Nothing : ledger.used[f] = Total(f)
                        /\ Within(ledger.used, ledger.max)
    /\ \A i, j \in Outstanding : Jobs[i].key = Jobs[j].key => i = j
    /\ \A j \in admitted : \E i \in Prior(j) : reservations[i].demand = Demand(j)
=============================================================================
