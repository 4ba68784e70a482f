---------------------------- MODULE JobLifecycle ----------------------------
(***************************************************************************)
(* What the durable job queue promises of one job, without workers, leases  *)
(* or time: a submitted job is attempted one numbered attempt at a time,    *)
(* an attempt that fails below the limit puts it back, at the limit buries  *)
(* it, and a job that succeeded or was buried never changes again.          *)
(***************************************************************************)
EXTENDS Naturals

CONSTANTS Keys, Limits, Absent

VARIABLE job    \* key -> Absent or [status, attempt, limit]

Submit(k) ==
    /\ job[k] = Absent
    /\ \E n \in Limits :
         job' = [job EXCEPT ![k] = [status |-> "pending", attempt |-> 0, limit |-> n]]

\* A waiting job, or one whose attempt was given up, starts its next attempt.
Attempt(k) ==
    /\ job[k] # Absent
    /\ job[k].status \in {"pending", "running"}
    /\ job' = [job EXCEPT ![k] = [status |-> "running", attempt |-> job[k].attempt + 1,
                                  limit |-> job[k].limit]]

Conclude(k, status) ==
    /\ job[k] # Absent
    /\ job[k].status = "running"
    /\ job' = [job EXCEPT ![k] = [@ EXCEPT !.status = status]]

Complete(k) == Conclude(k, "succeeded")
Retry(k) == Conclude(k, "pending") /\ job[k].attempt < job[k].limit
Bury(k) == Conclude(k, "dead_letter") /\ job[k].attempt >= job[k].limit

Init == job = [k \in Keys |-> Absent]

Next == \E k \in Keys : Submit(k) \/ Attempt(k) \/ Complete(k) \/ Retry(k) \/ Bury(k)

Spec == Init /\ [][Next]_job
=============================================================================
