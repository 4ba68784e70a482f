----------------------------- MODULE MpcControl -----------------------------
(***************************************************************************)
(* Model predictive control cycles: POST /v1/mpc/{controller}/cycle,        *)
(* packages/mpc/repository.py and controller.py, for one controller.  The   *)
(* controller is stateless between requests: a cycle loads its state from   *)
(* the resource store, decides, puts the state back under the etag it read  *)
(* and then records the cycle, in two transactions.  A put is atomic here;  *)
(* ResourceStore models its inside.  A request is repeated while the record *)
(* of its key lives; a schedule without slots that is repeated after it has *)
(* expired is another cycle, any other is refused.                          *)
(***************************************************************************)
EXTENDS Integers, FiniteSets

CONSTANTS
    Handlers,    \* API handlers; a request may be executed again under its key
    Requests,    \* idempotency key -> the slots of its schedule
    Plans,       \* plans the optimiser may return: sets of [job, slots]
    None

VARIABLES
    controller,  \* mpc_controller_state: [version, last_safe, executed, sequence], or None
    cycles,      \* the mpc_cycle resources
    stateKey,    \* key -> the state put under it, or None
    handler      \* handler -> its cycle, or None

vars == <<controller, cycles, stateKey, handler>>

Keys == DOMAIN Requests
NewController == [version |-> 1, last_safe |-> None, executed |-> {}, sequence |-> 0]

Init ==
    /\ controller = None
    /\ cycles = {}
    /\ stateKey = [k \in Keys |-> None]
    /\ handler = [h \in Handlers |-> None]

\* MpcRepository.create, implicitly, by the first cycle; a second one replays its key.
Create ==
    /\ controller = None
    /\ controller' = NewController
    /\ UNCHANGED <<cycles, stateKey, handler>>

\* MpcController._churn > 0.5; the repository passes no planned progress, so the
\* observed state is never material and cannot lift the limit.
Churns(previous, plan) ==
    LET union == Cardinality(previous \cup plan)
        changed == Cardinality((previous \ plan) \cup (plan \ previous))
    IN 2 * changed > (IF union = 0 THEN 1 ELSE union)

\* The plan of the cycle, given the optimiser's (None when there is none, or when the
\* data quality is below 0.6), and whether it falls back.
Decide(previous, found) ==
    IF found = None THEN [plan |-> previous, fallback |-> "last_safe_plan"]
    ELSE IF previous # None /\ Churns(previous, found)
         THEN [plan |-> previous, fallback |-> "stability_hold"]
         ELSE [plan |-> found, fallback |-> None]

\* None for a schedule without slots, which passes as well.
Earliest(slots) == IF slots = {} THEN None ELSE CHOOSE s \in slots : \A t \in slots : s <= t
Current(plan, slot) == {a.job : a \in {x \in plan : slot \in x.slots}}

\* from_state and MpcController.cycle: refused when the schedule holds an executed slot,
\* or when there is neither a plan nor a safe one; otherwise its first slot, if any, is
\* executed.
Rewritable(slots) == slots \cap controller.executed = {}

Cycle(h, k) ==
    /\ handler[h] = None
    /\ controller # None
    /\ Rewritable(Requests[k])
    /\ \E found \in Plans \cup {None} :
         LET decision == Decide(controller.last_safe, found)
             slot == Earliest(Requests[k])
         IN /\ decision.plan # None
            /\ handler' = [handler EXCEPT ![h] =
                 [key |-> k, pc |-> "state", etag |-> controller.version,
                  state |-> [last_safe |-> decision.plan,
                             executed |-> controller.executed \cup ({slot} \ {None}),
                             sequence |-> controller.sequence + 1],
                  cycle |-> [id |-> controller.sequence + 1, slot |-> slot,
                             current |-> Current(decision.plan, slot),
                             fallback |-> decision.fallback]]]
    /\ UNCHANGED <<controller, cycles, stateKey>>

\* put of the state under If-Match: the key's own state is replayed, another state under
\* the key or a changed etag is refused.
MutantEtagMatches(h) == TRUE
EtagMatches(h) == controller.version = handler[h].etag

PutState(h) ==
    /\ handler[h] # None /\ handler[h].pc = "state"
    /\ LET k == handler[h].key
       IN \/ /\ stateKey[k] = None /\ EtagMatches(h)
             /\ controller' = [version |-> controller.version + 1,
                               last_safe |-> handler[h].state.last_safe,
                               executed |-> handler[h].state.executed,
                               sequence |-> handler[h].state.sequence]
             /\ stateKey' = [stateKey EXCEPT ![k] = handler[h].state]
             /\ handler' = [handler EXCEPT ![h].pc = "cycle"]
          \/ /\ stateKey[k] = handler[h].state
             /\ handler' = [handler EXCEPT ![h].pc = "cycle"]
             /\ UNCHANGED <<controller, stateKey>>
    /\ UNCHANGED cycles

\* put of the cycle under its own id: a first put, or the replay of an equal one; a
\* different cycle under the id is refused.
PutCycle(h) ==
    /\ handler[h] # None /\ handler[h].pc = "cycle"
    /\ \A c \in cycles : c.id = handler[h].cycle.id => c = handler[h].cycle
    /\ cycles' = cycles \cup {handler[h].cycle}
    /\ handler' = [handler EXCEPT ![h] = None]
    /\ UNCHANGED <<controller, stateKey>>

\* A refused put, or the process dies; between the two puts the cycle is not recorded.
Abandon(h) ==
    /\ handler[h] # None
    /\ handler' = [handler EXCEPT ![h] = None]
    /\ UNCHANGED <<controller, cycles, stateKey>>

CreateMpcCycle(h) ==
    \/ Create
    \/ \E k \in Keys : Cycle(h, k)
    \/ PutState(h) \/ PutCycle(h) \/ Abandon(h)

Next == \E h \in Handlers : CreateMpcCycle(h)

Spec == Init /\ [][Next]_vars

-----------------------------------------------------------------------------
\* Properties

\* Type invariant of the controller's state and of the cycles in progress.
TypeOK ==
    /\ controller # None =>
         /\ controller.last_safe \in Plans \cup {None}
         /\ controller.executed \subseteq UNION {Requests[k] : k \in Keys}
         /\ controller.sequence \in Nat
    /\ \A h \in Handlers : handler[h] # None =>
         handler[h].key \in Keys /\ handler[h].pc \in {"state", "cycle"}

\* The requests whose state was put.
Accepted == {k \in Keys : stateKey[k] # None}
Slot(k) == Earliest(Requests[k])

\* An interval is executed for one request and by one recorded cycle at most, each accepted
\* request uses one cycle number and its interval stays executed, whichever replicas race or
\* die between the two puts and however a request is repeated ("already executed intervals
\* cannot be rewritten", controller.py).
IntervalsExecuteOnce ==
    /\ \A c, d \in cycles : c.id = d.id \/ (c.slot = d.slot /\ c.slot # None) => c = d
    /\ \A k, l \in Accepted : Slot(k) = Slot(l) /\ Slot(k) # None => k = l
    /\ controller # None =>
         /\ controller.sequence = Cardinality(Accepted)
         /\ controller.executed = {Slot(k) : k \in Accepted} \ {None}
         /\ \A c \in cycles : c.slot \in controller.executed \cup {None} /\ c.id <= controller.sequence
=============================================================================
