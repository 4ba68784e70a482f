---------------------------- MODULE ModelRegistry ----------------------------
(***************************************************************************)
(* The forecast model registry (packages/forecasting/registry.py) for the   *)
(* versions of one model: register, promote and rollback on PostgreSQL.     *)
(* updated_at is now(), the START of the transaction, while promotions and  *)
(* rollbacks are ordered by the advisory lock they wait for afterwards.     *)
(***************************************************************************)
EXTENDS Naturals, Sequences, FiniteSets

CONSTANTS
    Connections,  \* API handlers, each on its own database connection
    Versions,
    MaxChanges,   \* bound on the promotions and rollbacks of a run
    None

VARIABLES
    model_versions,  \* version -> [stage, updated_at], or None
    clock,           \* the start times handed out so far
    changing,        \* connection -> [kind, version, started], or None
    history          \* ghost: [version, started, kind] of every production change

vars == <<model_versions, clock, changing, history>>

InStage(stage) == {v \in Versions : model_versions[v] # None /\ model_versions[v].stage = stage}

Init ==
    /\ model_versions = [v \in Versions |-> None]
    /\ clock = 0
    /\ changing = [c \in Connections |-> None]
    /\ history = <<>>

\* register: refused when the version exists, by the SELECT or by the primary key.
Register(v) ==
    /\ model_versions[v] = None
    /\ model_versions' = [model_versions EXCEPT ![v] = [stage |-> "registered", updated_at |-> clock]]
    /\ UNCHANGED <<clock, changing, history>>

\* A promotion or a rollback opens its transaction and queues for the lock.
Begin(c, kind, v) ==
    /\ changing[c] = None
    /\ clock < MaxChanges
    /\ clock' = clock + 1
    /\ changing' = [changing EXCEPT ![c] = [kind |-> kind, version |-> v, started |-> clock']]
    /\ UNCHANGED <<model_versions, history>>

MutantPromoted(target, at) ==
    [model_versions EXCEPT ![target] = [stage |-> "production", updated_at |-> at]]

\* The two UPDATEs, under the lock: archive what is in production, promote the target.
Promoted(target, at) ==
    [v \in Versions |->
        IF v = target THEN [stage |-> "production", updated_at |-> at]
        ELSE IF v \in InStage("production") THEN [stage |-> "archived", updated_at |-> at]
        ELSE model_versions[v]]

Move(c, target) ==
    /\ model_versions' = Promoted(target, changing[c].started)
    /\ history' = Append(history, [version |-> target, started |-> changing[c].started,
                                   kind |-> changing[c].kind])
    /\ changing' = [changing EXCEPT ![c] = None]
    /\ UNCHANGED clock

\* promote: the target has to exist.
Promote(c) ==
    /\ changing[c] # None /\ changing[c].kind = "promote"
    /\ model_versions[changing[c].version] # None
    /\ Move(c, changing[c].version)

\* rollback: the target is an archived version with the latest updated_at.
MutantRollbackTargets ==
    {v \in InStage("archived") : \A u \in InStage("archived") :
        model_versions[u].updated_at >= model_versions[v].updated_at}
RollbackTargets ==
    {v \in InStage("archived") : \A u \in InStage("archived") :
        model_versions[u].updated_at <= model_versions[v].updated_at}

Rollback(c) ==
    /\ changing[c] # None /\ changing[c].kind = "rollback"
    /\ \E target \in RollbackTargets : Move(c, target)

\* The version does not exist, nothing is archived, or the connection breaks.
Abort(c) ==
    /\ changing[c] # None
    /\ changing' = [changing EXCEPT ![c] = None]
    /\ UNCHANGED <<model_versions, clock, history>>

RegisterModel == \E v \in Versions : Register(v)
PromoteModel(c) == (\E v \in Versions : Begin(c, "promote", v)) \/ Promote(c)
RollbackModel(c) == Begin(c, "rollback", None) \/ Rollback(c)

Next ==
    \/ RegisterModel
    \/ \E c \in Connections : PromoteModel(c) \/ RollbackModel(c) \/ Abort(c)

Spec == Init /\ [][Next]_vars

-----------------------------------------------------------------------------
\* Properties

\* Type invariant; the partial unique index allows one production version.
TypeOK ==
    /\ model_versions \in [Versions -> [stage : {"registered", "production", "archived"},
                                        updated_at : 0 .. MaxChanges] \cup {None}]
    /\ changing \in [Connections -> [kind : {"promote", "rollback"}, version : Versions \cup {None},
                                     started : 1 .. MaxChanges] \cup {None}]
    /\ clock \in 0 .. MaxChanges
    /\ Cardinality(InStage("production")) <= 1

\* Production is exactly the last version chosen, and a rollback left the version it found
\* for one that had been in production before.  When the changes started in the order they
\* took the lock, it is the version that was in production immediately before
\* (ModelRegistry.promote, rollback).
StartOrderHeld(n) == \A i, j \in 1 .. n : i < j => history[i].started < history[j].started
Earlier(n) == {i \in 1 .. n - 1 : history[i].version # history[n - 1].version}

RollbackRestores ==
    /\ history # <<>> => InStage("production") = {history[Len(history)].version}
    /\ \A n \in DOMAIN history : history[n].kind = "rollback" =>
         /\ history[n].version \in {history[i].version : i \in Earlier(n)}
         /\ StartOrderHeld(n) =>
              \E i \in Earlier(n) : /\ history[i].version = history[n].version
                                    /\ \A j \in Earlier(n) : j <= i
=============================================================================
