-------------------------- MODULE SimulationSession --------------------------
(***************************************************************************)
(* Simulation sessions (packages/simulation/session.py, engine.py) behind   *)
(* POST /v1/simulations and /v1/simulations/{id}/{operation}.  An operation *)
(* loads the session, rebuilds the simulator, applies itself and puts the   *)
(* session back under the etag it read.  The generator is seeded and saved  *)
(* with the session, so a session is its configuration and the faults of    *)
(* the steps it took.  A put is atomic here; ResourceStore models its       *)
(* inside.                                                                  *)
(***************************************************************************)
EXTENDS Naturals, Sequences

CONSTANTS
    Handlers,  \* API handlers; a request may be executed again under its key
    Sims,      \* simulation ids
    Keys,      \* idempotency keys
    Faults,    \* faults a step may inject
    TotalSteps,\* steps of the configured duration
    None

VARIABLES
    sessions,   \* simulation -> [version, body], or None
    snapshots,  \* the simulation_snapshot resources: token (the body it hashes) -> simulation
    written,    \* key -> [sim, body] put under it, or None
    working,    \* handler -> its operation, or None
    accepted    \* ghost: simulation -> the operations that were put, in order

vars == <<sessions, snapshots, written, working, accepted>>

NewBody == [events |-> <<>>, running |-> FALSE]
Bodies == [events : Seq(Faults), running : BOOLEAN]
Operations == [kind : {"start", "pause"}] \cup [kind : {"step"}, fault : Faults]

Init ==
    /\ sessions = [s \in Sims |-> None]
    /\ snapshots = {}
    /\ written = [k \in Keys |-> None]
    /\ working = [h \in Handlers |-> None]
    /\ accepted = [s \in Sims |-> <<>>]

\* create: a put without If-Match, refused when the session exists.
Create(s) ==
    /\ sessions[s] = None
    /\ sessions' = [sessions EXCEPT ![s] = [version |-> 1, body |-> NewBody]]
    /\ UNCHANGED <<snapshots, written, working, accepted>>

\* Simulator.start, pause, step and the restore of a snapshot's session.
Apply(body, op) ==
    CASE op.kind = "start"   -> [body EXCEPT !.running = TRUE]
      [] op.kind = "pause"   -> [body EXCEPT !.running = FALSE]
      [] op.kind = "step"    -> [body EXCEPT !.events = Append(@, op.fault)]
      [] op.kind = "restore" -> op.to

\* A step beyond the duration raises StopIteration; a restore needs a snapshot that
\* belongs to the simulation.
Permitted(s, body, op) ==
    /\ op.kind = "step" => Len(body.events) < TotalSteps
    /\ op.kind = "restore" => [token |-> op.to, sim |-> s] \in snapshots

\* operate: get the session, restore the simulator, apply the operation.
Operate(h, k, s, op) ==
    /\ working[h] = None
    /\ sessions[s] # None
    /\ Permitted(s, sessions[s].body, op)
    /\ working' = [working EXCEPT ![h] =
          [key |-> k, sim |-> s, op |-> op, etag |-> sessions[s].version,
           body |-> Apply(sessions[s].body, op)]]
    /\ UNCHANGED <<sessions, snapshots, written, accepted>>

\* _save: a put under If-Match; a key that was used replays its put or refuses another.
MutantEtagMatches(h) == TRUE
EtagMatches(h) == sessions[working[h].sim].version = working[h].etag
KeyFree(k) == written[k] = None

Save(h) ==
    /\ working[h] # None
    /\ KeyFree(working[h].key) /\ EtagMatches(h)
    /\ LET s == working[h].sim
       IN /\ sessions' = [sessions EXCEPT ![s] = [version |-> @.version + 1, body |-> working[h].body]]
          /\ written' = [written EXCEPT ![working[h].key] = [sim |-> s, body |-> working[h].body]]
          /\ accepted' = [accepted EXCEPT ![s] = Append(@, working[h].op)]
    /\ working' = [working EXCEPT ![h] = None]
    /\ UNCHANGED snapshots

\* The put is refused or replayed, or the process dies.
Abandon(h) ==
    /\ working[h] # None
    /\ working' = [working EXCEPT ![h] = None]
    /\ UNCHANGED <<sessions, snapshots, written, accepted>>

\* _snapshot: the token hashes the session's body without its id, and the put carries no
\* If-Match, so a body that was snapshot before is refused, also for another simulation.
Snapshot(s) ==
    /\ sessions[s] # None
    /\ \A old \in snapshots : old.token # sessions[s].body
    /\ snapshots' = snapshots \cup {[token |-> sessions[s].body, sim |-> s]}
    /\ UNCHANGED <<sessions, written, working, accepted>>

CreateSimulation == \E s \in Sims : Create(s)
OperateSimulation(h) ==
    \/ \E k \in Keys, s \in Sims :
         \/ \E op \in Operations : Operate(h, k, s, op)
         \/ \E old \in snapshots : Operate(h, k, s, [kind |-> "restore", to |-> old.token])
    \/ \E s \in Sims : Snapshot(s)
    \/ Save(h) \/ Abandon(h)

Next == CreateSimulation \/ \E h \in Handlers : OperateSimulation(h)

Spec == Init /\ [][Next]_vars

-----------------------------------------------------------------------------
\* Properties

\* Type invariant of the stored sessions and the operations in progress.
TypeOK ==
    /\ \A s \in Sims : sessions[s] # None =>
          sessions[s].body \in Bodies /\ Len(sessions[s].body.events) <= TotalSteps
    /\ snapshots \subseteq [token : Bodies, sim : Sims]
    /\ \A h \in Handlers : working[h] # None => working[h].body \in Bodies

\* A session is the replay, from the start, of the operations that were accepted, each
\* once and in the order of their puts, and a restore goes back to a state this very
\* simulation was in: no step is lost, doubled or taken over from another simulation
\* (SimulationRepository.operate, _save, _restore).  Replay(ops)[n] is the session after the
\* first n of the operations.
Replay(ops) ==
    LET after[n \in 0 .. Len(ops)] == IF n = 0 THEN NewBody ELSE Apply(after[n - 1], ops[n])
    IN after

SessionIsReplay ==
    \A s \in Sims : sessions[s] # None =>
        /\ sessions[s].body = Replay(accepted[s])[Len(accepted[s])]
        /\ \A i \in DOMAIN accepted[s] : accepted[s][i].kind = "restore" =>
             \E j \in 0 .. i - 1 : accepted[s][i].to = Replay(accepted[s])[j]
=============================================================================
