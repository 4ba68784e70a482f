-------------------------- MODULE ResourceRegister --------------------------
(***************************************************************************)
(* What the resource store promises of a put, without connections, locks    *)
(* or rollbacks: it compares and sets in one step.  It builds on the        *)
(* current version, the one its client named, appends that version to the   *)
(* history and records the answer under its key, which no other put takes   *)
(* while the record is live.                                                *)
(***************************************************************************)
EXTENDS Naturals

CONSTANTS Resources, Keys, Bodies, Absent

VARIABLES
    register,   \* id -> Absent or [version, body]
    history,    \* every version that was ever current, with the version it replaced
    records     \* key -> Absent or [request, version, live]

Current(r) == IF register[r] = Absent THEN 0 ELSE register[r].version

Put(k, r, b) ==
    LET v == Current(r) + 1
    IN /\ records[k] # Absent => ~records[k].live
       /\ register' = [register EXCEPT ![r] = [version |-> v, body |-> b]]
       /\ history' = history \cup {[id |-> r, version |-> v, body |-> b, key |-> k,
                                    base |-> Current(r)]}
       /\ records' = [records EXCEPT ![k] = [request |-> [id |-> r, body |-> b],
                                             version |-> v, live |-> TRUE]]

\* A record is forgotten some time after its put; what was put stays.
Expire(k) ==
    /\ records[k] # Absent /\ records[k].live
    /\ records' = [records EXCEPT ![k].live = FALSE]
    /\ UNCHANGED <<register, history>>

Init ==
    /\ register = [r \in Resources |-> Absent]
    /\ history = {}
    /\ records = [k \in Keys |-> Absent]

Next ==
    \/ \E k \in Keys, r \in Resources, b \in Bodies : Put(k, r, b)
    \/ \E k \in Keys : Expire(k)

Spec == Init /\ [][Next]_<<register, history, records>>
=============================================================================
