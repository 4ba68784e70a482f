------------------------- MODULE ApiOperationsProofs -------------------------
(***************************************************************************)
(* Proofs about ApiOperations for every set of calls, keys and intents, and  *)
(* about the quota ledger, which the admission call charges.                 *)
(***************************************************************************)
EXTENDS ApiOperations, Integers, FiniteSetTheorems, WellFoundedInduction, TLAPS

Phases == {"new", "effect", "audit", "completing", "failing", "answered", "error", "dead"}

TypeOK ==
    /\ request \in [Requests -> [key : Keys, intent : Intents]]
    /\ phase \in [Requests -> Phases]
    /\ result \in [Requests -> Requests \cup {None}]
    /\ reply \in [Requests -> Requests \cup {None}]
    /\ api_operations \in [Keys -> Row \cup {None}]
    /\ effects \in [Keys -> SUBSET Requests]
    /\ audited \in [Keys -> SUBSET Requests]
    /\ overdue \subseteq Requests
    /\ owner \in [Keys -> Requests \cup {None}]
    /\ spoiled \subseteq Keys

\* The row of a call in flight carries the intent of the call: the WHERE clauses of
\* the last transaction never miss because of the intent.
FlightOK ==
    \A p \in Requests :
        InFlight(p) => Operation(p) # None /\ Operation(p).intent = request[p].intent

\* Effects are those of calls with the key and the intent of the row, and a keyed
\* effect has one author.
EffectsOK ==
    \A k \in Keys :
        /\ \A q \in effects[k] : /\ Key(q) = k
                                 /\ api_operations[k] # None
                                 /\ request[q].intent = api_operations[k].intent
        /\ k \in Keyed => \A q, r \in effects[k] : q = r

\* What a callback reports was applied, and a call that is about to complete, like a
\* row that did, has an audit record.
ResultOK ==
    /\ \A p \in Requests :
         /\ phase[p] \in {"audit", "completing"} => result[p] \in effects[Key(p)]
         /\ phase[p] = "completing" => p \in audited[Key(p)]
    /\ \A k \in Keys :
         api_operations[k] # None /\ api_operations[k].status = "succeeded"
            => api_operations[k].response \in effects[k] /\ audited[k] # {}

\* A call that has not outlived its lease owns the row: it is still the attempt the row
\* records, or a slower one completed it.
LeaseOK ==
    \A p \in Requests :
        InFlight(p) /\ p \notin overdue /\ Key(p) \notin spoiled =>
            /\ owner[Key(p)] = p
            /\ \/ Operation(p).status = "started" /\ Operation(p).lease_active
               \/ Operation(p).status = "succeeded"

\* An answer was given from the row, which keeps it unless a failure is written over it.
AnswerKept ==
    \A p \in Requests :
        reply[p] # None /\ Key(p) \notin spoiled =>
            /\ Operation(p) # None
            /\ Operation(p).status = "succeeded" /\ Operation(p).response = reply[p]

\* The inductive invariant.
IInv ==
    /\ TypeOK /\ FlightOK /\ EffectsOK /\ ResultOK
    /\ AnswersAreBacked /\ LeaseOK /\ AnswerKept

\* Before the first call there is no row, no effect and no answer.
LEMMA InitIInv == Init => IInv
BY DEF Init, IInv, TypeOK, Phases, FlightOK, EffectsOK, ResultOK, AnswersAreBacked, LeaseOK,
       AnswerKept, InFlight, Key, Operation

\* A call keeps its key, and its thread is in one place.
LEMMA CallTypes ==
    ASSUME TypeOK, NEW p \in Requests
    PROVE  /\ Key(p) \in Keys /\ request[p].intent \in Intents
           /\ Operation(p) \in Row \cup {None}
           /\ phase[p] \in Phases
BY DEF TypeOK, Key, Operation

\* Two calls with one key and one intent ask for the same thing.
LEMMA SameRequest ==
    ASSUME TypeOK, NEW p \in Requests, NEW q \in Requests,
           Key(p) = Key(q), request[p].intent = request[q].intent
    PROVE  request[p] = request[q]
<1>1. ASSUME NEW a \in [key : Keys, intent : Intents], NEW b \in [key : Keys, intent : Intents],
             a.key = b.key, a.intent = b.intent
      PROVE  a = b
  BY <1>1
<1> QED BY <1>1 DEF TypeOK, Key

\* Refuse, CallbackRaises, LeaseLost and Crash: only the phase of the call moves, from
\* "new" out of the way, or on from a phase in flight.
Steps(p, from, to) ==
    /\ phase[p] \in from /\ To(p, to)
    /\ UNCHANGED <<request, result, reply, api_operations, effects, audited, overdue, owner, spoiled>>

LEMMA PhaseStep ==
    ASSUME IInv, NEW p \in Requests, NEW to \in {"failing", "error", "dead"},
           Steps(p, Phases, to), to = "failing" => InFlight(p)
    PROVE  IInv'
<1>1. /\ phase' \in [Requests -> Phases] /\ phase'[p] = to
      /\ \A q \in Requests \ {p} : phase'[q] = phase[q]
      /\ UNCHANGED <<request, result, reply, api_operations, effects, audited, overdue, owner, spoiled>>
  BY DEF Steps, To, IInv, TypeOK, Phases
<1>2. \A q \in Requests : /\ InFlight(q)' => InFlight(q)
                          /\ phase'[q] \in {"audit", "completing"} => phase'[q] = phase[q]
                          /\ Key(q)' = Key(q) /\ Operation(q)' = Operation(q)
  BY <1>1 DEF InFlight, Key, Operation
<1>3. TypeOK'
  BY <1>1 DEF IInv, TypeOK
<1>4. FlightOK' /\ EffectsOK'
  BY <1>1, <1>2 DEF IInv, FlightOK, EffectsOK, TypeOK
<1>5. ResultOK'
  BY <1>1, <1>2 DEF IInv, ResultOK
<1>6. AnswersAreBacked' /\ AnswerKept'
  BY <1>1, <1>2 DEF IInv, AnswersAreBacked, AnswerKept
<1>7. LeaseOK'
  BY <1>1, <1>2 DEF IInv, LeaseOK
<1> QED BY <1>3, <1>4, <1>5, <1>6, <1>7 DEF IInv

\* The answer of a completed row is given again.
LEMMA ReplayStep ==
    ASSUME IInv, NEW p \in Requests, Replay(p)
    PROVE  IInv'
<1> USE CallTypes DEF IInv
<1>1. PICK k : k = Key(p)
  OBVIOUS
<1>2. PICK r : r = Operation(p).response
  OBVIOUS
<1>3. /\ api_operations[k] # None /\ api_operations[k].status = "succeeded"
      /\ api_operations[k].response = r
      /\ api_operations[k].intent = request[p].intent
      /\ reply' = [reply EXCEPT ![p] = r]
      /\ To(p, "answered")
      /\ UNCHANGED <<request, result, api_operations, effects, audited, overdue, owner, spoiled>>
  BY <1>1, <1>2 DEF Replay, Replayable, Conflict, Operation
<1>4. /\ k \in Keys /\ r \in effects[k] /\ audited[k] # {} /\ r \in Requests
  BY <1>1, <1>3 DEF ResultOK, TypeOK
<1>5. request[r] = request[p]
  <2>1. Key(r) = Key(p) /\ request[r].intent = request[p].intent
    BY <1>1, <1>3, <1>4 DEF EffectsOK
  <2> QED BY <1>4, <2>1, SameRequest
<1>6. /\ phase' \in [Requests -> Phases] /\ phase'[p] = "answered"
      /\ \A q \in Requests \ {p} : phase'[q] = phase[q]
  BY <1>3 DEF To, TypeOK, Phases
<1>7. /\ reply' \in [Requests -> Requests \cup {None}] /\ reply'[p] = r
      /\ \A q \in Requests \ {p} : reply'[q] = reply[q]
  BY <1>3, <1>4 DEF TypeOK
<1>8. \A q \in Requests : /\ InFlight(q)' => InFlight(q)
                          /\ phase'[q] \in {"audit", "completing"} => phase'[q] = phase[q]
                          /\ Key(q)' = Key(q) /\ Operation(q)' = Operation(q)
  BY <1>3, <1>6 DEF InFlight, Key, Operation
<1>9. TypeOK'
  BY <1>3, <1>6, <1>7 DEF TypeOK
<1>10. FlightOK' /\ EffectsOK'
  BY <1>3, <1>8 DEF FlightOK, EffectsOK, TypeOK
<1>11. ResultOK'
  BY <1>3, <1>8 DEF ResultOK
<1>12. AnswersAreBacked'
  BY <1>1, <1>3, <1>4, <1>5, <1>7, <1>8 DEF AnswersAreBacked
<1>13. AnswerKept'
  BY <1>1, <1>3, <1>7, <1>8 DEF AnswerKept, Operation
<1>14. LeaseOK'
  BY <1>3, <1>8 DEF LeaseOK
<1> QED BY <1>9, <1>10, <1>11, <1>12, <1>13, <1>14


\* A call takes the key: the row is new, failed, or its lease has run out, and in none
\* of these cases is another call under its own lease executing it.
LEMMA StartStep ==
    ASSUME IInv, NEW p \in Requests, Start(p)
    PROVE  IInv'
<1> USE CallTypes DEF IInv
<1>1. PICK k : k = Key(p)
  OBVIOUS
<1>2. PICK row : row = [intent |-> request[p].intent, status |-> "started",
                        lease_active |-> TRUE, response |-> None]
  BY Zenon
<1>3. /\ phase[p] = "new" /\ ~Refused(p) /\ ~Replayable(p)
      /\ api_operations' = [api_operations EXCEPT ![k] = row]
      /\ owner' = [owner EXCEPT ![k] = p]
      /\ To(p, "effect")
      /\ UNCHANGED <<request, result, reply, effects, audited, overdue, spoiled>>
  BY <1>1, <1>2 DEF Start
<1>4. k \in Keys /\ request[p].intent \in Intents
  BY <1>1
<1>5. row \in Row /\ row # None
  <2>1. ASSUME NEW i \in Intents, NEW l \in BOOLEAN
        PROVE  [intent |-> i, status |-> "started", lease_active |-> l, response |-> None] \in Row
    BY DEF Row
  <2>2. row \in Row
    BY <1>2, <1>4, <2>1, Zenon
  <2> QED BY <2>2, NoneIsNoRow
<1>6. row.intent = request[p].intent /\ row.status = "started" /\ row.lease_active
  BY <1>2
<1>7. /\ phase' \in [Requests -> Phases] /\ phase'[p] = "effect"
      /\ \A q \in Requests \ {p} : phase'[q] = phase[q]
  BY <1>3 DEF To, TypeOK, Phases
<1>8. /\ api_operations' \in [Keys -> Row \cup {None}] /\ api_operations'[k] = row
      /\ \A j \in Keys \ {k} : api_operations'[j] = api_operations[j]
  BY <1>3, <1>4, <1>5 DEF TypeOK
<1>9. /\ owner' \in [Keys -> Requests \cup {None}] /\ owner'[k] = p
      /\ \A j \in Keys \ {k} : owner'[j] = owner[j]
  BY <1>3, <1>4 DEF TypeOK
<1>10. \A q \in Requests : /\ Key(q)' = Key(q) /\ Key(q) \in Keys
                           /\ Operation(q)' = api_operations'[Key(q)]
                           /\ q # p /\ InFlight(q)' => InFlight(q)
                           /\ phase'[q] \in {"audit", "completing"} => phase'[q] = phase[q]
  BY <1>3, <1>7 DEF InFlight, Key, Operation
<1>11. api_operations[k] # None =>
         /\ api_operations[k].intent = request[p].intent
         /\ api_operations[k].status # "succeeded"
         /\ ~(api_operations[k].status = "started" /\ api_operations[k].lease_active)
  BY <1>1, <1>3 DEF Refused, Replayable, Conflict, Operation
<1>12. TypeOK'
  BY <1>3, <1>7, <1>8, <1>9 DEF TypeOK
<1>13. FlightOK'
  <2> SUFFICES ASSUME NEW q \in Requests, InFlight(q)'
               PROVE  Operation(q)' # None /\ Operation(q)'.intent = request'[q].intent
    BY DEF FlightOK
  <2>1. CASE q = p
    BY <1>1, <1>3, <1>5, <1>6, <1>8, <1>10, <2>1
  <2>2. CASE q # p /\ Key(q) # k
    BY <1>3, <1>8, <1>10, <2>2 DEF FlightOK, Operation
  <2>3. CASE q # p /\ Key(q) = k
    BY <1>3, <1>5, <1>6, <1>8, <1>10, <1>11, <2>3 DEF FlightOK, Operation
  <2> QED BY <2>1, <2>2, <2>3
<1>14. EffectsOK'
  BY <1>3, <1>5, <1>6, <1>8, <1>10, <1>11 DEF EffectsOK, TypeOK
<1>15. ResultOK'
  BY <1>3, <1>4, <1>6, <1>8, <1>10 DEF ResultOK
<1>16. AnswersAreBacked'
  BY <1>3, <1>10 DEF AnswersAreBacked
<1>17. LeaseOK'
  <2> SUFFICES ASSUME NEW q \in Requests, InFlight(q)', q \notin overdue', Key(q)' \notin spoiled'
               PROVE  /\ owner'[Key(q)'] = q
                      /\ \/ Operation(q)'.status = "started" /\ Operation(q)'.lease_active
                         \/ Operation(q)'.status = "succeeded"
    BY DEF LeaseOK
  <2>1. CASE q = p
    BY <1>1, <1>6, <1>8, <1>9, <1>10, <2>1
  <2>2. CASE q # p /\ Key(q) # k
    BY <1>3, <1>8, <1>9, <1>10, <2>2 DEF LeaseOK, Operation
  <2>3. CASE q # p /\ Key(q) = k
    BY <1>3, <1>10, <1>11, <2>3 DEF LeaseOK, FlightOK, Operation
  <2> QED BY <2>1, <2>2, <2>3
<1>18. AnswerKept'
  BY <1>3, <1>8, <1>10, <1>11 DEF AnswerKept, Operation
<1> QED BY <1>12, <1>13, <1>14, <1>15, <1>16, <1>17, <1>18

\* The callback applies its effect, or finds that a keyed one was applied.
LEMMA EffectStep ==
    ASSUME IInv, NEW p \in Requests, Effect(p)
    PROVE  IInv'
<1> USE CallTypes DEF IInv
<1>1. PICK k : k = Key(p)
  OBVIOUS
<1>2. PICK set : set = Applied(p)
  OBVIOUS
<1>3. PICK r : r = IF k \in Keyed THEN CHOOSE q \in set : TRUE ELSE p
  OBVIOUS
<1>4. /\ phase[p] = "effect"
      /\ effects' = [effects EXCEPT ![k] = set]
      /\ result' = [result EXCEPT ![p] = r]
      /\ To(p, "audit")
      /\ UNCHANGED <<request, reply, api_operations, audited, overdue, owner, spoiled>>
  BY <1>1, <1>2, <1>3 DEF Effect
<1>5. k \in Keys /\ InFlight(p) /\ api_operations[k] # None
      /\ api_operations[k].intent = request[p].intent
  BY <1>1, <1>4 DEF InFlight, FlightOK, Operation
<1>6. /\ effects[k] \subseteq set /\ set \subseteq effects[k] \cup {p}
      /\ k \notin Keyed => p \in set
      /\ k \in Keyed => set = effects[k] \/ (effects[k] = {} /\ set = {p})
      /\ set # {}
  BY <1>1, <1>2 DEF Applied
<1>7. set \subseteq Requests /\ r \in set
  BY <1>3, <1>5, <1>6 DEF TypeOK
<1>8. /\ phase' \in [Requests -> Phases] /\ phase'[p] = "audit"
      /\ \A q \in Requests \ {p} : phase'[q] = phase[q]
  BY <1>4 DEF To, TypeOK, Phases
<1>9. /\ effects' \in [Keys -> SUBSET Requests] /\ effects'[k] = set
      /\ \A j \in Keys \ {k} : effects'[j] = effects[j]
      /\ \A j \in Keys : effects[j] \subseteq effects'[j]
  BY <1>4, <1>5, <1>6, <1>7 DEF TypeOK
<1>10. /\ result' \in [Requests -> Requests \cup {None}] /\ result'[p] = r
       /\ \A q \in Requests \ {p} : result'[q] = result[q]
  BY <1>4, <1>7 DEF TypeOK
<1>11. \A q \in Requests : /\ Key(q)' = Key(q) /\ Key(q) \in Keys
                           /\ Operation(q)' = Operation(q)
                           /\ InFlight(q)' => InFlight(q)
  BY <1>4, <1>5, <1>8 DEF InFlight, Key, Operation
<1>12. TypeOK'
  BY <1>4, <1>8, <1>9, <1>10 DEF TypeOK
<1>13. FlightOK' /\ LeaseOK' /\ AnswerKept'
  BY <1>4, <1>11 DEF FlightOK, LeaseOK, AnswerKept
<1>14. EffectsOK'
  <2> SUFFICES ASSUME NEW j \in Keys
               PROVE  /\ \A q \in effects'[j] : /\ Key(q)' = j
                                                 /\ api_operations'[j] # None
                                                 /\ request'[q].intent = api_operations'[j].intent
                      /\ j \in Keyed => \A q, t \in effects'[j] : q = t
    BY DEF EffectsOK
  <2>1. CASE j # k
    BY <1>4, <1>9, <1>11, <2>1 DEF EffectsOK, TypeOK
  <2>2. CASE j = k
    <3>1. \A q \in set : Key(q) = k /\ request[q].intent = api_operations[k].intent
      BY <1>1, <1>5, <1>6 DEF EffectsOK
    <3>2. k \in Keyed => \A q, t \in set : q = t
      BY <1>5, <1>6 DEF EffectsOK
    <3> QED BY <1>4, <1>5, <1>7, <1>9, <1>11, <2>2, <3>1, <3>2
  <2> QED BY <2>1, <2>2
<1>15. ResultOK'
  <2>1. \A q \in Requests : phase'[q] \in {"audit", "completing"} => result'[q] \in effects'[Key(q)']
    BY <1>1, <1>7, <1>8, <1>9, <1>10, <1>11 DEF ResultOK
  <2>2. \A q \in Requests : phase'[q] = "completing" => q \in audited'[Key(q)']
    BY <1>4, <1>8, <1>11 DEF ResultOK
  <2>3. \A j \in Keys : api_operations'[j] # None /\ api_operations'[j].status = "succeeded"
                          => api_operations'[j].response \in effects'[j] /\ audited'[j] # {}
    BY <1>4, <1>9 DEF ResultOK
  <2> QED BY <2>1, <2>2, <2>3 DEF ResultOK
<1>16. AnswersAreBacked'
  BY <1>4, <1>9, <1>11 DEF AnswersAreBacked
<1> QED BY <1>12, <1>13, <1>14, <1>15, <1>16


\* The audit record of the call.
LEMMA AuditStep ==
    ASSUME IInv, NEW p \in Requests, Audit(p)
    PROVE  IInv'
<1> USE CallTypes DEF IInv
<1>1. PICK k : k = Key(p)
  OBVIOUS
<1>2. /\ phase[p] = "audit"
      /\ audited' = [audited EXCEPT ![k] = @ \cup {p}]
      /\ To(p, "completing")
      /\ UNCHANGED <<request, result, reply, api_operations, effects, overdue, owner, spoiled>>
  BY <1>1 DEF Audit
<1>3. /\ phase' \in [Requests -> Phases] /\ phase'[p] = "completing"
      /\ \A q \in Requests \ {p} : phase'[q] = phase[q]
  BY <1>2 DEF To, TypeOK, Phases
<1>4. /\ k \in Keys
      /\ audited' \in [Keys -> SUBSET Requests] /\ p \in audited'[k]
      /\ \A j \in Keys : audited[j] \subseteq audited'[j]
  BY <1>1, <1>2 DEF TypeOK
<1>5. \A q \in Requests : /\ Key(q)' = Key(q) /\ Key(q) \in Keys
                          /\ Operation(q)' = Operation(q)
                          /\ InFlight(q)' => InFlight(q)
  BY <1>2, <1>3 DEF InFlight, Key, Operation
<1>6. TypeOK'
  BY <1>2, <1>3, <1>4 DEF TypeOK
<1>7. FlightOK' /\ LeaseOK' /\ AnswerKept'
  BY <1>2, <1>5 DEF FlightOK, LeaseOK, AnswerKept
<1>8. EffectsOK'
  BY <1>2, <1>5 DEF EffectsOK, TypeOK
<1>9. ResultOK'
  <2>1. \A q \in Requests : phase'[q] \in {"audit", "completing"} => result'[q] \in effects'[Key(q)']
    BY <1>2, <1>3, <1>5 DEF ResultOK
  <2>2. \A q \in Requests : phase'[q] = "completing" => q \in audited'[Key(q)']
    BY <1>1, <1>3, <1>4, <1>5 DEF ResultOK
  <2>3. \A j \in Keys : api_operations'[j] # None /\ api_operations'[j].status = "succeeded"
                          => api_operations'[j].response \in effects'[j] /\ audited'[j] # {}
    BY <1>2, <1>4 DEF ResultOK
  <2> QED BY <2>1, <2>2, <2>3 DEF ResultOK
<1>10. AnswersAreBacked'
  BY <1>2, <1>4, <1>5 DEF AnswersAreBacked
<1> QED BY <1>6, <1>7, <1>8, <1>9, <1>10

\* A call records its failure, over whatever the row has become.
LEMMA FailureStep ==
    ASSUME IInv, NEW p \in Requests, RecordFailure(p)
    PROVE  IInv'
<1> USE CallTypes DEF IInv
<1>1. PICK k : k = Key(p)
  OBVIOUS
<1>2. PICK row : row = [api_operations[k] EXCEPT !.status = "failed"]
  BY Zenon
<1>3. /\ phase[p] = "failing"
      /\ api_operations' = [api_operations EXCEPT ![k] = row]
      /\ To(p, "error")
      /\ spoiled' = IF api_operations[k].status = "started" /\ owner[k] = p THEN spoiled
                    ELSE spoiled \cup {k}
      /\ UNCHANGED <<request, result, reply, effects, audited, overdue, owner>>
  BY <1>1, <1>2 DEF RecordFailure, Operation
<1>4. k \in Keys /\ InFlight(p) /\ api_operations[k] \in Row
  BY <1>1, <1>3 DEF InFlight, FlightOK, Operation
<1>5. /\ row \in Row /\ row # None
      /\ row.intent = api_operations[k].intent /\ row.status = "failed"
  BY <1>2, <1>4, NoneIsNoRow DEF Row
<1>6. /\ phase' \in [Requests -> Phases] /\ phase'[p] = "error"
      /\ \A q \in Requests \ {p} : phase'[q] = phase[q]
  BY <1>3 DEF To, TypeOK, Phases
<1>7. /\ api_operations' \in [Keys -> Row \cup {None}] /\ api_operations'[k] = row
      /\ \A j \in Keys \ {k} : api_operations'[j] = api_operations[j]
  BY <1>3, <1>4, <1>5 DEF TypeOK
<1>8. /\ spoiled \subseteq spoiled' /\ spoiled' \subseteq Keys
      /\ k \in spoiled' \/ (api_operations[k].status = "started" /\ owner[k] = p)
  BY <1>3, <1>4 DEF TypeOK
<1>9. \A q \in Requests : /\ Key(q)' = Key(q) /\ Key(q) \in Keys
                          /\ Operation(q)' = api_operations'[Key(q)]
                          /\ InFlight(q)' => InFlight(q) /\ q # p
                          /\ phase'[q] \in {"audit", "completing"} => phase'[q] = phase[q]
  BY <1>3, <1>6 DEF InFlight, Key, Operation
<1>10. TypeOK'
  BY <1>3, <1>6, <1>7, <1>8 DEF TypeOK
<1>11. FlightOK'
  BY <1>3, <1>5, <1>7, <1>9 DEF FlightOK, Operation
<1>12. EffectsOK'
  BY <1>3, <1>5, <1>7, <1>9 DEF EffectsOK, TypeOK
<1>13. ResultOK'
  BY <1>3, <1>5, <1>7, <1>9 DEF ResultOK
<1>14. AnswersAreBacked'
  BY <1>3, <1>9 DEF AnswersAreBacked
<1>15. LeaseOK'
  BY <1>3, <1>7, <1>8, <1>9 DEF LeaseOK, Operation
<1>16. AnswerKept'
  BY <1>3, <1>7, <1>8, <1>9 DEF AnswerKept, Operation
<1> QED BY <1>10, <1>11, <1>12, <1>13, <1>14, <1>15, <1>16

\* A call completes the row it finds started, and its caller hears of it or does not.
LEMMA SuccessStep ==
    ASSUME IInv, NEW p \in Requests, RecordSuccess(p)
    PROVE  IInv'
<1> USE CallTypes DEF IInv
<1>1. PICK k : k = Key(p)
  OBVIOUS
<1>2. PICK r : r = result[p]
  OBVIOUS
<1>3. PICK row : row = [api_operations[k] EXCEPT !.status = "succeeded", !.response = r]
  OBVIOUS
<1>4. /\ phase[p] = "completing" /\ api_operations[k].status = "started"
      /\ api_operations' = [api_operations EXCEPT ![k] = row]
      /\ \/ To(p, "answered") /\ reply' = [reply EXCEPT ![p] = r]
         \/ To(p, "dead") /\ UNCHANGED reply
      /\ UNCHANGED <<request, result, effects, audited, overdue, owner, spoiled>>
  BY <1>1, <1>2, <1>3 DEF RecordSuccess, Completes, SucceededRow, Operation
<1>5. /\ k \in Keys /\ InFlight(p) /\ api_operations[k] \in Row
      /\ api_operations[k].intent = request[p].intent
      /\ r \in effects[k] /\ r \in Requests /\ audited[k] # {}
  BY <1>1, <1>2, <1>4 DEF InFlight, FlightOK, Operation, ResultOK, TypeOK
<1>6. /\ row \in Row /\ row # None /\ row.intent = api_operations[k].intent
      /\ row.status = "succeeded" /\ row.response = r
  BY <1>3, <1>5, NoneIsNoRow, Zenon DEF Row
<1>7. request[r] = request[p]
  <2>1. Key(r) = Key(p) /\ request[r].intent = request[p].intent
    BY <1>1, <1>5 DEF EffectsOK
  <2> QED BY <1>5, <2>1, SameRequest
<1>8. /\ phase' \in [Requests -> Phases] /\ phase'[p] \in {"answered", "dead"}
      /\ \A q \in Requests \ {p} : phase'[q] = phase[q]
  BY <1>4, Zenon DEF To, TypeOK, Phases
<1>9. /\ reply' \in [Requests -> Requests \cup {None}] /\ reply'[p] \in {r, reply[p]}
      /\ \A q \in Requests \ {p} : reply'[q] = reply[q]
  BY <1>4, <1>5 DEF TypeOK
<1>10. /\ api_operations' \in [Keys -> Row \cup {None}] /\ api_operations'[k] = row
       /\ \A j \in Keys \ {k} : api_operations'[j] = api_operations[j]
  BY <1>4, <1>5, <1>6 DEF TypeOK
<1>11. \A q \in Requests : /\ Key(q)' = Key(q) /\ Key(q) \in Keys
                           /\ Operation(q)' = api_operations'[Key(q)]
                           /\ InFlight(q)' => InFlight(q) /\ q # p
                           /\ phase'[q] \in {"audit", "completing"} => phase'[q] = phase[q]
  BY <1>4, <1>8 DEF InFlight, Key, Operation
<1>12. TypeOK'
  BY <1>4, <1>8, <1>9, <1>10 DEF TypeOK
<1>13. FlightOK'
  BY <1>4, <1>6, <1>10, <1>11 DEF FlightOK, Operation
<1>14. EffectsOK'
  BY <1>4, <1>6, <1>10, <1>11 DEF EffectsOK, TypeOK
<1>15. ResultOK'
  BY <1>4, <1>5, <1>6, <1>10, <1>11 DEF ResultOK
<1>16. AnswersAreBacked'
  BY <1>1, <1>4, <1>5, <1>7, <1>9, <1>11 DEF AnswersAreBacked
<1>17. LeaseOK'
  BY <1>4, <1>6, <1>10, <1>11 DEF LeaseOK, Operation
<1>18. AnswerKept'
  <2>1. \A q \in Requests : reply[q] # None /\ Key(q) \notin spoiled => Key(q) # k
    BY <1>4 DEF AnswerKept, Operation
  <2> QED BY <1>1, <1>4, <1>6, <1>9, <1>10, <1>11, <2>1 DEF AnswerKept, Operation
<1> QED BY <1>12, <1>13, <1>14, <1>15, <1>16, <1>17, <1>18

\* The lease of a key runs out: every call executing the key is overdue.
LEMMA LeaseStep ==
    ASSUME IInv, NEW k \in Keys, LeaseRunsOut(k)
    PROVE  IInv'
<1> USE CallTypes DEF IInv
<1>1. PICK row : row = [api_operations[k] EXCEPT !.lease_active = FALSE]
  BY Zenon
<1>2. /\ api_operations[k] \in Row /\ api_operations[k].status = "started"
      /\ api_operations' = [api_operations EXCEPT ![k] = row]
      /\ overdue' = overdue \cup {p \in Requests : InFlight(p) /\ Key(p) = k}
      /\ UNCHANGED <<request, phase, result, reply, effects, audited, owner, spoiled>>
  BY <1>1 DEF LeaseRunsOut, TypeOK
<1>3. row \in Row /\ row # None
  <2>1. ASSUME NEW old \in Row, NEW l \in BOOLEAN
        PROVE  [old EXCEPT !.lease_active = l] \in Row
    BY DEF Row
  <2>2. row \in Row
    BY <1>1, <1>2, <2>1, Zenon
  <2> QED BY <2>2, NoneIsNoRow
<1>4. row.intent = api_operations[k].intent /\ row.status = "started"
  BY <1>1, <1>2 DEF Row
<1>5. /\ api_operations' \in [Keys -> Row \cup {None}] /\ api_operations'[k] = row
      /\ \A j \in Keys \ {k} : api_operations'[j] = api_operations[j]
  BY <1>2, <1>3 DEF TypeOK
<1>6. \A q \in Requests : /\ Key(q)' = Key(q) /\ Key(q) \in Keys
                          /\ Operation(q)' = api_operations'[Key(q)]
                          /\ InFlight(q)' = InFlight(q)
  BY <1>2 DEF InFlight, Key, Operation
<1>7. TypeOK'
  BY <1>2, <1>5 DEF TypeOK
<1>8. FlightOK'
  BY <1>2, <1>3, <1>4, <1>5, <1>6 DEF FlightOK, Operation
<1>9. EffectsOK'
  BY <1>2, <1>3, <1>4, <1>5, <1>6 DEF EffectsOK, TypeOK
<1>10. ResultOK'
  BY <1>2, <1>4, <1>5, <1>6 DEF ResultOK
<1>11. AnswersAreBacked'
  BY <1>2, <1>6 DEF AnswersAreBacked
<1>12. LeaseOK'
  BY <1>2, <1>5, <1>6 DEF LeaseOK, Operation
<1>13. AnswerKept'
  BY <1>2, <1>5, <1>6 DEF AnswerKept, Operation
<1> QED BY <1>7, <1>8, <1>9, <1>10, <1>11, <1>12, <1>13

\* Every step of the API, a stuttering one included.
LEMMA NextIInv == IInv /\ [Next]_vars => IInv'
<1> SUFFICES ASSUME IInv, [Next]_vars PROVE IInv'
  OBVIOUS
<1>1. CASE UNCHANGED vars
  BY <1>1 DEF vars, IInv, TypeOK, FlightOK, EffectsOK, ResultOK, AnswersAreBacked, LeaseOK,
              AnswerKept, InFlight, Key, Operation
<1>2. ASSUME NEW p \in Requests, Refuse(p) \/ LeaseLost(p) PROVE IInv'
  BY <1>2, PhaseStep, CallTypes DEF Refuse, LeaseLost, Steps, IInv
<1>3. ASSUME NEW p \in Requests, CallbackRaises(p) PROVE IInv'
  BY <1>3, PhaseStep, CallTypes DEF CallbackRaises, Steps, IInv, InFlight
<1>4. ASSUME NEW p \in Requests, Crash(p) PROVE IInv'
  BY <1>4, PhaseStep, CallTypes DEF Crash, Steps, IInv
<1>5. ASSUME NEW p \in Requests, Serve(p) PROVE IInv'
  BY <1>2, <1>3, <1>5, ReplayStep, StartStep, EffectStep, AuditStep, FailureStep, SuccessStep
     DEF Serve
<1>6. CASE \E k \in Keys : LeaseRunsOut(k)
  BY <1>6, LeaseStep
<1> QED BY <1>1, <1>4, <1>5, <1>6 DEF Next

\* IInv holds in every reachable state.
THEOREM Invariance == Spec => []IInv
BY InitIInv, NextIInv, PTL DEF Spec

-----------------------------------------------------------------------------
\* Every answer reports an effect applied and audited for the same key and intent.
THEOREM AnswersBacked == Spec => []AnswersAreBacked
<1>1. IInv => AnswersAreBacked
  BY DEF IInv
<1> QED BY <1>1, Invariance, PTL

\* Of two calls executing one key, one has outlived its lease, unless a call recorded
\* its failure over another's attempt.
THEOREM LeaseExclusion == Spec => []LeaseExcludes
<1>1. IInv => LeaseExcludes
  BY DEF IInv, LeaseOK, LeaseExcludes
<1> QED BY <1>1, Invariance, PTL

\* All answers to one key agree, for a keyed effect without any condition.
THEOREM Agreement == Spec => []AnswersAgree
<1>1. IInv => AnswersAgree
  <2> SUFFICES ASSUME IInv, NEW p \in Requests, NEW q \in Requests, Key(p) = Key(q),
                      reply[p] # None, reply[q] # None,
                      Key(p) \in Keyed \/ Key(p) \notin spoiled
               PROVE  reply[p] = reply[q]
    BY DEF AnswersAgree
  <2>1. CASE Key(p) \in Keyed
    BY <2>1, CallTypes DEF IInv, AnswersAreBacked, EffectsOK
  <2>2. CASE Key(p) \notin spoiled
    BY <2>2 DEF IInv, AnswerKept, Operation
  <2> QED BY <2>1, <2>2
<1> QED BY <1>1, Invariance, PTL

(***************************************************************************)
(* Sums over a finite set: a fold takes the elements in an order of its    *)
(* own, so that it has a value, and that any element may be taken first,   *)
(* has to be shown.                                                        *)
(***************************************************************************)
\* A set of naturals has a least element.
LEMMA Least ==
    ASSUME NEW T, T \subseteq Nat, T # {}
    PROVE  \E m \in T : \A k \in T : m <= k
<1>1. PICK m \in T : \A k \in T : ~(<<k, m>> \in OpToRel(<, Nat))
  BY NatLessThanWellFounded, WFMin, Zenon
<1>2. \A k \in T : ~(k < m)
  BY <1>1, Zenon DEF OpToRel
<1> QED
  BY <1>2

Chosen(T) == CHOOSE x \in T : TRUE

\* g sums d over the sets in D, the element that the fold chooses first.
Sums(g, D, d) ==
    g = [T \in D |-> IF T = {} THEN 0 ELSE d[Chosen(T)] + g[T \ {Chosen(T)}]]

Summing(g, S, d) ==
    (\A x \in S : d[x] \in Nat) /\ g \in [SUBSET S -> Nat] /\ Sums(g, SUBSET S, d)

\* Any element may be the one that is taken first.
AnyFirst(g, S, d) == \A T \in SUBSET S : \A x \in T : g[T] = d[x] + g[T \ {x}]

Small(S, n) == {T \in SUBSET S : Cardinality(T) <= n}

\* What is left of a finite set without one of its elements.
LEMMA WithoutChosen ==
    ASSUME NEW S, IsFiniteSet(S), NEW T \in SUBSET S, T # {}
    PROVE  /\ Chosen(T) \in T /\ T \ {Chosen(T)} \in SUBSET S
           /\ IsFiniteSet(T) /\ Cardinality(T) \in Nat
           /\ \A x \in T : Cardinality(T \ {x}) = Cardinality(T) - 1
<1>1. Chosen(T) \in T
  BY Zenon DEF Chosen
<1>2. IsFiniteSet(T) /\ Cardinality(T) \in Nat
  BY FS_Subset, FS_CardinalityType
<1>3. \A x \in T : Cardinality(T \ {x}) = Cardinality(T) - 1
  BY <1>2, FS_RemoveElement, Zenon
<1> QED
  BY <1>1, <1>2, <1>3

\* The sum over every subset of a finite set is defined.
LEMMA SumExists ==
    ASSUME NEW J, NEW d \in [J -> Nat], NEW S \in SUBSET J, IsFiniteSet(S)
    PROVE  \E g : Summing(g, S, d)
<1> DEFINE Summed(n) == \E g \in [Small(S, n) -> Nat] : Sums(g, Small(S, n), d)
           Rest == {n \in Nat : ~Summed(n)}
<1>1. \A n \in Nat : Summed(n)
  <2> SUFFICES ASSUME Rest # {} PROVE FALSE
    OBVIOUS
  <2>1. PICK m \in Rest : \A k \in Rest : m <= k
    BY Least, Zenon
  <2>2. m # 0
    <3>1. Small(S, 0) = {{}}
      <4>1. \A T \in SUBSET S : IsFiniteSet(T) /\ Cardinality(T) \in Nat
        BY FS_Subset, FS_CardinalityType
      <4>2. \A T \in SUBSET S : Cardinality(T) <= 0 <=> T = {}
        BY <4>1, FS_EmptySet
      <4> QED
        BY <4>2 DEF Small
    <3>2. PICK g : g = [T \in {{}} |-> 0]
      BY Zenon
    <3>3. g \in [Small(S, 0) -> Nat]
      BY <3>1, <3>2
    <3>4. Sums(g, Small(S, 0), d)
      BY <3>1, <3>2 DEF Sums
    <3> QED
      BY <2>1, <3>3, <3>4
  <2>3. m - 1 \in Nat /\ Summed(m - 1)
    BY <2>1, <2>2
  <2>4. PICK g \in [Small(S, m - 1) -> Nat] : Sums(g, Small(S, m - 1), d)
    BY <2>3
  <2>5. ASSUME NEW T \in Small(S, m), T # {}
        PROVE  Chosen(T) \in J /\ T \ {Chosen(T)} \in Small(S, m - 1)
    <3>1. T \in SUBSET S /\ Cardinality(T) <= m
      BY DEF Small
    <3> QED
      BY <2>5, <3>1, WithoutChosen DEF Small
  <2>6. Small(S, m - 1) \subseteq Small(S, m)
    <3>1. \A T \in SUBSET S : Cardinality(T) \in Nat
      BY FS_Subset, FS_CardinalityType
    <3> QED
      BY <2>3, <3>1 DEF Small
  <2>7. PICK h : h = [T \in Small(S, m) |-> IF T = {} THEN 0
                                            ELSE d[Chosen(T)] + g[T \ {Chosen(T)}]]
    BY Zenon
  <2>8. h \in [Small(S, m) -> Nat]
    <3>1. \A T \in Small(S, m) : T # {} => d[Chosen(T)] \in Nat /\ g[T \ {Chosen(T)}] \in Nat
      BY <2>4, <2>5
    <3>2. \A T \in Small(S, m) : h[T] \in Nat
      BY <2>7, <3>1
    <3> QED
      BY <2>7, <3>2, Zenon
  <2>9. \A T \in Small(S, m - 1) : h[T] = g[T]
    BY <2>4, <2>6, <2>7, Zenon DEF Sums
  <2>10. Sums(h, Small(S, m), d)
    <3>1. \A T \in Small(S, m) : T # {} => g[T \ {Chosen(T)}] = h[T \ {Chosen(T)}]
      BY <2>5, <2>9
    <3>2. \A T \in Small(S, m) : h[T] = IF T = {} THEN 0
                                        ELSE d[Chosen(T)] + h[T \ {Chosen(T)}]
      BY <2>7, <3>1, Zenon
    <3> QED
      BY <2>7, <3>2, Zenon DEF Sums
  <2> QED
    BY <2>1, <2>8, <2>10
<1>2. PICK n \in Nat : Small(S, n) = SUBSET S
  <2>1. Cardinality(S) \in Nat
    BY FS_CardinalityType
  <2>2. \A T \in SUBSET S : Cardinality(T) <= Cardinality(S)
    BY FS_Subset
  <2> QED
    BY <2>1, <2>2 DEF Small
<1>3. \E g \in [SUBSET S -> Nat] : Sums(g, SUBSET S, d)
  BY <1>1, <1>2, Zenon
<1> QED
  BY <1>3 DEF Summing

\* The order in which the fold takes the elements does not matter.
LEMMA SumWithout ==
    ASSUME NEW S, IsFiniteSet(S), NEW d, NEW g, Summing(g, S, d)
    PROVE  AnyFirst(g, S, d)
<1> USE DEF Summing
<1> DEFINE Differs(T) == \E x \in T : g[T] # d[x] + g[T \ {x}]
           Sizes == {n \in Nat : \E T \in SUBSET S : Cardinality(T) = n /\ Differs(T)}
<1> SUFFICES ASSUME Sizes # {} PROVE FALSE
  <2>1. \A T \in SUBSET S : Cardinality(T) \in Nat
    BY FS_Subset, FS_CardinalityType
  <2> QED
    BY <2>1, Zenon DEF AnyFirst
<1>1. PICK n \in Sizes : \A k \in Sizes : n <= k
  BY Least, Zenon
<1>2. PICK T \in SUBSET S : Cardinality(T) = n /\ Differs(T)
  BY <1>1
<1>3. PICK x \in T : g[T] # d[x] + g[T \ {x}]
  BY <1>2, Zenon
<1> PICK c : c = Chosen(T)
  OBVIOUS
<1>4. /\ c \in T /\ T \ {c} \in SUBSET S /\ T \ {x} \in SUBSET S
      /\ Cardinality(T) \in Nat
      /\ Cardinality(T \ {c}) = Cardinality(T) - 1 /\ Cardinality(T \ {x}) = Cardinality(T) - 1
  BY <1>3, WithoutChosen
<1>5. g[T] = d[c] + g[T \ {c}]
  BY <1>3, Zenon DEF Sums
<1>6. x # c
  BY <1>3, <1>5, Zenon
<1>7. ~Differs(T \ {c}) /\ ~Differs(T \ {x})
  <2>1. n - 1 \notin Sizes /\ n # 0
    <3>1. n # 0
      BY <1>2, <1>4, FS_Subset, FS_EmptySet
    <3> QED
      BY <1>1, <3>1
  <2>2. n - 1 \in Nat
    BY <1>1, <2>1
  <2> QED
    BY <1>2, <1>4, <2>1, <2>2, Zenon
<1>8. x \in T \ {c} /\ c \in T \ {x} /\ (T \ {c}) \ {x} = (T \ {x}) \ {c}
  BY <1>3, <1>4, <1>6
<1>9. /\ g[T \ {c}] = d[x] + g[(T \ {c}) \ {x}]
      /\ g[T \ {x}] = d[c] + g[(T \ {c}) \ {x}]
  BY <1>7, <1>8, Zenon
<1>10. d[x] \in Nat /\ d[c] \in Nat /\ (T \ {c}) \ {x} \in SUBSET S
  BY <1>3, <1>4
<1>11. g[(T \ {c}) \ {x}] \in Nat
  BY <1>10
<1> QED
  BY <1>3, <1>5, <1>9, <1>10, <1>11

\* Nor does the set whose subsets are summed.
LEMMA SumSame ==
    ASSUME NEW S, IsFiniteSet(S), NEW R \in SUBSET S, NEW d,
           NEW g, Summing(g, S, d), NEW h, Sums(h, SUBSET R, d)
    PROVE  \A T \in SUBSET R : h[T] = g[T]
<1> USE DEF Summing
<1> DEFINE Sizes == {n \in Nat : \E T \in SUBSET R : Cardinality(T) = n /\ h[T] # g[T]}
<1> SUFFICES ASSUME Sizes # {} PROVE FALSE
  <2>1. \A T \in SUBSET R : Cardinality(T) \in Nat
    BY FS_Subset, FS_CardinalityType
  <2> QED
    BY <2>1
<1>1. PICK n \in Sizes : \A k \in Sizes : n <= k
  BY Least, Zenon
<1>2. PICK T \in SUBSET R : Cardinality(T) = n /\ h[T] # g[T]
  BY <1>1
<1>3. T \in SUBSET S
  BY <1>2
<1>4. T # {}
  BY <1>2, <1>3 DEF Sums
<1> PICK c : c = Chosen(T)
  OBVIOUS
<1>5. c \in T /\ Cardinality(T) \in Nat /\ Cardinality(T \ {c}) = Cardinality(T) - 1
  BY <1>3, <1>4, WithoutChosen
<1>6. n # 0
  BY <1>2, <1>3, <1>4, FS_Subset, FS_EmptySet
<1>7. n - 1 \in Nat /\ n - 1 \notin Sizes
  BY <1>1, <1>6
<1>8. h[T \ {c}] = g[T \ {c}]
  <2>1. T \ {c} \in SUBSET R
    BY <1>2
  <2> QED
    BY <1>2, <1>5, <1>7, <2>1
<1>9. h[T] = d[c] + h[T \ {c}] /\ g[T] = d[c] + g[T \ {c}]
  BY <1>2, <1>3, <1>4, Zenon DEF Sums
<1> QED
  BY <1>2, <1>8, <1>9

\* A sum over a set without one of its elements is the sum over what is left.
LEMMA SumLess ==
    ASSUME NEW R, IsFiniteSet(R), NEW j \in R, NEW S, S = R \ {j}, NEW d,
           NEW h, Summing(h, R, d), NEW g, Summing(g, S, d)
    PROVE  h[R] = d[j] + g[S]
<1>1. S \in SUBSET R /\ R \in SUBSET R /\ S \in SUBSET S
  OBVIOUS
<1>2. AnyFirst(h, R, d)
  BY SumWithout
<1>3. Sums(g, SUBSET S, d)
  BY DEF Summing
<1>4. \A T \in SUBSET S : g[T] = h[T]
  BY <1>1, <1>3, SumSame
<1> QED
  BY <1>1, <1>2, <1>4 DEF AnyFirst

(***************************************************************************)
(* The quota ledger.  Its total is a fold over a set of jobs: a sum, to    *)
(* which a job more adds its demand.                                       *)
(***************************************************************************)
CONSTANTS Connections, Jobs, Snapshots, Quotas
VARIABLES ledger, reservations, conn, admitted

Quota == INSTANCE QuotaLedger

Fields == {"gpus", "hours", "jobs"}
Amounts == [Fields -> Nat]

\* What a job is charged of a field, and the total of a set of jobs.
Charges(f) == [j \in Quota!JobIds |-> Quota!Demand(j)[f]]
SumOver(S, f) == Quota!MapThenSumSet(LAMBDA j : Quota!Demand(j)[f], S)

\* A fold in the form in which the ledger's total is defined.
Folds(g, S, f) ==
    g = [T \in SUBSET S |-> IF T = {} THEN 0
                            ELSE Quota!Demand(Chosen(T))[f] + g[T \ {Chosen(T)}]]

\* The total of a finite set of jobs is a sum of their charges.
LEMMA TotalSums ==
    ASSUME NEW f, NEW d \in [Quota!JobIds -> Nat], d = Charges(f),
           NEW S \in SUBSET Quota!JobIds, IsFiniteSet(S)
    PROVE  \E g : Summing(g, S, d) /\ SumOver(S, f) = g[S]
<1>1. PICK g : Summing(g, S, d)
  BY SumExists
<1>2. \A T \in SUBSET S : T # {} => d[Chosen(T)] = Quota!Demand(Chosen(T))[f]
  <2>1. \A T \in SUBSET S : T # {} => Chosen(T) \in Quota!JobIds
    BY WithoutChosen
  <2> QED
    BY <2>1 DEF Charges
<1>3. \A h : Folds(h, S, f) <=> Sums(h, SUBSET S, d)
  BY <1>2, Zenon DEF Folds, Sums
<1>4. PICK r : r = CHOOSE h : Folds(h, S, f)
  OBVIOUS
<1>5. Folds(r, S, f)
  BY <1>1, <1>3, <1>4, Zenon DEF Summing
<1>6. SumOver(S, f) = r[S]
  BY <1>4 DEF SumOver, Quota!MapThenSumSet, Quota!MapThenFoldSet, Folds, Chosen
<1>7. r[S] = g[S]
  <2>1. Sums(r, SUBSET S, d) /\ S \in SUBSET S
    BY <1>3, <1>5, Zenon
  <2>2. \A T \in SUBSET S : r[T] = g[T]
    BY <1>1, <2>1, SumSame
  <2> QED
    BY <2>2
<1> QED
  BY <1>1, <1>6, <1>7

\* The total of no job is nothing, and a job more adds its demand.
LEMMA TotalAdds ==
    ASSUME NEW f, Charges(f) \in [Quota!JobIds -> Nat],
           NEW S \in SUBSET Quota!JobIds, IsFiniteSet(S)
    PROVE  /\ SumOver(S, f) \in Nat
           /\ S = {} => SumOver(S, f) = 0
           /\ \A j \in Quota!JobIds \ S :
                 SumOver(S \cup {j}, f) = SumOver(S, f) + Quota!Demand(j)[f]
<1>1. PICK d \in [Quota!JobIds -> Nat] : d = Charges(f)
  OBVIOUS
<1>2. PICK g : Summing(g, S, d) /\ SumOver(S, f) = g[S]
  BY <1>1, TotalSums
<1>3. SumOver(S, f) \in Nat
  BY <1>2 DEF Summing
<1>4. S = {} => SumOver(S, f) = 0
  BY <1>2 DEF Summing, Sums
<1>5. ASSUME NEW j \in Quota!JobIds \ S
      PROVE  SumOver(S \cup {j}, f) = SumOver(S, f) + Quota!Demand(j)[f]
  <2>1. PICK R : R = S \cup {j}
    BY Zenon
  <2>2. /\ R \in SUBSET Quota!JobIds /\ IsFiniteSet(R) /\ S \in SUBSET R
        /\ j \in R /\ R \ {j} = S
    BY <2>1, FS_AddElement
  <2>3. PICK h : Summing(h, R, d) /\ SumOver(R, f) = h[R]
    BY <1>1, <2>2, TotalSums
  <2>4. h[R] = d[j] + g[S]
    BY <1>2, <2>2, <2>3, SumLess
  <2>5. d[j] = Quota!Demand(j)[f] /\ d[j] \in Nat /\ g[S] \in Nat
    BY <1>1, <1>2, <2>2 DEF Charges, Summing
  <2>6. SumOver(R, f) = SumOver(S, f) + Quota!Demand(j)[f]
    BY <1>2, <2>3, <2>4, <2>5
  <2> QED
    BY <2>1, <2>6
<1> QED
  BY <1>3, <1>4, <1>5

LedgerRows == [max : Amounts, used : Amounts]
ReservationRows == [demand : Amounts, released : BOOLEAN]
OpenReserves == [job : Quota!JobIds, charged : BOOLEAN]

\* The sizes of a job and the limits are counts, and None is no row.
QuotaAssumption ==
    /\ \A j \in Quota!JobIds : Jobs[j].gpus \in Nat /\ Jobs[j].hours \in Nat
    /\ Quotas \subseteq Amounts
    /\ None \notin LedgerRows /\ None \notin ReservationRows /\ None \notin OpenReserves

QuotaTypes ==
    /\ ledger # None => ledger \in LedgerRows
    /\ DOMAIN reservations = Quota!JobIds
    /\ \A j \in Quota!JobIds : reservations[j] # None => reservations[j] \in ReservationRows
    /\ DOMAIN conn = Connections
    /\ \A c \in Connections : conn[c] # None => conn[c] \in OpenReserves
    /\ admitted \subseteq Quota!JobIds

\* A charge fits, and nobody else writes the ledger until it is committed.
Charged(c) == conn[c] # None /\ conn[c].charged
ChargesFit ==
    \A c \in Connections : Charged(c) =>
        /\ ledger # None /\ Quota!Fits(conn[c].job)
        /\ \A e \in Connections : Charged(e) => e = c

\* There is one row under a key, and what is admitted has a row of its demand.
OneRow ==
    \A i, j \in Quota!JobIds :
        reservations[i] # None /\ reservations[j] # None /\ Jobs[i].key = Jobs[j].key => i = j
Held(j) == \E i \in Quota!Prior(j) : reservations[i].demand = Quota!Demand(j)

\* The sum of the open reservations is what the ledger says, within its limits.
Backed ==
    /\ IsFiniteSet(Quota!Outstanding)
    /\ ledger = None => Quota!Outstanding = {}
    /\ ledger # None => \A f \in Fields : /\ ledger.used[f] = SumOver(Quota!Outstanding, f)
                                          /\ ledger.used[f] <= ledger.max[f]
    /\ OneRow
    /\ \A j \in admitted : Held(j)

QuotaInv == QuotaTypes /\ ChargesFit /\ Backed

\* What a job is charged is an amount.
LEMMA DemandType ==
    ASSUME QuotaAssumption
    PROVE  /\ \A j \in Quota!JobIds : Quota!Demand(j) \in Amounts
           /\ Quota!Nothing \in Amounts
           /\ \A f \in Fields : Charges(f) \in [Quota!JobIds -> Nat] /\ Quota!Nothing[f] = 0
<1>1. ASSUME NEW j \in Quota!JobIds PROVE Quota!Demand(j) \in Amounts
  <2>1. Jobs[j].gpus \in Nat /\ Jobs[j].hours \in Nat
    BY DEF QuotaAssumption
  <2>2. PICK g \in Nat, h \in Nat : g = Jobs[j].gpus /\ h = Jobs[j].gpus * Jobs[j].hours
    BY <2>1
  <2>3. Quota!Demand(j) = [gpus |-> g, hours |-> h, jobs |-> 1]
    BY <2>2 DEF Quota!Demand
  <2> QED
    BY <2>3 DEF Amounts, Fields
<1>2. Quota!Nothing \in Amounts /\ \A f \in Fields : Quota!Nothing[f] = 0
  BY DEF Amounts, Fields, Quota!Nothing
<1>3. ASSUME NEW f \in Fields PROVE Charges(f) \in [Quota!JobIds -> Nat]
  <2>1. \A j \in Quota!JobIds : Quota!Demand(j)[f] \in Nat
    BY <1>1 DEF Amounts
  <2> QED
    BY <2>1 DEF Charges
<1> QED
  BY <1>1, <1>2, <1>3

\* The arithmetic of the ledger, field by field.
LEMMA AmountArithmetic ==
    ASSUME NEW a \in Amounts, NEW b \in Amounts
    PROVE  /\ Quota!Plus(a, b) \in Amounts /\ Quota!Minus(a, b) \in Amounts
           /\ \A f \in Fields : /\ a[f] \in Nat /\ b[f] \in Nat
                                /\ Quota!Plus(a, b)[f] = a[f] + b[f]
                                /\ b[f] <= a[f] => Quota!Minus(a, b)[f] = a[f] - b[f]
           /\ Quota!Within(a, b) <=> \A f \in Fields : a[f] <= b[f]
<1>1. DOMAIN a = Fields /\ \A f \in Fields : a[f] \in Nat /\ b[f] \in Nat
  BY DEF Amounts
<1>2. Quota!Plus(a, b) \in Amounts /\ Quota!Minus(a, b) \in Amounts
  BY <1>1 DEF Amounts, Quota!Plus, Quota!Minus
<1>3. \A f \in Fields : /\ Quota!Plus(a, b)[f] = a[f] + b[f]
                        /\ b[f] <= a[f] => Quota!Minus(a, b)[f] = a[f] - b[f]
  BY <1>1 DEF Quota!Plus, Quota!Minus
<1>4. Quota!Within(a, b) <=> \A f \in Fields : a[f] <= b[f]
  BY <1>1 DEF Quota!Within
<1> QED
  BY <1>1, <1>2, <1>3, <1>4

LEMMA QuotaInit == ASSUME QuotaAssumption, Quota!Init PROVE QuotaInv
<1>1. QuotaTypes /\ ChargesFit
  BY DEF Quota!Init, QuotaTypes, ChargesFit, Charged
<1>2. Quota!Outstanding = {}
  BY DEF Quota!Init, Quota!Outstanding
<1>3. Backed
  BY <1>2, FS_EmptySet DEF Quota!Init, Backed, OneRow
<1> QED
  BY <1>1, <1>3 DEF QuotaInv

\* Without a charge the row is unlocked.
LEMMA Unlocked == Quota!Locked <=> \E c \in Connections : Charged(c)
  BY DEF Quota!Locked, Charged

\* What a row says of its key holds as long as it is there.
LEMMA SameRows ==
    ASSUME reservations' = reservations PROVE (OneRow' <=> OneRow) /\ \A j : Held(j)' <=> Held(j)
  BY DEF OneRow, Held, Quota!Prior

LEMMA RowsKept ==
    ASSUME NEW j, Held(j),
           \A i \in Quota!JobIds : reservations[i] # None =>
               reservations'[i] # None /\ reservations'[i].demand = reservations[i].demand
    PROVE  Held(j)'
  BY DEF Held, Quota!Prior

LEMMA QuotaConfigure ==
    ASSUME QuotaAssumption, QuotaInv, Quota!ConfigureQuota PROVE QuotaInv'
<1> USE DEF QuotaInv
<1>1. PICK quota \in Quotas : Quota!Configure(quota)
  BY DEF Quota!ConfigureQuota
<1>2. PICK used : used = IF ledger = None THEN Quota!Nothing ELSE ledger.used
  OBVIOUS
<1>3. /\ ledger' = [max |-> quota, used |-> used] /\ ~Quota!Locked /\ Quota!Configurable(quota)
      /\ reservations' = reservations /\ conn' = conn /\ admitted' = admitted
  BY <1>1, <1>2 DEF Quota!Configure
<1>4. quota \in Amounts /\ used \in Amounts
  BY <1>2, DemandType DEF QuotaAssumption, QuotaTypes, LedgerRows
<1>5. PICK w \in LedgerRows : w = ledger' /\ w.max = quota /\ w.used = used /\ w # None
  BY <1>3, <1>4 DEF LedgerRows, QuotaAssumption
<1>6. QuotaTypes'
  BY <1>3, <1>5 DEF QuotaTypes
<1>7. ChargesFit'
  <2>1. \A c \in Connections : ~Charged(c)
    BY <1>3, Unlocked
  <2>2. \A c \in Connections : ~Charged(c)'
    BY <1>3, <2>1 DEF Charged
  <2> QED
    BY <2>2 DEF ChargesFit
<1>8. Backed'
  <2>1. Quota!Outstanding' = Quota!Outstanding
    BY <1>3 DEF Quota!Outstanding
  <2>2. ASSUME NEW f \in Fields
        PROVE  used[f] = SumOver(Quota!Outstanding, f) /\ used[f] <= quota[f]
    <3>1. CASE ledger = None
      <4>1. used[f] = 0 /\ quota[f] \in Nat
        BY <1>2, <1>4, <3>1, DemandType DEF Amounts
      <4>2. PICK S : S = Quota!Outstanding /\ S = {}
        BY <3>1 DEF Backed
      <4>3. S \in SUBSET Quota!JobIds /\ IsFiniteSet(S)
        BY <4>2, FS_EmptySet
      <4>4. SumOver(S, f) = 0
        BY <4>2, <4>3, DemandType, TotalAdds
      <4> QED
        BY <4>1, <4>2, <4>4
    <3>2. CASE ledger # None
      <4>1. Quota!Within(used, quota) /\ used[f] = SumOver(Quota!Outstanding, f)
        BY <1>2, <1>3, <3>2 DEF Quota!Configurable, Backed
      <4> QED
        BY <1>4, <4>1, AmountArithmetic
    <3> QED
      BY <3>1, <3>2
  <2>3. \A f \in Fields : /\ w.used[f] = SumOver(Quota!Outstanding, f)
                          /\ w.used[f] <= w.max[f]
    BY <1>5, <2>2
  <2>4. \A f \in Fields : /\ ledger'.used[f] = SumOver(Quota!Outstanding', f)
                          /\ ledger'.used[f] <= ledger'.max[f]
    BY <1>5, <2>1, <2>3
  <2>5. OneRow' /\ \A j \in admitted' : Held(j)'
    BY <1>3, SameRows DEF Backed
  <2> QED
    BY <1>3, <1>5, <2>1, <2>4, <2>5 DEF Backed
<1> QED
  BY <1>6, <1>7, <1>8

\* The open reserve of c becomes w.
ConnBecomes(c, w) ==
    /\ DOMAIN conn' = Connections /\ conn'[c] = w
    /\ \A e \in Connections \ {c} : conn'[e] = conn[e]

LEMMA SetConn ==
    ASSUME QuotaInv, NEW c \in Connections, NEW w,
           conn' = [conn EXCEPT ![c] = w] \/ (conn' = conn /\ conn[c] = w)
    PROVE  ConnBecomes(c, w)
  BY DEF QuotaInv, QuotaTypes, ConnBecomes

\* A connection whose open reserve begins, is aborted or fails leaves the tables alone.
LEMMA QuotaConnection ==
    ASSUME QuotaAssumption, QuotaInv, NEW c \in Connections, NEW w,
           w # None => w \in OpenReserves /\ ~w.charged,
           ConnBecomes(c, w), ledger' = ledger, reservations' = reservations,
           admitted \subseteq admitted', admitted' \subseteq Quota!JobIds,
           \A j \in admitted' : Held(j)
    PROVE  QuotaInv'
<1> USE DEF QuotaInv
<1>1. /\ DOMAIN conn' = Connections /\ conn'[c] = w
      /\ \A e \in Connections \ {c} : conn'[e] = conn[e]
  BY DEF ConnBecomes
<1>2. QuotaTypes'
  BY <1>1 DEF QuotaTypes
<1>3. ChargesFit'
  <2>1. \A e \in Connections : Charged(e)' => Charged(e) /\ conn'[e] = conn[e]
    BY <1>1 DEF Charged
  <2>2. \A j : Quota!Fits(j)' <=> Quota!Fits(j)
    BY DEF Quota!Fits
  <2> QED
    BY <2>1, <2>2 DEF ChargesFit
<1>4. Backed'
  <2>1. Quota!Outstanding' = Quota!Outstanding
    BY DEF Quota!Outstanding
  <2>2. OneRow' /\ \A j \in admitted' : Held(j)'
    BY SameRows DEF Backed
  <2> QED
    BY <2>1, <2>2 DEF Backed
<1> QED
  BY <1>2, <1>3, <1>4

LEMMA QuotaEvaluate ==
    ASSUME QuotaAssumption, QuotaInv, NEW c \in Connections, NEW j \in Quota!JobIds,
           NEW snap, Quota!Evaluate(c, j, snap)
    PROVE  QuotaInv'
<1>1. ledger' = ledger /\ reservations' = reservations /\ conn[c] = None
  BY DEF Quota!Evaluate
<1>2. CASE conn' = [conn EXCEPT ![c] = [job |-> j, charged |-> FALSE]] /\ admitted' = admitted
  <2>1. PICK w : w = [job |-> j, charged |-> FALSE]
    BY Zenon
  <2>2. w \in OpenReserves /\ ~w.charged /\ conn' = [conn EXCEPT ![c] = w]
    BY <1>2, <2>1 DEF OpenReserves
  <2>3. ConnBecomes(c, w)
    BY <2>2, SetConn, Zenon
  <2>4. admitted' \subseteq Quota!JobIds /\ \A i \in admitted' : Held(i)
    BY <1>2 DEF QuotaInv, QuotaTypes, Backed
  <2> QED
    BY <1>1, <1>2, <2>2, <2>3, <2>4, QuotaConnection
<1>3. CASE Held(j) /\ admitted' = admitted \cup {j} /\ conn' = conn
  <2>1. ConnBecomes(c, None)
    BY <1>1, <1>3, SetConn
  <2>2. admitted' \subseteq Quota!JobIds /\ \A i \in admitted' : Held(i)
    BY <1>3 DEF QuotaInv, QuotaTypes, Backed
  <2> QED
    BY <1>1, <1>3, <2>1, <2>2, QuotaConnection
<1> QED
  BY <1>2, <1>3 DEF Quota!Evaluate, Held

\* A reserve that ends without a commit.
LEMMA QuotaRollback ==
    ASSUME QuotaAssumption, QuotaInv, NEW c \in Connections, conn' = [conn EXCEPT ![c] = None],
           ledger' = ledger, reservations' = reservations, admitted' = admitted
    PROVE  QuotaInv'
<1>1. PICK w : w = None
  OBVIOUS
<1>2. ConnBecomes(c, w)
  BY <1>1, SetConn, Zenon
<1>3. admitted' \subseteq Quota!JobIds /\ \A i \in admitted' : Held(i)
  BY DEF QuotaInv, QuotaTypes, Backed
<1> QED
  BY <1>1, <1>2, <1>3, QuotaConnection

LEMMA QuotaAbort ==
    ASSUME QuotaAssumption, QuotaInv, NEW c \in Connections, Quota!Abort(c) PROVE QuotaInv'
  BY QuotaRollback, Zenon DEF Quota!Abort

LEMMA QuotaCharge ==
    ASSUME QuotaAssumption, QuotaInv, NEW c \in Connections, Quota!Charge(c) PROVE QuotaInv'
<1> USE DEF QuotaInv
<1>1. PICK r \in OpenReserves : r = conn[c]
  BY DEF Quota!Charge, QuotaTypes
<1>2. ledger' = ledger /\ reservations' = reservations /\ admitted' = admitted /\ ~Quota!Locked
  BY DEF Quota!Charge
<1>3. CASE ledger # None /\ Quota!Fits(r.job)
  <2>1. PICK w : w = [r EXCEPT !.charged = TRUE]
    BY Zenon
  <2>2. w \in OpenReserves /\ w.job = r.job /\ w.charged
    BY <2>1, Zenon DEF OpenReserves
  <2>3. conn' = [conn EXCEPT ![c] = w]
    BY <1>1, <1>3, <2>1 DEF Quota!Charge
  <2>4. /\ DOMAIN conn' = Connections /\ conn'[c] = w
        /\ \A e \in Connections \ {c} : conn'[e] = conn[e]
    BY <2>3 DEF QuotaTypes
  <2>5. QuotaTypes'
    BY <1>2, <2>2, <2>4 DEF QuotaTypes
  <2>6. ChargesFit'
    <3>1. \A e \in Connections : ~Charged(e)
      BY <1>2, Unlocked
    <3>2. \A e \in Connections : Charged(e)' => e = c
      BY <2>4, <3>1 DEF Charged
    <3>3. Quota!Fits(w.job)'
      BY <1>2, <1>3, <2>2 DEF Quota!Fits
    <3>4. ledger' # None /\ Quota!Fits(conn[c].job)'
      BY <1>2, <1>3, <2>4, <3>3
    <3> QED
      BY <3>2, <3>4 DEF ChargesFit
  <2>7. Quota!Outstanding' = Quota!Outstanding
    BY <1>2 DEF Quota!Outstanding
  <2>8. OneRow' /\ \A i \in admitted' : Held(i)'
    BY <1>2, SameRows DEF Backed
  <2>9. Backed'
    BY <1>2, <2>7, <2>8 DEF Backed
  <2> QED
    BY <2>5, <2>6, <2>9
<1>4. CASE ~(ledger # None /\ Quota!Fits(r.job))
  <2>1. conn' = [conn EXCEPT ![c] = None]
    BY <1>1, <1>4, Zenon DEF Quota!Charge
  <2> QED
    BY <1>2, <2>1, QuotaRollback, Zenon
<1> QED
  BY <1>3, <1>4

\* The charge is committed with its reservation: the job joins the open ones.
LEMMA QuotaReserve ==
    ASSUME QuotaAssumption, QuotaInv, NEW c \in Connections, Quota!Reserve(c) PROVE QuotaInv'
<1> USE DEF QuotaInv
<1>1. PICK j \in Quota!JobIds : j = conn[c].job /\ Charged(c)
  BY DEF Quota!Reserve, QuotaTypes, Charged, OpenReserves
<1>2. conn' = [conn EXCEPT ![c] = None]
  BY DEF Quota!Reserve
<1>3. CASE Quota!KeyTaken(j)
  <2>1. ledger' = ledger /\ reservations' = reservations /\ admitted' = admitted
    BY <1>1, <1>3 DEF Quota!Reserve
  <2> QED
    BY <1>2, <2>1, QuotaRollback, Zenon
<1>4. CASE ~Quota!KeyTaken(j)
  <2>1. PICK d \in Amounts : d = Quota!Demand(j)
    BY DemandType
  <2>2. PICK r : r = [demand |-> d, released |-> FALSE]
    BY Zenon
  <2>3. /\ ledger' = [ledger EXCEPT !.used = Quota!Plus(ledger.used, d)]
        /\ reservations' = [reservations EXCEPT ![j] = r] /\ admitted' = admitted \cup {j}
        /\ Quota!Prior(j) = {} /\ reservations[j] = None
    BY <1>1, <1>4, <2>1, <2>2 DEF Quota!Reserve, Quota!KeyTaken, Quota!Prior
  <2>4. r \in ReservationRows /\ ~r.released /\ r # None /\ r.demand = d
    <3>1. r \in ReservationRows /\ ~r.released /\ r.demand = d
      BY <2>2 DEF ReservationRows
    <3> QED
      BY <3>1 DEF QuotaAssumption
  <2>5. PICK w \in LedgerRows : w = ledger /\ ledger # None /\ Quota!Fits(j)
    BY <1>1 DEF ChargesFit, QuotaTypes
  <2>6. PICK a \in Amounts, m \in Amounts : a = w.used /\ m = w.max
    BY DEF LedgerRows
  <2>7. PICK p \in Amounts : p = Quota!Plus(a, d)
    BY AmountArithmetic
  <2>8. PICK v : v = [w EXCEPT !.used = p]
    BY Zenon
  <2>9. v \in LedgerRows /\ v.used = p /\ v.max = m /\ v = ledger' /\ v # None
    BY <2>3, <2>5, <2>6, <2>7, <2>8 DEF LedgerRows, QuotaAssumption
  <2>10. /\ DOMAIN reservations' = Quota!JobIds /\ reservations'[j] = r
         /\ \A i \in Quota!JobIds \ {j} : reservations'[i] = reservations[i]
    BY <2>3 DEF QuotaTypes
  <2>11. /\ DOMAIN conn' = Connections /\ conn'[c] = None
         /\ \A e \in Connections \ {c} : conn'[e] = conn[e]
    BY <1>2 DEF QuotaTypes
  <2>12. QuotaTypes'
    BY <2>3, <2>4, <2>9, <2>10, <2>11 DEF QuotaTypes
  <2>13. ChargesFit'
    <3>1. \A e \in Connections : ~Charged(e)'
      BY <1>1, <2>11 DEF ChargesFit, Charged
    <3> QED
      BY <3>1 DEF ChargesFit
  <2>14. PICK S \in SUBSET Quota!JobIds :
             S = Quota!Outstanding /\ IsFiniteSet(S) /\ j \notin S
    BY <2>3 DEF Quota!Outstanding, Backed
  <2>15. Quota!Outstanding' = S \cup {j}
    BY <2>4, <2>10, <2>14 DEF Quota!Outstanding
  <2>16. IsFiniteSet(S \cup {j})
    BY <2>14, FS_AddElement
  <2>17. ASSUME NEW f \in Fields PROVE p[f] = SumOver(S \cup {j}, f) /\ p[f] <= m[f]
    <3>1. a[f] = SumOver(S, f)
      BY <2>5, <2>6, <2>14 DEF Backed
    <3>2. SumOver(S \cup {j}, f) = SumOver(S, f) + d[f]
      BY <2>1, <2>14, DemandType, TotalAdds
    <3>3. p[f] = a[f] + d[f]
      BY <2>7, AmountArithmetic
    <3>4. Quota!Within(p, m)
      BY <2>1, <2>5, <2>6, <2>7 DEF Quota!Fits
    <3> QED
      BY <3>1, <3>2, <3>3, <3>4, AmountArithmetic
  <2>18. \A f \in Fields : /\ ledger'.used[f] = SumOver(Quota!Outstanding', f)
                           /\ ledger'.used[f] <= ledger'.max[f]
    BY <2>9, <2>15, <2>17
  <2>19. ASSUME NEW i \in admitted' PROVE Held(i)'
    <3>1. CASE i = j
      BY <2>1, <2>4, <2>10, <3>1 DEF Held, Quota!Prior
    <3>2. CASE i # j
      <4>1. Held(i)
        BY <2>3, <2>19, <3>2 DEF Backed
      <4> QED
        BY <2>3, <2>10, <4>1, RowsKept
    <3> QED
      BY <3>1, <3>2
  <2>20. OneRow'
    BY <2>3, <2>10 DEF Backed, OneRow, Quota!Prior
  <2>21. Backed'
    BY <2>9, <2>15, <2>16, <2>18, <2>19, <2>20 DEF Backed
  <2> QED
    BY <2>12, <2>13, <2>21
<1> QED
  BY <1>3, <1>4

\* A job is refunded when its reservation is closed: it leaves the open ones.
LEMMA QuotaRelease ==
    ASSUME QuotaAssumption, QuotaInv, NEW j \in Quota!JobIds, Quota!ReleaseJob(j) PROVE QuotaInv'
<1> USE DEF QuotaInv
<1>1. PICK d \in Amounts : d = Quota!Demand(j)
  BY DemandType
<1>2. PICK r \in ReservationRows : r = reservations[j] /\ ~r.released
  BY DEF Quota!ReleaseJob, Quota!Refundable, QuotaTypes
<1>3. PICK q : q = [r EXCEPT !.released = TRUE]
  BY Zenon
<1>4. q \in ReservationRows /\ q.released /\ q # None /\ q.demand = r.demand
  <2>1. q \in ReservationRows /\ q.released /\ q.demand = r.demand
    BY <1>3, Zenon DEF ReservationRows
  <2> QED
    BY <2>1 DEF QuotaAssumption
<1>5. /\ reservations' = [reservations EXCEPT ![j] = q]
      /\ ledger' = [ledger EXCEPT !.used = Quota!Minus(ledger.used, d)]
      /\ conn' = conn /\ admitted' = admitted /\ ~Quota!Locked /\ reservations[j] # None
  BY <1>1, <1>2, <1>3 DEF Quota!ReleaseJob, Quota!Refundable
<1>6. PICK S \in SUBSET Quota!JobIds : S = Quota!Outstanding /\ IsFiniteSet(S) /\ j \in S
  BY <1>2, <1>5 DEF Quota!Outstanding, Backed
<1>7. PICK w \in LedgerRows : w = ledger /\ ledger # None
  BY <1>6 DEF Backed, QuotaTypes
<1>8. PICK a \in Amounts, m \in Amounts : a = w.used /\ m = w.max
  BY DEF LedgerRows
<1>9. PICK p \in Amounts : p = Quota!Minus(a, d)
  BY AmountArithmetic
<1>10. PICK v : v = [w EXCEPT !.used = p]
  BY Zenon
<1>11. v \in LedgerRows /\ v.used = p /\ v.max = m /\ v = ledger' /\ v # None
  BY <1>5, <1>7, <1>8, <1>9, <1>10 DEF LedgerRows, QuotaAssumption
<1>12. /\ DOMAIN reservations' = Quota!JobIds /\ reservations'[j] = q
       /\ \A i \in Quota!JobIds \ {j} : reservations'[i] = reservations[i]
  BY <1>5 DEF QuotaTypes
<1>13. QuotaTypes'
  BY <1>4, <1>5, <1>11, <1>12 DEF QuotaTypes
<1>14. ChargesFit'
  <2>1. \A e \in Connections : ~Charged(e)
    BY <1>5, Unlocked
  <2>2. \A e \in Connections : ~Charged(e)'
    BY <1>5, <2>1 DEF Charged
  <2> QED
    BY <2>2 DEF ChargesFit
<1>15. PICK R \in SUBSET Quota!JobIds : R = S \ {j} /\ IsFiniteSet(R) /\ j \notin R
  <2>1. PICK T : T = S \ {j}
    BY Zenon
  <2>2. T \subseteq S /\ T \subseteq Quota!JobIds /\ j \notin T
    BY <2>1
  <2>3. IsFiniteSet(T)
    BY <1>6, <2>2, FS_Subset
  <2> QED
    BY <2>1, <2>2, <2>3
<1>16. Quota!Outstanding' = R /\ S = R \cup {j}
  BY <1>4, <1>6, <1>12, <1>15 DEF Quota!Outstanding
<1>17. ASSUME NEW f \in Fields PROVE p[f] = SumOver(R, f) /\ p[f] <= m[f]
  <2>1. a[f] = SumOver(S, f) /\ a[f] <= m[f]
    BY <1>6, <1>7, <1>8 DEF Backed
  <2>2. SumOver(R, f) \in Nat /\ SumOver(R \cup {j}, f) = SumOver(R, f) + d[f]
    BY <1>1, <1>15, DemandType, TotalAdds
  <2>3. SumOver(S, f) = SumOver(R, f) + d[f]
    BY <1>16, <2>2
  <2>4. /\ a[f] \in Nat /\ d[f] \in Nat /\ m[f] \in Nat
        /\ d[f] <= a[f] => p[f] = a[f] - d[f]
    BY <1>9, AmountArithmetic DEF Amounts
  <2> QED
    BY <2>1, <2>2, <2>3, <2>4
<1>18. \A f \in Fields : /\ ledger'.used[f] = SumOver(Quota!Outstanding', f)
                         /\ ledger'.used[f] <= ledger'.max[f]
  BY <1>11, <1>16, <1>17
<1>19. ASSUME NEW i \in admitted' PROVE Held(i)'
  <2>1. Held(i)
    BY <1>5, <1>19 DEF Backed
  <2>2. \A k \in Quota!JobIds : reservations[k] # None =>
            reservations'[k] # None /\ reservations'[k].demand = reservations[k].demand
    BY <1>2, <1>4, <1>12
  <2> QED
    BY <2>1, <2>2, RowsKept
<1>20. OneRow'
  BY <1>2, <1>5, <1>12 DEF Backed, OneRow
<1>21. Backed'
  BY <1>11, <1>15, <1>16, <1>18, <1>19, <1>20 DEF Backed
<1> QED
  BY <1>13, <1>14, <1>21

LEMMA QuotaNext == ASSUME QuotaAssumption, QuotaInv, [Quota!Next]_Quota!vars PROVE QuotaInv'
<1>1. CASE Quota!ConfigureQuota
  BY <1>1, QuotaConfigure
<1>2. ASSUME NEW c \in Connections, Quota!EvaluateAdmission(c) PROVE QuotaInv'
  BY <1>2, QuotaEvaluate, QuotaCharge, QuotaReserve, QuotaAbort, Zenon
    DEF Quota!EvaluateAdmission
<1>3. ASSUME NEW j \in Quota!JobIds, Quota!ReleaseJob(j) PROVE QuotaInv'
  BY <1>3, QuotaRelease
<1>4. CASE UNCHANGED Quota!vars
  <2>1. ledger' = ledger /\ reservations' = reservations /\ conn' = conn /\ admitted' = admitted
    BY <1>4 DEF Quota!vars
  <2>2. Quota!Outstanding' = Quota!Outstanding
    BY <2>1 DEF Quota!Outstanding
  <2>3. \A c : Charged(c)' <=> Charged(c)
    BY <2>1 DEF Charged
  <2>4. \A j : Quota!Fits(j)' <=> Quota!Fits(j)
    BY <2>1 DEF Quota!Fits
  <2>5. OneRow' /\ \A j \in admitted' : Held(j)'
    BY <2>1, SameRows DEF QuotaInv, Backed
  <2> QED
    BY <2>1, <2>2, <2>3, <2>4, <2>5 DEF QuotaInv, QuotaTypes, ChargesFit, Backed
<1> QED
  BY <1>1, <1>2, <1>3, <1>4 DEF Quota!Next

\* What the ledger says is used is the sum of the open reservations, within the limits,
\* for any number of jobs and connections (QuotaLedger.configure, reserve, release).
THEOREM LedgerBacked == ASSUME QuotaAssumption PROVE Quota!Spec => []Quota!LedgerIsBacked
<1>1. QuotaInv => Quota!LedgerIsBacked
  <2> SUFFICES ASSUME QuotaInv PROVE Quota!LedgerIsBacked
    OBVIOUS
  <2>1. DOMAIN Quota!Nothing = Fields
    BY DemandType DEF Amounts
  <2>2. \A f \in Fields : Quota!Total(f) = SumOver(Quota!Outstanding, f)
    BY Zenon DEF Quota!Total, SumOver
  <2>3. ASSUME ledger # None PROVE Quota!Within(ledger.used, ledger.max)
    <3>1. ledger.used \in Amounts /\ ledger.max \in Amounts
      BY <2>3 DEF QuotaInv, QuotaTypes, LedgerRows
    <3>2. \A f \in Fields : ledger.used[f] <= ledger.max[f]
      BY <2>3 DEF QuotaInv, Backed
    <3> QED
      BY <3>1, <3>2, AmountArithmetic
  <2>4. /\ \A i, j \in Quota!Outstanding : Jobs[i].key = Jobs[j].key => i = j
        /\ \A j \in admitted : \E i \in Quota!Prior(j) :
               reservations[i].demand = Quota!Demand(j)
    BY DEF QuotaInv, Backed, OneRow, Held, Quota!Outstanding
  <2> QED
    BY <2>1, <2>2, <2>3, <2>4 DEF QuotaInv, Backed, Quota!LedgerIsBacked
<1> QED
  BY <1>1, QuotaInit, QuotaNext, PTL DEF Quota!Spec
=============================================================================
