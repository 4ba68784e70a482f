---------------------------- MODULE ServiceProofs ----------------------------
(***************************************************************************)
(* Proofs about the components that are reached through the API one        *)
(* request at a time and keep tables of their own: authentication, model   *)
(* predictive control, the stored documents and the meter telemetry.       *)
(*                                                                         *)
(* Each is an instance of its module.  Hypotheses about the constants are  *)
(* those of the theorems: None is no value of theirs, and what the code    *)
(* checks before it uses a value.                                          *)
(***************************************************************************)
EXTENDS Integers, FiniteSets, Sequences, TLAPS, FiniteSetTheorems

CONSTANTS Handlers, Requests, None

(***************************************************************************)
(* Authentication.  A key in the cache was in the provider's document when *)
(* the refresh began that fetched it, or later.                            *)
(***************************************************************************)
CONSTANTS Configurations, SigningKeys, Ttl, MaxTime
VARIABLES now, settings, published, seen, entry, call

Auth == INSTANCE Authentication

\* The time to live is positive (Settings.validate), and None is neither a key nor a time.
AuthAssumption == Ttl \in Nat \ {0} /\ None \notin SigningKeys /\ None \notin Nat

SeenOK ==
    /\ now \in Nat /\ published \subseteq SigningKeys
    /\ seen \in [SigningKeys -> Nat \cup {None}]
    /\ \A k \in SigningKeys : seen[k] # None => seen[k] <= now
    /\ \A k \in published : seen[k] = now

\* A key that was seen, and how long before a time at most.
SeenSince(k, t) == k \in SigningKeys /\ seen[k] \in Nat /\ t <= seen[k]

EntryOK ==
    entry # None =>
        /\ entry.expires_at \in Int
        /\ \A k \in entry.keys : SeenSince(k, entry.expires_at - Ttl)

\* Keys are seen again, never forgotten.
SeenGrows ==
    \A k \in SigningKeys : seen[k] \in Nat => seen'[k] \in Nat /\ seen[k] <= seen'[k]

\* A request holds a key only if it was seen less than the time to live before the cache
\* was asked; only a process for tests lets one pass without a key.
CallHolds(c) ==
    /\ c.step = "fetch" => c.at \in Nat /\ c.at <= now
    /\ c.step = "decode" => c.at \in Nat /\ SeenSince(c.key, c.at - Ttl + 1)
    /\ c.step = "endpoint" =>
         \/ settings.auth_mode = "trusted_headers"
         \/ c.at \in Nat /\ SeenSince(c.key, c.at - Ttl + 1)

CallOK == \A h \in Handlers : \A c : c = call[h] /\ c # None => CallHolds(c)

AuthInv == Auth!Validates(settings) /\ SeenOK /\ EntryOK /\ CallOK

\* The provider and the clock: what was seen since some time still is.
LEMMA ProviderStep ==
    ASSUME AuthAssumption, AuthInv, SeenOK', SeenGrows, now <= now',
           UNCHANGED <<settings, entry, call>>
    PROVE  AuthInv'
<1>1. \A k, t : t \in Int /\ SeenSince(k, t) => SeenSince(k, t)'
  BY DEF SeenSince, SeenGrows
<1>2. EntryOK'
  <2>1. PICK e : e = entry
    OBVIOUS
  <2>2. e # None => e.expires_at - Ttl \in Int /\ \A k \in e.keys : SeenSince(k, e.expires_at - Ttl)
    BY <2>1 DEF AuthInv, EntryOK, AuthAssumption
  <2>3. e # None => \A k \in e.keys : SeenSince(k, e.expires_at - Ttl)'
    BY <1>1, <2>2
  <2> QED
    BY <2>1, <2>3 DEF AuthInv, EntryOK
<1>3. \A c : CallHolds(c) => CallHolds(c)'
  <2> SUFFICES ASSUME NEW c, CallHolds(c) PROVE CallHolds(c)'
    OBVIOUS
  <2>1. c.at \in Nat => c.at - Ttl + 1 \in Int
    BY DEF AuthAssumption
  <2>2. c.at \in Nat /\ c.at <= now => c.at <= now'
    BY DEF AuthInv, SeenOK
  <2> QED
    BY <1>1, <2>1, <2>2 DEF CallHolds
<1>4. CallOK'
  BY <1>3 DEF AuthInv, CallOK
<1> QED
  BY <1>2, <1>4 DEF AuthInv

\* One request moves: to a call that holds, or out.
LEMMA HandlerStep ==
    ASSUME AuthInv, UNCHANGED <<now, settings, published, seen>>, EntryOK',
           NEW h \in Handlers, NEW c, call' = [call EXCEPT ![h] = c],
           c # None => CallHolds(c)
    PROVE  AuthInv'
<1>1. SeenOK' /\ Auth!Validates(settings)'
  BY Zenon DEF AuthInv, SeenOK, Auth!Validates
<1>2. \A d : CallHolds(d) => CallHolds(d)'
  BY DEF CallHolds, SeenSince
<1>3. CallOK'
  <2> SUFFICES ASSUME NEW g \in Handlers, NEW d, d = call'[g], d # None
               PROVE  CallHolds(d)
    BY <1>2 DEF CallOK
  <2>1. d = call[g] \/ d = c
    OBVIOUS
  <2> QED
    BY <2>1 DEF AuthInv, CallOK
<1> QED
  BY <1>1, <1>3 DEF AuthInv

LEMMA AuthInit ==
    ASSUME AuthAssumption, Auth!Init
    PROVE  AuthInv
BY DEF AuthAssumption, Auth!Init, AuthInv, SeenOK, EntryOK, CallOK

LEMMA AuthNext ==
    ASSUME AuthAssumption, AuthInv, [Auth!Next]_Auth!vars
    PROVE  AuthInv'
<1>2. ASSUME UNCHANGED <<now, seen, entry>> PROVE EntryOK'
  BY <1>2 DEF AuthInv, EntryOK, SeenSince
<1>3. ASSUME NEW h \in Handlers, NEW r \in Requests, Auth!Authenticate(h, r)
      PROVE  AuthInv'
  <2>1. PICK t : t = now
    OBVIOUS
  <2>2. CASE Auth!Cached(r.token.kid)
    <3>1. PICK k : k = Auth!KeyOf(entry.keys, r.token.kid)
      OBVIOUS
    <3>2. k \in entry.keys
      BY <2>2, <3>1 DEF Auth!Cached, Auth!KeyOf
    <3>3. t \in Nat /\ SeenSince(k, t - Ttl + 1)
      <4>1. entry.expires_at \in Int /\ SeenSince(k, entry.expires_at - Ttl)
            /\ t \in Nat /\ t < entry.expires_at
        BY <2>1, <2>2, <3>2 DEF Auth!Cached, Auth!Fresh, AuthInv, EntryOK, SeenOK
      <4> QED
        BY <4>1 DEF SeenSince, AuthAssumption
    <3>4. PICK c : c = Auth!Decoding(r, t, k)
      OBVIOUS
    <3>5. CallHolds(c)
      BY <3>3, <3>4 DEF CallHolds, Auth!Decoding
    <3>6. call' = [call EXCEPT ![h] = c]
      BY <1>3, <2>1, <2>2, <3>1, <3>4 DEF Auth!Authenticate
    <3> QED
      BY <1>2, <1>3, <3>5, <3>6, HandlerStep, Zenon DEF Auth!Authenticate
  <2>3. CASE ~Auth!Cached(r.token.kid)
    <3>1. PICK c : c = [step |-> "fetch", request |-> r, at |-> t]
      BY Zenon
    <3>2. CallHolds(c)
      BY <2>1, <3>1 DEF CallHolds, AuthInv, SeenOK
    <3>3. call' = [call EXCEPT ![h] = c]
      BY <1>3, <2>1, <2>3, <3>1 DEF Auth!Authenticate
    <3> QED
      BY <1>2, <1>3, <3>2, <3>3, HandlerStep, Zenon DEF Auth!Authenticate
  <2> QED
    BY <2>2, <2>3
<1>4. ASSUME NEW h \in Handlers, Auth!Refresh(h)
      PROVE  AuthInv'
  <2>1. PICK at : at = call[h].at
    OBVIOUS
  <2>2. PICK r : r = call[h].request
    OBVIOUS
  <2>3. /\ at \in Nat /\ at <= now /\ now \in Nat
    BY <1>4, <2>1 DEF Auth!Refresh, Auth!At, AuthInv, CallOK, CallHolds, SeenOK
  <2>4. \A k \in Auth!Usable : k \in SigningKeys /\ seen[k] = now
    BY DEF Auth!Usable, AuthInv, SeenOK
  <2>5. EntryOK'
    <3>1. entry' = [expires_at |-> at + Ttl, keys |-> Auth!Usable]
      BY <1>4, <2>1 DEF Auth!Refresh
    <3>2. entry'.expires_at = at + Ttl /\ entry'.keys = Auth!Usable
      BY <3>1
    <3>3. UNCHANGED seen
      BY <1>4 DEF Auth!Refresh
    <3> QED
      BY <2>3, <2>4, <3>2, <3>3 DEF EntryOK, SeenSince, AuthAssumption
  <2>6. PICK c : c = IF \E k \in Auth!Usable : k.kid = r.token.kid
                     THEN Auth!Decoding(r, at, Auth!KeyOf(Auth!Usable, r.token.kid))
                     ELSE None
    OBVIOUS
  <2>7. c # None => CallHolds(c)
    <3> SUFFICES ASSUME \E k \in Auth!Usable : k.kid = r.token.kid PROVE CallHolds(c)
      BY <2>6
    <3>1. PICK k : k = Auth!KeyOf(Auth!Usable, r.token.kid)
      OBVIOUS
    <3>2. k \in Auth!Usable
      BY <3>1 DEF Auth!KeyOf
    <3>3. SeenSince(k, at - Ttl + 1)
      BY <2>3, <2>4, <3>2 DEF SeenSince, AuthAssumption
    <3>4. c = Auth!Decoding(r, at, k)
      BY <2>6, <3>1
    <3> QED
      BY <2>3, <3>3, <3>4 DEF CallHolds, Auth!Decoding
  <2>8. call' = [call EXCEPT ![h] = c]
    BY <1>4, <2>1, <2>2, <2>6 DEF Auth!Refresh
  <2> QED
    BY <1>4, <2>5, <2>7, <2>8, HandlerStep DEF Auth!Refresh
<1>5. ASSUME NEW h \in Handlers, Auth!RefreshFails(h) \/ Auth!Finish(h)
      PROVE  AuthInv'
  BY <1>2, <1>5, HandlerStep DEF Auth!RefreshFails, Auth!Finish
<1>6. ASSUME NEW h \in Handlers, Auth!Accept(h)
      PROVE  AuthInv'
  <2>1. PICK c : c = [step |-> "endpoint", request |-> call[h].request, key |-> call[h].key,
                      at |-> call[h].at]
    BY Zenon
  <2>2. CallHolds(c)
    BY <1>6, <2>1 DEF Auth!Accept, Auth!At, AuthInv, CallOK, CallHolds
  <2>3. call' = [call EXCEPT ![h] = c]
    BY <1>6, <2>1 DEF Auth!Accept, Auth!Enter
  <2> QED
    BY <1>2, <1>6, <2>2, <2>3, HandlerStep, Zenon DEF Auth!Accept
<1>7. ASSUME NEW h \in Handlers, NEW r \in Requests, Auth!AcceptHeaders(h, r)
      PROVE  AuthInv'
  <2>1. PICK c : c = [step |-> "endpoint", request |-> r, key |-> None, at |-> now]
    BY Zenon
  <2>2. CallHolds(c)
    BY <1>7, <2>1 DEF Auth!AcceptHeaders, CallHolds
  <2>3. call' = [call EXCEPT ![h] = c]
    BY <1>7, <2>1 DEF Auth!AcceptHeaders, Auth!Enter
  <2> QED
    BY <1>2, <1>7, <2>2, <2>3, HandlerStep, Zenon DEF Auth!AcceptHeaders
<1>8. ASSUME NEW keys \in SUBSET SigningKeys, Auth!Rotate(keys)
      PROVE  AuthInv'
  <2>1. \A k \in SigningKeys : (k \in keys => seen'[k] = now) /\ (k \notin keys => seen'[k] = seen[k])
    BY <1>8 DEF Auth!Rotate
  <2>2. /\ now' = now /\ now \in Nat /\ published' \subseteq SigningKeys /\ published' = keys
        /\ seen' \in [SigningKeys -> Nat \cup {None}]
    BY <1>8 DEF Auth!Rotate, AuthInv, SeenOK
  <2>3. SeenOK' /\ SeenGrows /\ now <= now'
    BY <2>1, <2>2 DEF AuthInv, SeenOK, SeenGrows, AuthAssumption
  <2> QED
    BY <1>8, <2>3, ProviderStep DEF Auth!Rotate
<1>9. CASE Auth!Tick
  <2>1. SeenOK' /\ SeenGrows /\ now <= now'
    BY <1>9 DEF Auth!Tick, AuthInv, SeenOK, SeenGrows
  <2> QED
    BY <1>9, <2>1, ProviderStep DEF Auth!Tick
<1>10. CASE UNCHANGED Auth!vars
  <2>1. SeenOK' /\ SeenGrows /\ now <= now' /\ UNCHANGED <<settings, entry, call>>
    BY <1>10 DEF Auth!vars, AuthInv, SeenOK, SeenGrows
  <2> QED
    BY <2>1, ProviderStep
<1> QED
  BY <1>3, <1>4, <1>5, <1>6, <1>7, <1>8, <1>9, <1>10 DEF Auth!Next

\* JwksCache.get and Settings.validate: outside test and simulator a request gets to an
\* endpoint only with a key published less than the time to live before the cache was asked.
THEOREM KeysExpire ==
    ASSUME AuthAssumption
    PROVE  Auth!Spec => []Auth!WithdrawnKeysExpire
<1>1. AuthInv => Auth!WithdrawnKeysExpire
  <2> SUFFICES ASSUME AuthInv, settings.environment \notin {"test", "simulator"},
                      NEW h \in Handlers, Auth!At(h, "endpoint")
               PROVE  /\ call[h].key # None
                      /\ seen[call[h].key] # None /\ call[h].at - seen[call[h].key] < Ttl
    BY DEF Auth!WithdrawnKeysExpire
  <2>1. settings.auth_mode # "trusted_headers"
    BY Zenon DEF AuthInv, Auth!Validates
  <2>2. call[h].at \in Nat /\ SeenSince(call[h].key, call[h].at - Ttl + 1)
    BY <2>1 DEF AuthInv, CallOK, CallHolds, Auth!At
  <2> QED
    BY <2>2 DEF SeenSince, AuthAssumption
<1>2. Auth!Init => AuthInv
  BY AuthInit
<1>3. AuthInv /\ [Auth!Next]_Auth!vars => AuthInv'
  BY AuthNext
<1> QED
  BY <1>1, <1>2, <1>3, PTL DEF Auth!Spec

(***************************************************************************)
(* Model predictive control.  A state that is put was computed from the    *)
(* controller it replaces, and the interval of a cycle is the one of the   *)
(* key its state was put under.                                            *)
(***************************************************************************)
CONSTANTS Cycles, Plans
VARIABLES controller, cycles, stateKey, handler

Mpc == INSTANCE MpcControl WITH Requests <- Cycles

\* Slot indices are integers, so a schedule with slots has an earliest one; None is neither
\* a slot nor a stored state.
MpcAssumption ==
    /\ \A k \in DOMAIN Cycles : Cycles[k] # {} => \E s \in Cycles[k] : \A t \in Cycles[k] : s <= t
    /\ \A k \in DOMAIN Cycles : None \notin Cycles[k]
    /\ \A v, p, e, n : None # [version |-> v, last_safe |-> p, executed |-> e, sequence |-> n]
    /\ \A p, e, n : None # [last_safe |-> p, executed |-> e, sequence |-> n]

ControllerOK ==
    controller # None =>
        /\ controller.version \in Nat /\ controller.sequence \in Nat
        /\ controller.sequence = Cardinality(Mpc!Accepted)
        /\ controller.executed = {Mpc!Slot(k) : k \in Mpc!Accepted} \ {None}

\* Each state that was put has a number and, if any, an interval of its own.
KeysOK ==
    /\ stateKey = [k \in Mpc!Keys |-> stateKey[k]]
    /\ IsFiniteSet(Mpc!Accepted)
    /\ \A k \in Mpc!Accepted : /\ controller # None
                               /\ stateKey[k].sequence \in Nat
                               /\ stateKey[k].sequence <= controller.sequence
    /\ \A k, l \in Mpc!Accepted :
         \/ stateKey[k].sequence = stateKey[l].sequence
         \/ Mpc!Slot(k) = Mpc!Slot(l) /\ Mpc!Slot(k) # None
         => k = l

\* A cycle belongs to a key.
Backs(k, c) == c.id = stateKey[k].sequence /\ c.slot = Mpc!Slot(k)

CyclesOK ==
    /\ \A c \in cycles : \E k \in Mpc!Accepted : Backs(k, c)
    /\ \A c, d \in cycles : c.id = d.id => c = d

\* The state follows the controller's.
Follows(c) ==
    /\ c.cycle.slot \notin controller.executed
    /\ c.state.executed = controller.executed \cup ({c.cycle.slot} \ {None})
    /\ c.state.sequence = controller.sequence + 1

HandlerHolds(c) ==
    /\ c = [key |-> c.key, pc |-> c.pc, etag |-> c.etag, state |-> c.state, cycle |-> c.cycle]
    /\ c.state = [last_safe |-> c.state.last_safe, executed |-> c.state.executed,
                  sequence |-> c.state.sequence]
    /\ c.key \in Mpc!Keys /\ c.cycle.slot = Mpc!Slot(c.key) /\ c.cycle.id = c.state.sequence
    /\ controller # None /\ c.etag \in Nat /\ c.etag <= controller.version
    /\ c.pc = "state" /\ c.etag = controller.version => Follows(c)
    /\ c.pc = "cycle" => c.key \in Mpc!Accepted /\ stateKey[c.key] = c.state

HandlersOK ==
    /\ handler = [h \in Handlers |-> handler[h]]
    /\ \A h \in Handlers : \A c : c = handler[h] /\ c # None => HandlerHolds(c)

MpcInv == ControllerOK /\ KeysOK /\ CyclesOK /\ HandlersOK

\* One handler moves and the tables stay.
LEMMA MpcHandlerStep ==
    ASSUME MpcInv, UNCHANGED <<controller, cycles, stateKey>>,
           NEW h \in Handlers, NEW c, handler' = [handler EXCEPT ![h] = c],
           c # None => HandlerHolds(c)
    PROVE  MpcInv'
<1>1. Mpc!Accepted' = Mpc!Accepted /\ \A k : Mpc!Slot(k)' = Mpc!Slot(k)
  BY DEF Mpc!Accepted, Mpc!Keys, Mpc!Slot, Mpc!Earliest
<1>2. ControllerOK' /\ KeysOK' /\ CyclesOK'
  BY <1>1 DEF MpcInv, ControllerOK, KeysOK, CyclesOK, Backs, Mpc!Keys
<1>3. \A d : HandlerHolds(d) => HandlerHolds(d)'
  BY <1>1 DEF HandlerHolds, Follows, Mpc!Keys
<1>4. HandlersOK'
  <2>1. \A g \in Handlers : handler'[g] = c \/ handler'[g] = handler[g]
    BY DEF MpcInv, HandlersOK
  <2>2. handler' = [g \in Handlers |-> handler'[g]]
    BY DEF MpcInv, HandlersOK
  <2> QED
    BY <1>3, <2>1, <2>2 DEF MpcInv, HandlersOK
<1> QED
  BY <1>2, <1>4 DEF MpcInv

LEMMA MpcInit ==
    ASSUME Mpc!Init
    PROVE  MpcInv
<1>1. Mpc!Accepted = {}
  BY DEF Mpc!Init, Mpc!Accepted
<1> QED
  BY <1>1, FS_EmptySet
     DEF Mpc!Init, MpcInv, ControllerOK, KeysOK, CyclesOK, HandlersOK

\* The first slot of a schedule that may be rewritten has not been executed.
LEMMA SlotIsFresh ==
    ASSUME MpcAssumption, NEW k \in Mpc!Keys, NEW executed,
           Cycles[k] \cap executed = {}, None \notin executed
    PROVE  Mpc!Slot(k) \notin executed
BY DEF MpcAssumption, Mpc!Keys, Mpc!Slot, Mpc!Earliest

LEMMA MpcCycle ==
    ASSUME MpcAssumption, MpcInv, NEW h \in Handlers, NEW k \in Mpc!Keys, Mpc!Cycle(h, k)
    PROVE  MpcInv'
<1>1. controller # None /\ UNCHANGED <<controller, cycles, stateKey>>
  BY DEF Mpc!Cycle
<1>2. PICK slot : slot = Mpc!Slot(k)
  OBVIOUS
<1>3. PICK decision :
        handler' = [handler EXCEPT ![h] =
            [key |-> k, pc |-> "state", etag |-> controller.version,
             state |-> [last_safe |-> decision.plan,
                        executed |-> controller.executed \cup ({slot} \ {None}),
                        sequence |-> controller.sequence + 1],
             cycle |-> [id |-> controller.sequence + 1, slot |-> slot,
                        current |-> Mpc!Current(decision.plan, slot),
                        fallback |-> decision.fallback]]]
  <2>1. slot = Mpc!Earliest(Cycles[k])
    BY <1>2 DEF Mpc!Slot
  <2> QED
    BY <2>1, Zenon DEF Mpc!Cycle
<1>4. PICK c, s, y :
        /\ s = [last_safe |-> decision.plan,
                executed |-> controller.executed \cup ({slot} \ {None}),
                sequence |-> controller.sequence + 1]
        /\ y = [id |-> controller.sequence + 1, slot |-> slot,
                current |-> Mpc!Current(decision.plan, slot), fallback |-> decision.fallback]
        /\ c = [key |-> k, pc |-> "state", etag |-> controller.version, state |-> s, cycle |-> y]
  BY Zenon
<1>5. slot \notin controller.executed
  <2>1. None \notin controller.executed
    BY <1>1 DEF MpcInv, ControllerOK
  <2>2. Cycles[k] \cap controller.executed = {}
    BY DEF Mpc!Cycle, Mpc!Rewritable
  <2> QED
    BY <1>2, <2>1, <2>2, SlotIsFresh
<1>6. controller.version \in Nat
  BY <1>1 DEF MpcInv, ControllerOK
<1>7. HandlerHolds(c)
  <2>1. /\ c.key = k /\ c.pc = "state" /\ c.etag = controller.version
        /\ c.state = s /\ c.cycle = y
    BY <1>4
  <2>2. /\ s.executed = controller.executed \cup ({slot} \ {None})
        /\ s.sequence = controller.sequence + 1
        /\ s = [last_safe |-> s.last_safe, executed |-> s.executed, sequence |-> s.sequence]
        /\ y.id = s.sequence /\ y.slot = slot
    BY <1>4
  <2>3. Follows(c)
    BY <1>5, <2>1, <2>2 DEF Follows
  <2>4. c = [key |-> c.key, pc |-> c.pc, etag |-> c.etag, state |-> c.state, cycle |-> c.cycle]
    BY <1>4, <2>1
  <2> QED
    BY <1>1, <1>2, <1>6, <2>1, <2>2, <2>3, <2>4 DEF HandlerHolds
<1>8. handler' = [handler EXCEPT ![h] = c]
  BY <1>2, <1>3, <1>4 DEF Mpc!Slot
<1> QED
  BY <1>1, <1>7, <1>8, MpcHandlerStep, Zenon

\* The etag matches: the state of the key is the controller's, and no earlier one has its
\* number or its interval.
LEMMA MpcPutNew ==
    ASSUME MpcAssumption, MpcInv, NEW h \in Handlers, NEW c, c = handler[h], c # None,
           c.pc = "state", stateKey[c.key] = None, controller.version = c.etag,
           controller' = [version |-> controller.version + 1, last_safe |-> c.state.last_safe,
                          executed |-> c.state.executed, sequence |-> c.state.sequence],
           stateKey' = [stateKey EXCEPT ![c.key] = c.state],
           handler' = [handler EXCEPT ![h].pc = "cycle"],
           UNCHANGED cycles
    PROVE  MpcInv'
<1> USE DEF Mpc!Keys
<1>1. HandlerHolds(c) /\ Follows(c)
  BY DEF MpcInv, HandlersOK, HandlerHolds
<1>2. PICK k, s : k = c.key /\ s = c.state
  OBVIOUS
<1>3. /\ k \in Mpc!Keys /\ k \notin Mpc!Accepted /\ s # None /\ controller # None
      /\ c.cycle.slot = Mpc!Slot(k) /\ c.cycle.id = s.sequence
  <2>1. s # None
    BY <1>1, <1>2 DEF HandlerHolds, MpcAssumption
  <2> QED
    BY <1>1, <1>2, <2>1 DEF HandlerHolds, Mpc!Accepted
<1>4. /\ controller.sequence \in Nat /\ controller.version \in Nat
      /\ controller.sequence = Cardinality(Mpc!Accepted)
      /\ controller.executed = {Mpc!Slot(l) : l \in Mpc!Accepted} \ {None}
  BY <1>3 DEF MpcInv, ControllerOK
<1>5. /\ Mpc!Slot(k) \notin controller.executed
      /\ s.executed = controller.executed \cup ({Mpc!Slot(k)} \ {None})
      /\ s.sequence = controller.sequence + 1
  BY <1>1, <1>2, <1>3 DEF Follows
<1>6. /\ controller' # None /\ controller'.version = controller.version + 1
      /\ controller'.executed = s.executed /\ controller'.sequence = s.sequence
  BY <1>2 DEF MpcAssumption
<1>7. /\ Mpc!Accepted' = Mpc!Accepted \cup {k}
      /\ \A l : Mpc!Slot(l)' = Mpc!Slot(l)
      /\ stateKey'[k] = s /\ \A l \in Mpc!Accepted : stateKey'[l] = stateKey[l]
      /\ stateKey' = [l \in Mpc!Keys |-> stateKey'[l]]
  <2>1. stateKey' = [stateKey EXCEPT ![k] = s] /\ stateKey = [l \in Mpc!Keys |-> stateKey[l]]
    BY <1>2 DEF MpcInv, KeysOK
  <2>2. /\ stateKey'[k] = s /\ stateKey' = [l \in Mpc!Keys |-> stateKey'[l]]
        /\ \A l \in Mpc!Keys : l # k => stateKey'[l] = stateKey[l]
    BY <1>3, <2>1
  <2>3. \A l : Mpc!Slot(l)' = Mpc!Slot(l)
    BY DEF Mpc!Slot, Mpc!Earliest
  <2> QED
    BY <1>3, <2>2, <2>3 DEF Mpc!Accepted
<1>8. IsFiniteSet(Mpc!Accepted') /\ Cardinality(Mpc!Accepted') = controller.sequence + 1
  BY <1>3, <1>4, <1>7, FS_AddElement DEF MpcInv, KeysOK
<1>9. ControllerOK'
  <2>1. controller'.executed = {Mpc!Slot(l) : l \in Mpc!Accepted'} \ {None}
    BY <1>4, <1>5, <1>6, <1>7
  <2> QED
    BY <1>4, <1>5, <1>6, <1>7, <1>8, <2>1 DEF ControllerOK
<1>10. KeysOK'
  <2>1. \A l \in Mpc!Accepted :
          /\ stateKey[l].sequence \in Nat /\ stateKey[l].sequence <= controller.sequence
          /\ Mpc!Slot(l) # None => Mpc!Slot(l) # Mpc!Slot(k)
    BY <1>4, <1>5 DEF MpcInv, KeysOK
  <2>2. \A l \in Mpc!Accepted' : /\ stateKey'[l].sequence \in Nat
                                 /\ stateKey'[l].sequence <= controller'.sequence
    BY <1>4, <1>5, <1>6, <1>7, <2>1
  <2>3. \A l, m \in Mpc!Accepted' :
          \/ stateKey'[l].sequence = stateKey'[m].sequence
          \/ Mpc!Slot(l) = Mpc!Slot(m) /\ Mpc!Slot(l) # None
          => l = m
    <3>1. \A l \in Mpc!Accepted :
            /\ stateKey'[l].sequence # stateKey'[k].sequence
            /\ ~(Mpc!Slot(l) = Mpc!Slot(k) /\ Mpc!Slot(l) # None)
      BY <1>4, <1>5, <1>7, <2>1
    <3>2. \A l, m \in Mpc!Accepted :
            \/ stateKey'[l].sequence = stateKey'[m].sequence
            \/ Mpc!Slot(l) = Mpc!Slot(m) /\ Mpc!Slot(l) # None
            => l = m
      BY <1>7 DEF MpcInv, KeysOK
    <3> QED
      BY <1>7, <3>1, <3>2
  <2> QED
    BY <1>6, <1>7, <1>8, <2>2, <2>3 DEF KeysOK
<1>11. CyclesOK'
  BY <1>7 DEF MpcInv, CyclesOK, Backs
<1>12. \A d : HandlerHolds(d) /\ (d.pc = "state" => d.etag # controller'.version) => HandlerHolds(d)'
  <2> SUFFICES ASSUME NEW d, HandlerHolds(d), d.pc = "state" => d.etag # controller'.version
               PROVE  HandlerHolds(d)'
    OBVIOUS
  <2>1. d.etag \in Nat /\ d.etag <= controller'.version
    BY <1>4, <1>6 DEF HandlerHolds
  <2>2. d.pc = "cycle" => d.key \in Mpc!Accepted' /\ stateKey'[d.key] = d.state
    BY <1>7 DEF HandlerHolds
  <2> QED
    BY <1>6, <1>7, <2>1, <2>2 DEF HandlerHolds
<1>13. HandlersOK'
  <2>1. PICK d : d = [key |-> k, pc |-> "cycle", etag |-> c.etag, state |-> s, cycle |-> c.cycle]
    BY Zenon
  <2>2. handler' = [handler EXCEPT ![h] = d]
    <3>1. handler[h] = [key |-> k, pc |-> c.pc, etag |-> c.etag, state |-> s, cycle |-> c.cycle]
      BY <1>1, <1>2 DEF HandlerHolds
    <3>2. [handler[h] EXCEPT !.pc = "cycle"] = d
      BY <2>1, <3>1
    <3> QED
      BY <3>2, Zenon
  <2>3. HandlerHolds(d)'
    <3>1. /\ d.key = k /\ d.pc = "cycle" /\ d.etag = c.etag /\ d.state = s /\ d.cycle = c.cycle
          /\ d = [key |-> d.key, pc |-> d.pc, etag |-> d.etag, state |-> d.state, cycle |-> d.cycle]
      BY <2>1
    <3>2. /\ s = [last_safe |-> s.last_safe, executed |-> s.executed, sequence |-> s.sequence]
          /\ c.etag \in Nat /\ c.etag <= controller'.version
      BY <1>1, <1>2, <1>4, <1>6 DEF HandlerHolds
    <3> QED
      BY <1>3, <1>6, <1>7, <3>1, <3>2 DEF HandlerHolds
  <2>4. \A g \in Handlers : \A e : e = handler[g] /\ e # None =>
          HandlerHolds(e) /\ (e.pc = "state" => e.etag # controller'.version)
    BY <1>4, <1>6 DEF MpcInv, HandlersOK, HandlerHolds
  <2>5. \A g \in Handlers : handler'[g] = d \/ handler'[g] = handler[g]
    BY <2>2 DEF MpcInv, HandlersOK
  <2>6. handler' = [g \in Handlers |-> handler'[g]]
    BY <2>2 DEF MpcInv, HandlersOK
  <2>7. \A g \in Handlers : \A e : e = handler'[g] /\ e # None => HandlerHolds(e)'
    BY <1>12, <2>3, <2>4, <2>5
  <2> QED
    BY <2>6, <2>7 DEF HandlersOK
<1> QED
  BY <1>9, <1>10, <1>11, <1>13 DEF MpcInv

LEMMA MpcPutState ==
    ASSUME MpcAssumption, MpcInv, NEW h \in Handlers, Mpc!PutState(h)
    PROVE  MpcInv'
<1>1. PICK c : c = handler[h]
  OBVIOUS
<1>2. c # None /\ c.pc = "state" /\ UNCHANGED cycles
  BY <1>1 DEF Mpc!PutState
<1>3. CASE /\ stateKey[c.key] = None /\ controller.version = c.etag
           /\ controller' = [version |-> controller.version + 1, last_safe |-> c.state.last_safe,
                             executed |-> c.state.executed, sequence |-> c.state.sequence]
           /\ stateKey' = [stateKey EXCEPT ![c.key] = c.state]
           /\ handler' = [handler EXCEPT ![h].pc = "cycle"]
  BY <1>1, <1>2, <1>3, MpcPutNew, Zenon
<1>4. CASE /\ stateKey[c.key] = c.state
           /\ handler' = [handler EXCEPT ![h].pc = "cycle"]
           /\ UNCHANGED <<controller, stateKey>>
  <2>1. PICK d : d = [key |-> c.key, pc |-> "cycle", etag |-> c.etag, state |-> c.state,
                      cycle |-> c.cycle]
    BY Zenon
  <2>2. HandlerHolds(c)
    BY <1>1, <1>2 DEF MpcInv, HandlersOK
  <2>3. [c EXCEPT !.pc = "cycle"] = d
    BY <2>1, <2>2 DEF HandlerHolds
  <2>4. handler' = [handler EXCEPT ![h] = d]
    BY <1>1, <1>4, <2>3, Zenon
  <2>5. /\ d.key = c.key /\ d.pc = "cycle" /\ d.etag = c.etag /\ d.state = c.state
        /\ d.cycle = c.cycle
        /\ d = [key |-> d.key, pc |-> d.pc, etag |-> d.etag, state |-> d.state, cycle |-> d.cycle]
    BY <2>1
  <2>6. c.key \in Mpc!Accepted
    <3>1. c.state # None
      BY <2>2 DEF HandlerHolds, MpcAssumption
    <3> QED
      BY <1>4, <2>2, <3>1 DEF HandlerHolds, Mpc!Accepted
  <2>7. HandlerHolds(d)
    BY <1>4, <2>2, <2>5, <2>6 DEF HandlerHolds
  <2> QED
    BY <1>2, <1>4, <2>4, <2>7, MpcHandlerStep, Zenon
<1> QED
  BY <1>1, <1>3, <1>4 DEF Mpc!PutState, Mpc!EtagMatches

LEMMA MpcPutCycle ==
    ASSUME MpcInv, NEW h \in Handlers, Mpc!PutCycle(h)
    PROVE  MpcInv'
<1>1. PICK y : y = handler[h].cycle
  OBVIOUS
<1>2. \E k \in Mpc!Accepted : Backs(k, y)
  <2>1. PICK c : c = handler[h]
    OBVIOUS
  <2>2. HandlerHolds(c) /\ c.pc = "cycle"
    BY <2>1 DEF MpcInv, HandlersOK, Mpc!PutCycle
  <2> QED
    BY <1>1, <2>1, <2>2 DEF HandlerHolds, Backs
<1>3. /\ \A c \in cycles : c.id = y.id => c = y
      /\ cycles' = cycles \cup {y}
      /\ handler' = [handler EXCEPT ![h] = None]
      /\ UNCHANGED <<controller, stateKey>>
  BY <1>1 DEF Mpc!PutCycle
<1>4. Mpc!Accepted' = Mpc!Accepted /\ \A k : Mpc!Slot(k)' = Mpc!Slot(k)
  BY <1>3 DEF Mpc!Accepted, Mpc!Keys, Mpc!Slot, Mpc!Earliest
<1>5. ControllerOK' /\ KeysOK'
  BY <1>3, <1>4 DEF MpcInv, ControllerOK, KeysOK, Mpc!Keys
<1>6. CyclesOK'
  <2>1. \A c \in cycles' : \E k \in Mpc!Accepted' : Backs(k, c)'
    BY <1>2, <1>3, <1>4 DEF MpcInv, CyclesOK, Backs
  <2> QED
    BY <1>3, <2>1 DEF MpcInv, CyclesOK
<1>7. HandlersOK'
  <2>1. \A d : HandlerHolds(d) => HandlerHolds(d)'
    BY <1>3, <1>4 DEF HandlerHolds, Follows, Mpc!Keys
  <2>2. /\ \A g \in Handlers : handler'[g] = None \/ handler'[g] = handler[g]
        /\ handler' = [g \in Handlers |-> handler'[g]]
    BY <1>3 DEF MpcInv, HandlersOK
  <2> QED
    BY <2>1, <2>2 DEF MpcInv, HandlersOK
<1> QED
  BY <1>5, <1>6, <1>7 DEF MpcInv

LEMMA MpcNext ==
    ASSUME MpcAssumption, MpcInv, [Mpc!Next]_Mpc!vars
    PROVE  MpcInv'
<1>1. CASE Mpc!Create
  <2>1. Mpc!Accepted = {}
    BY <1>1 DEF Mpc!Create, MpcInv, KeysOK
  <2>2. Mpc!Accepted' = {} /\ UNCHANGED <<cycles, stateKey, handler>>
    BY <1>1, <2>1 DEF Mpc!Create, Mpc!Accepted, Mpc!Keys
  <2>3. /\ controller' # None /\ controller'.version = 1 /\ controller'.sequence = 0
        /\ controller'.executed = {}
    BY <1>1 DEF Mpc!Create, Mpc!NewController, MpcAssumption
  <2>4. cycles = {} /\ \A h \in Handlers : handler[h] = None
    BY <1>1, <2>1 DEF Mpc!Create, MpcInv, CyclesOK, HandlersOK, HandlerHolds
  <2>5. ControllerOK' /\ KeysOK'
    BY <2>2, <2>3, FS_EmptySet DEF MpcInv, ControllerOK, KeysOK, Mpc!Keys
  <2>6. CyclesOK' /\ HandlersOK'
    BY <2>2, <2>4 DEF MpcInv, CyclesOK, HandlersOK
  <2> QED
    BY <2>5, <2>6 DEF MpcInv
<1>2. ASSUME NEW h \in Handlers, Mpc!Abandon(h)
      PROVE  MpcInv'
  BY <1>2, MpcHandlerStep, Zenon DEF Mpc!Abandon
<1>3. CASE UNCHANGED Mpc!vars
  <2>1. UNCHANGED <<controller, cycles, stateKey, handler>>
    BY <1>3 DEF Mpc!vars
  <2>2. Mpc!Accepted' = Mpc!Accepted /\ \A k : Mpc!Slot(k)' = Mpc!Slot(k)
    BY <2>1 DEF Mpc!Accepted, Mpc!Keys, Mpc!Slot, Mpc!Earliest
  <2>3. ControllerOK' /\ KeysOK' /\ CyclesOK'
    BY <2>1, <2>2 DEF MpcInv, ControllerOK, KeysOK, CyclesOK, Backs, Mpc!Keys
  <2>4. \A d : HandlerHolds(d) => HandlerHolds(d)'
    BY <2>1, <2>2 DEF HandlerHolds, Follows, Mpc!Keys
  <2>5. HandlersOK'
    BY <2>1, <2>4 DEF MpcInv, HandlersOK
  <2> QED
    BY <2>3, <2>5 DEF MpcInv
<1> QED
  BY <1>1, <1>2, <1>3, MpcCycle, MpcPutState, MpcPutCycle DEF Mpc!Next, Mpc!CreateMpcCycle

\* The instance's cardinality is the one of the theorems about finite sets.
LEMMA MpcCardinality == \A S : Mpc!Cardinality(S) = Cardinality(S)
BY DEF Mpc!Cardinality, Cardinality

\* MpcController.cycle behind MpcRepository: an interval is executed for one request and
\* recorded in one cycle, and the controller's state accounts for every accepted request.
THEOREM ExecutedOnce ==
    ASSUME MpcAssumption
    PROVE  Mpc!Spec => []Mpc!IntervalsExecuteOnce
<1>1. MpcInv => Mpc!IntervalsExecuteOnce
  <2> SUFFICES ASSUME MpcInv PROVE Mpc!IntervalsExecuteOnce
    OBVIOUS
  <2>1. \A c, d \in cycles : c.slot = d.slot /\ c.slot # None => c = d
    <3> SUFFICES ASSUME NEW c \in cycles, NEW d \in cycles, c.slot = d.slot, c.slot # None
                 PROVE  c = d
      OBVIOUS
    <3>1. PICK k \in Mpc!Accepted : Backs(k, c)
      BY DEF MpcInv, CyclesOK
    <3>2. PICK l \in Mpc!Accepted : Backs(l, d)
      BY DEF MpcInv, CyclesOK
    <3>3. k = l
      BY <3>1, <3>2, Zenon DEF MpcInv, KeysOK, Backs
    <3> QED
      BY <3>1, <3>2, <3>3 DEF MpcInv, CyclesOK, Backs
  <2>2. \A c \in cycles : controller # None =>
          c.slot \in controller.executed \cup {None} /\ c.id <= controller.sequence
    <3> SUFFICES ASSUME NEW c \in cycles, controller # None
                 PROVE  c.slot \in controller.executed \cup {None} /\ c.id <= controller.sequence
      OBVIOUS
    <3>1. PICK k \in Mpc!Accepted : Backs(k, c)
      BY DEF MpcInv, CyclesOK
    <3> QED
      BY <3>1 DEF MpcInv, ControllerOK, KeysOK, Backs
  <2>3. \A c, d \in cycles : c.id = d.id => c = d
    BY DEF MpcInv, CyclesOK
  <2>4. \A k, l \in Mpc!Accepted : Mpc!Slot(k) = Mpc!Slot(l) /\ Mpc!Slot(k) # None => k = l
    BY DEF MpcInv, KeysOK
  <2>5. controller # None =>
          /\ controller.sequence = Cardinality(Mpc!Accepted)
          /\ controller.executed = {Mpc!Slot(k) : k \in Mpc!Accepted} \ {None}
    BY DEF MpcInv, ControllerOK
  <2>6. \A c, d \in cycles : c.id = d.id \/ (c.slot = d.slot /\ c.slot # None) => c = d
    BY <2>1, <2>3
  <2> QED
    BY <2>2, <2>4, <2>5, <2>6, MpcCardinality, Zenon DEF Mpc!IntervalsExecuteOnce
<1>2. Mpc!Init => MpcInv
  BY MpcInit
<1>3. MpcInv /\ [Mpc!Next]_Mpc!vars => MpcInv'
  BY MpcNext
<1> QED
  BY <1>1, <1>2, <1>3, PTL DEF Mpc!Spec

(***************************************************************************)
(* Stored documents.  A put that is let through replaces the version its   *)
(* handler checked, and of the artifact puts under way either the last to  *)
(* write the object is still there or none will be let through.            *)
(***************************************************************************)
CONSTANTS Tariffs, Contents, MaxVersion, MaxFleet
VARIABLES kind, docs, object, spoilt, fleet, serving

Docs == INSTANCE StoredDocuments WITH call <- serving

TariffRows == [tariff : Tariffs, status : {"draft", "published"}]
Stored == TariffRows \cup Contents \cup Nat

\* None is no request in progress.
DocsAssumption ==
    /\ \A k, b, m : None # Docs!Putting(k, b, m)

TablesOK ==
    /\ docs \in [Docs!Kinds -> Seq(Stored)]
    /\ docs["tariff"] \in Seq(TariffRows)
    /\ fleet \in Nat
    /\ serving = [h \in Handlers |-> serving[h]]

\* The put of a tariff over the current version leaves a published one as it is; an
\* explanation is of a stored result; no request names a version that is not there.
ServingHolds(c) ==
    /\ c.step = "put" =>
         /\ c.kind \in Docs!Kinds /\ c.body \in Stored /\ c.if_match \in Nat
         /\ c.kind = "tariff" =>
              /\ c.body \in TariffRows /\ c.if_match <= Docs!Version("tariff")
              /\ c.if_match = Docs!Version("tariff") /\ Docs!Published => c.body = Docs!Current("tariff")
         /\ c.kind = "explanation" => c.body \in Docs!Range(docs["optimization_run"])
         /\ c.kind = "artifact" => c.if_match <= Docs!Version("artifact")
    /\ c.step = "upload" =>
         c.body \in Contents /\ c.if_match \in Nat /\ c.if_match <= Docs!Version("artifact")
    /\ c.step = "observed" => c.body \in Nat

ServingOK == \A h \in Handlers : \A c : c = serving[h] /\ c # None => ServingHolds(c)

PutsArtifact(c) == c # None /\ c.step = "put" /\ c.kind = "artifact"
Uploading == \E h \in Handlers : PutsArtifact(serving[h])

ArtifactOK ==
    ~spoilt =>
        /\ ~Uploading /\ docs["artifact"] # <<>> => object = Docs!Current("artifact")
        /\ Uploading =>
             \/ \E g \in Handlers : PutsArtifact(serving[g]) /\ serving[g].body = object
             \/ /\ docs["artifact"] # <<>>
                /\ \A g \in Handlers :
                     PutsArtifact(serving[g]) => serving[g].if_match # Docs!Version("artifact")

DocsInv ==
    /\ TablesOK /\ ServingOK /\ ArtifactOK
    /\ Docs!PublishedIsFrozen /\ Docs!ExplanationsAreBacked

LEMMA DocsInit ==
    ASSUME Docs!Init
    PROVE  DocsInv
<1>1. TablesOK /\ ServingOK
  BY DEF Docs!Init, TablesOK, ServingOK, Docs!Kinds
<1>2. ArtifactOK
  BY DEF Docs!Init, ArtifactOK, Uploading, PutsArtifact, Docs!Kinds
<1>3. Docs!PublishedIsFrozen
  BY DEF Docs!Init, Docs!PublishedIsFrozen, Docs!Kinds
<1>4. Docs!ExplanationsAreBacked
  BY DEF Docs!Init, Docs!ExplanationsAreBacked, Docs!Range, Docs!Kinds
<1> QED
  BY <1>1, <1>2, <1>3, <1>4 DEF DocsInv

\* A handler that puts no artifact, before or after its step.
LEMMA OtherHandler ==
    ASSUME ArtifactOK, TablesOK, UNCHANGED object, spoilt' <=> spoilt,
           docs'["artifact"] = docs["artifact"],
           NEW h \in Handlers, NEW c, serving' = [serving EXCEPT ![h] = c],
           ~PutsArtifact(serving[h]), ~PutsArtifact(c)
    PROVE  ArtifactOK'
<1>1. \A g \in Handlers : /\ PutsArtifact(serving'[g]) <=> PutsArtifact(serving[g])
                          /\ PutsArtifact(serving[g]) => serving'[g] = serving[g]
  BY DEF TablesOK
<1>2. \A d : PutsArtifact(d)' <=> PutsArtifact(d)
  BY DEF PutsArtifact
<1>3. Uploading' <=> Uploading
  BY <1>1 DEF Uploading, PutsArtifact
<1>4. /\ Docs!Version("artifact")' = Docs!Version("artifact")
      /\ Docs!Current("artifact")' = Docs!Current("artifact")
  BY DEF Docs!Version, Docs!Current
<1> QED
  BY <1>1, <1>3, <1>4 DEF ArtifactOK, PutsArtifact

\* A handler's step that stores nothing.
LEMMA DocsHandlerStep ==
    ASSUME DocsInv, UNCHANGED docs, fleet' \in Nat, ArtifactOK',
           NEW h \in Handlers, NEW c, serving' = [serving EXCEPT ![h] = c],
           c # None => ServingHolds(c)
    PROVE  DocsInv'
<1>1. TablesOK' /\ Docs!PublishedIsFrozen' /\ Docs!ExplanationsAreBacked'
  <2>1. TablesOK'
    BY Zenon DEF DocsInv, TablesOK, Docs!Kinds, Stored, TariffRows
  <2>2. Docs!PublishedIsFrozen'
    BY DEF DocsInv, Docs!PublishedIsFrozen
  <2>3. Docs!ExplanationsAreBacked'
    BY DEF DocsInv, Docs!ExplanationsAreBacked, Docs!Range
  <2> QED
    BY <2>1, <2>2, <2>3
<1>2. \A d : ServingHolds(d) => ServingHolds(d)'
  BY DEF ServingHolds, Docs!Version, Docs!Published, Docs!Current, Docs!Kinds, Docs!Range
<1>3. \A g \in Handlers : serving'[g] = c \/ serving'[g] = serving[g]
  BY DEF DocsInv, TablesOK
<1>4. ServingOK'
  BY <1>2, <1>3 DEF DocsInv, ServingOK
<1> QED
  BY <1>1, <1>4 DEF DocsInv

\* What an accepted put changes in the tables.
LEMMA Appended ==
    ASSUME TablesOK, NEW k \in Docs!Kinds, NEW b \in Stored, k = "tariff" => b \in TariffRows,
           docs' = [docs EXCEPT ![k] = Append(@, b)]
    PROVE  /\ docs' \in [Docs!Kinds -> Seq(Stored)] /\ docs'["tariff"] \in Seq(TariffRows)
           /\ \A j \in Docs!Kinds : j # k => docs'[j] = docs[j]
           /\ Len(docs[k]) \in Nat /\ Len(docs'[k]) = Len(docs[k]) + 1
           /\ docs'[k] # <<>> /\ docs'[k][Len(docs'[k])] = b
           /\ \A i \in 1 .. Len(docs[k]) : docs'[k][i] = docs[k][i]
<1>1. /\ docs[k] \in Seq(Stored) /\ docs'[k] = Append(docs[k], b)
      /\ \A j \in Docs!Kinds : j # k => docs'[j] = docs[j]
      /\ docs' \in [Docs!Kinds -> Seq(Stored)]
  BY DEF TablesOK
<1>2. docs'["tariff"] \in Seq(TariffRows)
  <2>1. CASE k = "tariff"
    BY <1>1, <2>1 DEF TablesOK
  <2>2. CASE k # "tariff"
    BY <1>1, <2>2 DEF TablesOK, Docs!Kinds
  <2> QED
    BY <2>1, <2>2
<1>3. /\ Len(docs[k]) \in Nat /\ Len(docs'[k]) = Len(docs[k]) + 1
      /\ docs'[k][Len(docs[k]) + 1] = b
      /\ \A i \in 1 .. Len(docs[k]) : docs'[k][i] = docs[k][i]
  BY <1>1
<1>4. docs'[k] # <<>>
  BY <1>3
<1> QED
  BY <1>1, <1>2, <1>3, <1>4

\* A request in progress still holds when a document is stored: it is now out of date, or
\* not about the document.
LEMMA OthersHold ==
    ASSUME TablesOK, NEW k \in Docs!Kinds, NEW b \in Stored, k = "tariff" => b \in TariffRows,
           docs' = [docs EXCEPT ![k] = Append(@, b)],
           NEW c, ServingHolds(c)
    PROVE  ServingHolds(c)'
<1>1. /\ \A j \in Docs!Kinds : j # k => docs'[j] = docs[j]
      /\ Len(docs[k]) \in Nat /\ Len(docs'[k]) = Len(docs[k]) + 1
      /\ \A i \in 1 .. Len(docs[k]) : docs'[k][i] = docs[k][i]
  BY Appended, Zenon
<1>2. \A j \in Docs!Kinds : Len(docs[j]) \in Nat /\ Len(docs'[j]) \in Nat /\ Len(docs[j]) <= Len(docs'[j])
  BY <1>1 DEF TablesOK
<1>3. /\ "tariff" \in Docs!Kinds /\ "artifact" \in Docs!Kinds /\ "optimization_run" \in Docs!Kinds
      /\ \A j : j \in Docs!Kinds' <=> j \in Docs!Kinds
      /\ Stored' = Stored /\ TariffRows' = TariffRows
  BY DEF Docs!Kinds, Stored, TariffRows
<1>4. Docs!Range(docs["optimization_run"]) \subseteq Docs!Range(docs'["optimization_run"])
  <2>1. CASE k = "optimization_run"
    <3>1. /\ docs[k] \in Seq(Stored) /\ docs'[k] \in Seq(Stored)
      BY Appended DEF TablesOK
    <3>2. DOMAIN docs[k] = 1 .. Len(docs[k]) /\ DOMAIN docs'[k] = 1 .. Len(docs'[k])
      BY <3>1
    <3> QED
      BY <1>1, <2>1, <3>2 DEF Docs!Range
  <2>2. CASE k # "optimization_run"
    BY <1>1, <1>3, <2>2
  <2> QED
    BY <2>1, <2>2
<1>5. ASSUME c.step = "put", c.kind = "tariff"
      PROVE  /\ c.if_match <= Len(docs'["tariff"])
             /\ c.if_match = Len(docs'["tariff"]) => docs'["tariff"] = docs["tariff"]
                                                     /\ c.if_match = Len(docs["tariff"])
  <2>1. c.if_match \in Nat /\ c.if_match <= Len(docs["tariff"])
    BY <1>5 DEF ServingHolds, Docs!Version
  <2>2. CASE k = "tariff"
    BY <1>1, <2>1, <2>2
  <2>3. CASE k # "tariff"
    BY <1>1, <1>2, <1>3, <2>1, <2>3
  <2> QED
    BY <2>2, <2>3
<1>6. ASSUME c.step = "put", c.kind = "tariff"
      PROVE  /\ c.body \in TariffRows /\ c.if_match <= Docs!Version("tariff")'
             /\ c.if_match = Docs!Version("tariff")' /\ Docs!Published' => c.body = Docs!Current("tariff")'
  BY <1>5, <1>6 DEF ServingHolds, Docs!Version, Docs!Published, Docs!Current
<1>7. ASSUME c.step = "upload" \/ (c.step = "put" /\ c.kind = "artifact")
      PROVE  c.if_match <= Docs!Version("artifact")'
  <2>1. c.if_match \in Nat /\ c.if_match <= Len(docs["artifact"])
    BY <1>7 DEF ServingHolds, Docs!Version
  <2> QED
    BY <1>2, <1>3, <2>1 DEF Docs!Version
<1>8. c.step = "put" => /\ c.kind \in Docs!Kinds /\ c.body \in Stored /\ c.if_match \in Nat
                        /\ c.kind = "explanation" => c.body \in Docs!Range(docs'["optimization_run"])
  BY <1>4 DEF ServingHolds
<1>9. /\ c.step = "upload" => c.body \in Contents /\ c.if_match \in Nat
      /\ c.step = "observed" => c.body \in Nat
  BY DEF ServingHolds
<1>10. Docs!Range(docs["optimization_run"])' = Docs!Range(docs'["optimization_run"])
  BY DEF Docs!Range
<1> QED
  BY <1>3, <1>6, <1>7, <1>8, <1>9, <1>10 DEF ServingHolds

\* A put that is let through, of a document of any kind.
LEMMA DocsPut ==
    ASSUME DocsAssumption, DocsInv, NEW h \in Handlers, Docs!Put(h)
    PROVE  DocsInv'
<1>1. PICK c : c = serving[h]
  OBVIOUS
<1>2. PICK k, b : k = c.kind /\ b = c.body
  OBVIOUS
<1>3. ServingHolds(c) /\ c # None /\ c.step = "put"
  BY <1>1 DEF Docs!Put, Docs!At, Docs!Idle, DocsInv, ServingOK
<1>4. /\ k \in Docs!Kinds /\ b \in Stored
      /\ k = "tariff" => b \in TariffRows
      /\ docs[k] # <<>> => c.if_match = Len(docs[k])
      /\ docs' = [docs EXCEPT ![k] = Append(@, b)]
      /\ UNCHANGED <<object, spoilt, fleet>>
  BY <1>1, <1>2, <1>3 DEF ServingHolds, Docs!Put, Docs!PutAllowed, Docs!Version
<1>5. PICK d : /\ serving' = [serving EXCEPT ![h] = d]
               /\ k = "optimization_run" => d = Docs!Putting("explanation", b, 0)
               /\ k # "optimization_run" => d = None
  BY <1>1, <1>2 DEF Docs!Put, Docs!Enter, Docs!Leave
<1>6. TablesOK
  BY DEF DocsInv
<1>7. /\ docs' \in [Docs!Kinds -> Seq(Stored)] /\ docs'["tariff"] \in Seq(TariffRows)
      /\ \A j \in Docs!Kinds : j # k => docs'[j] = docs[j]
      /\ Len(docs[k]) \in Nat /\ Len(docs'[k]) = Len(docs[k]) + 1
      /\ docs'[k] # <<>> /\ docs'[k][Len(docs'[k])] = b
      /\ \A i \in 1 .. Len(docs[k]) : docs'[k][i] = docs[k][i]
  BY <1>4, <1>6, Appended, Zenon
<1>8. TablesOK'
  BY <1>4, <1>5, <1>7, Zenon DEF DocsInv, TablesOK, Docs!Kinds, Stored, TariffRows
<1>9. DOMAIN docs[k] = 1 .. Len(docs[k]) /\ DOMAIN docs'[k] = 1 .. Len(docs'[k])
  <2>1. docs[k] \in Seq(Stored) /\ docs'[k] \in Seq(Stored)
    BY <1>4, <1>6, <1>7 DEF TablesOK
  <2> QED
    BY <2>1
<1>10. b \in Docs!Range(docs'[k]) /\ Docs!Range(docs'[k]) \subseteq Docs!Range(docs[k]) \cup {b}
      /\ Docs!Range(docs[k]) \subseteq Docs!Range(docs'[k])
  <2>1. Len(docs'[k]) \in DOMAIN docs'[k]
    BY <1>7, <1>9
  <2>2. \A i \in DOMAIN docs'[k] : i \in 1 .. Len(docs[k]) \/ i = Len(docs'[k])
    BY <1>7, <1>9
  <2>3. Docs!Range(docs'[k]) = {docs'[k][i] : i \in DOMAIN docs'[k]}
        /\ Docs!Range(docs[k]) = {docs[k][i] : i \in DOMAIN docs[k]}
    BY DEF Docs!Range
  <2>4. 1 .. Len(docs[k]) \subseteq DOMAIN docs'[k]
    BY <1>7, <1>9
  <2> QED
    BY <1>7, <1>9, <2>1, <2>2, <2>3, <2>4
<1>11. \A e : ServingHolds(e) => ServingHolds(e)'
  BY <1>4, <1>6, OthersHold, Zenon
<1>12. ServingOK'
  <2>1. d # None => ServingHolds(d)'
    <3> SUFFICES ASSUME k = "optimization_run" PROVE ServingHolds(d)'
      BY <1>5
    <3>1. /\ d.step = "put" /\ d.kind = "explanation" /\ d.body = b /\ d.if_match = 0
      BY <1>5 DEF Docs!Putting
    <3>2. d.kind \in Docs!Kinds /\ d.body \in Stored /\ d.if_match \in Nat
      BY <1>4, <3>1 DEF Docs!Kinds
    <3>3. Stored' = Stored /\ Docs!Kinds' = Docs!Kinds
      BY DEF Stored, TariffRows, Docs!Kinds
    <3>4. d.body \in Docs!Range(docs["optimization_run"])'
      BY <1>10, <3>1 DEF Docs!Range
    <3> QED
      BY <3>1, <3>2, <3>3, <3>4 DEF ServingHolds
  <2>2. \A g \in Handlers : serving'[g] = d \/ serving'[g] = serving[g]
    BY <1>5 DEF DocsInv, TablesOK
  <2> QED
    BY <1>11, <2>1, <2>2 DEF DocsInv, ServingOK
<1>13. Docs!ExplanationsAreBacked'
  <2>1. CASE k = "explanation"
    <3>1. b \in Docs!Range(docs["optimization_run"])
      BY <1>2, <1>3, <2>1 DEF ServingHolds
    <3>2. docs'["optimization_run"] = docs["optimization_run"]
      BY <1>7, <2>1 DEF Docs!Kinds
    <3>3. Docs!Range(docs'["explanation"]) \subseteq Docs!Range(docs'["optimization_run"])
      BY <1>10, <2>1, <3>1, <3>2 DEF DocsInv, Docs!ExplanationsAreBacked
    <3> QED
      BY <3>3 DEF Docs!ExplanationsAreBacked, Docs!Range
  <2>2. CASE k # "explanation"
    <3>1. docs'["explanation"] = docs["explanation"]
      BY <1>7, <2>2 DEF Docs!Kinds
    <3>2. Docs!Range(docs["optimization_run"]) \subseteq Docs!Range(docs'["optimization_run"])
      BY <1>7, <1>10 DEF Docs!Kinds
    <3>3. Docs!Range(docs'["explanation"]) \subseteq Docs!Range(docs'["optimization_run"])
      BY <3>1, <3>2 DEF DocsInv, Docs!ExplanationsAreBacked
    <3> QED
      BY <3>3 DEF Docs!ExplanationsAreBacked, Docs!Range
  <2> QED
    BY <2>1, <2>2
<1>14. Docs!PublishedIsFrozen'
  <2>1. CASE k = "tariff"
    <3> SUFFICES ASSUME NEW i \in DOMAIN docs'[k], NEW j \in DOMAIN docs'[k], i < j,
                        docs'[k][i].status = "published"
                 PROVE  docs'[k][j] = docs'[k][i]
      BY <2>1 DEF Docs!PublishedIsFrozen
    <3>1. i \in 1 .. Len(docs[k]) /\ docs'[k][i] = docs[k][i]
      BY <1>7, <1>9
    <3>2. \A m \in 1 .. Len(docs[k]) : i < m => docs[k][m] = docs[k][i]
      BY <1>9, <2>1, <3>1 DEF DocsInv, Docs!PublishedIsFrozen
    <3>3. CASE j \in 1 .. Len(docs[k])
      BY <1>7, <3>1, <3>2, <3>3
    <3>4. CASE j = Len(docs'[k])
      <4>1. Len(docs[k]) \in 1 .. Len(docs[k]) /\ docs[k] # <<>>
        BY <1>7, <3>1
      <4>2. docs[k][Len(docs[k])] = docs[k][i]
        BY <1>7, <3>1, <3>2, <4>1
      <4>3. Docs!Published /\ c.if_match = Docs!Version("tariff")
        BY <1>4, <2>1, <3>1, <4>1, <4>2 DEF Docs!Published, Docs!Current, Docs!Version
      <4>4. b = docs[k][Len(docs[k])]
        BY <1>2, <1>3, <2>1, <4>3 DEF ServingHolds, Docs!Current, Docs!Version
      <4> QED
        BY <1>7, <3>1, <3>4, <4>2, <4>4
    <3> QED
      BY <1>7, <1>9, <3>3, <3>4
  <2>2. CASE k # "tariff"
    <3>1. docs'["tariff"] = docs["tariff"]
      BY <1>7, <2>2 DEF Docs!Kinds
    <3> QED
      BY <3>1 DEF DocsInv, Docs!PublishedIsFrozen
  <2> QED
    BY <2>1, <2>2
<1>15. ArtifactOK'
  <2>1. CASE k # "artifact"
    <3>1. docs'["artifact"] = docs["artifact"]
      BY <1>7, <2>1 DEF Docs!Kinds
    <3>2. ~PutsArtifact(serving[h]) /\ ~PutsArtifact(d)
      BY <1>1, <1>2, <1>5, <2>1 DEF PutsArtifact, Docs!Putting
    <3> QED
      BY <1>4, <1>5, <1>6, <3>1, <3>2, OtherHandler, Zenon DEF DocsInv
  <2>2. CASE k = "artifact"
    <3> SUFFICES ASSUME ~spoilt PROVE ArtifactOK'
      BY <1>4 DEF ArtifactOK
    <3>1. /\ serving'[h] = None
          /\ \A g \in Handlers : g # h => serving'[g] = serving[g]
      BY <1>5, <1>6, <2>2 DEF TablesOK
    <3>2. \A g \in Handlers : PutsArtifact(serving'[g]) =>
            g # h /\ serving'[g].if_match \in Nat /\ serving'[g].if_match <= Len(docs[k])
      <4> SUFFICES ASSUME NEW g \in Handlers, NEW e, e = serving'[g], PutsArtifact(e)
                   PROVE  g # h /\ e.if_match \in Nat /\ e.if_match <= Len(docs[k])
        OBVIOUS
      <4>1. g # h /\ e = serving[g] /\ e # None
        BY <3>1 DEF PutsArtifact
      <4>2. ServingHolds(e)
        BY <4>1 DEF DocsInv, ServingOK
      <4> QED
        BY <2>2, <4>1, <4>2 DEF ServingHolds, PutsArtifact, Docs!Version
    <3>3. \A g \in Handlers : PutsArtifact(serving'[g]) => serving'[g].if_match # Len(docs'[k])
      BY <1>7, <3>2
    <3>4. (\A g \in Handlers : ~PutsArtifact(serving'[g])) => object = b
      <4> SUFFICES ASSUME \A g \in Handlers : ~PutsArtifact(serving'[g]) PROVE object = b
        OBVIOUS
      <4>1. \A g \in Handlers : PutsArtifact(serving[g]) => g = h
        BY <3>1
      <4>2. PutsArtifact(serving[h]) /\ Uploading
        BY <1>1, <1>2, <1>3, <2>2, Zenon DEF PutsArtifact, Uploading
      <4>3. \/ serving[h].body = object
            \/ docs["artifact"] # <<>> /\ serving[h].if_match # Len(docs["artifact"])
        BY <4>1, <4>2 DEF DocsInv, ArtifactOK, Docs!Version
      <4> QED
        BY <1>1, <1>2, <1>4, <2>2, <4>3
    <3>5. Uploading' <=> \E g \in Handlers : PutsArtifact(serving'[g])
      BY DEF Uploading, PutsArtifact
    <3>6. Docs!Current("artifact")' = b /\ Docs!Version("artifact")' = Len(docs'[k])
      BY <1>7, <2>2 DEF Docs!Current, Docs!Version
    <3>7. ~Uploading' => object' = Docs!Current("artifact")'
      BY <1>4, <3>4, <3>5, <3>6
    <3>8. docs'["artifact"] # <<>> /\ \A g \in Handlers :
            PutsArtifact(serving[g])' => serving'[g].if_match # Docs!Version("artifact")'
      BY <1>7, <2>2, <3>3, <3>6 DEF PutsArtifact
    <3> QED
      BY <3>7, <3>8 DEF ArtifactOK
  <2> QED
    BY <2>1, <2>2
<1> QED
  BY <1>8, <1>12, <1>13, <1>14, <1>15 DEF DocsInv

\* A request enters, or goes on, without storing anything.
LEMMA DocsEnter ==
    ASSUME DocsInv, NEW h \in Handlers, NEW c, serving' = [serving EXCEPT ![h] = c],
           UNCHANGED <<docs, object, spoilt, fleet>>,
           ServingHolds(c), ~PutsArtifact(c), ~PutsArtifact(serving[h])
    PROVE  DocsInv'
<1>1. ArtifactOK' /\ fleet' \in Nat
  BY OtherHandler DEF DocsInv, TablesOK
<1> QED
  BY <1>1, DocsHandlerStep, Zenon

LEMMA DocsRequest ==
    ASSUME DocsInv, NEW h \in Handlers, Docs!Request(h)
    PROVE  DocsInv'
<1>1. ASSUME Docs!Idle(h) PROVE ~PutsArtifact(serving[h])
  BY <1>1 DEF Docs!Idle, PutsArtifact
<1>2. /\ "tariff" \in Docs!Kinds /\ "admin_config" \in Docs!Kinds /\ "artifact" \in Docs!Kinds
      /\ "optimization_run" \in Docs!Kinds
      /\ \A k \in Docs!Kinds : Len(docs[k]) \in Nat
  BY DEF Docs!Kinds, DocsInv, TablesOK
<1>3. ASSUME NEW k \in Docs!Kinds, NEW im \in 0 .. Len(docs[k]), NEW b \in Stored,
             k \notin {"explanation", "artifact"},
             k = "tariff" => /\ b \in TariffRows
                             /\ im = Len(docs[k]) /\ Docs!Published => b = Docs!Current("tariff"),
             Docs!Idle(h), Docs!Enter(h, Docs!Putting(k, b, im)),
             UNCHANGED <<docs, object, spoilt, fleet>>
      PROVE  DocsInv'
  <2>1. PICK c : c = Docs!Putting(k, b, im)
    OBVIOUS
  <2>2. c.step = "put" /\ c.kind = k /\ c.body = b /\ c.if_match = im
    BY <2>1 DEF Docs!Putting
  <2>3. im \in Nat /\ im <= Len(docs[k])
    BY <1>2, <1>3
  <2>4. ServingHolds(c) /\ ~PutsArtifact(c)
    BY <1>3, <2>2, <2>3 DEF ServingHolds, PutsArtifact, Docs!Version
  <2> QED
    BY <1>1, <1>3, <2>1, <2>4, DocsEnter, Zenon DEF Docs!Enter
<1>4. ASSUME NEW im \in 0 .. Len(docs["tariff"]), NEW t \in Tariffs, NEW s \in {"draft", "published"},
             Docs!CreateTariff(h, t, s, im)
      PROVE  DocsInv'
  <2>1. PICK b : b = [tariff |-> t, status |-> s]
    BY Zenon
  <2>2. b \in TariffRows /\ b \in Stored /\ ~Docs!Published
    BY <1>4, <2>1 DEF TariffRows, Stored, Docs!CreateTariff
  <2> QED
    BY <1>2, <1>3, <1>4, <2>1, <2>2 DEF Docs!CreateTariff
<1>5. ASSUME NEW im \in 0 .. Len(docs["tariff"]), Docs!PublishTariff(h, im)
      PROVE  DocsInv'
  <2>1. PICK b : b = [Docs!Current("tariff") EXCEPT !.status = "published"]
    BY Zenon
  <2>2. Docs!Current("tariff") \in TariffRows
    <3>1. docs["tariff"] \in Seq(TariffRows) /\ docs["tariff"] # <<>>
      BY <1>5 DEF Docs!PublishTariff, DocsInv, TablesOK
    <3> QED
      BY <3>1 DEF Docs!Current, Docs!Version
  <2>3. /\ b \in TariffRows
        /\ Docs!Current("tariff").status = "published" => b = Docs!Current("tariff")
    BY <2>1, <2>2 DEF TariffRows
  <2>4. b \in Stored /\ (Docs!Published => b = Docs!Current("tariff"))
    BY <2>3 DEF Stored, Docs!Published
  <2> QED
    BY <1>2, <1>3, <1>5, <2>1, <2>3, <2>4 DEF Docs!PublishTariff
<1>6. ASSUME NEW im \in 0 .. Len(docs["admin_config"]), NEW b \in Contents, Docs!CreateConfig(h, b, im)
      PROVE  DocsInv'
  BY <1>2, <1>3, <1>6 DEF Docs!CreateConfig, Stored
<1>7. ASSUME NEW im \in 0 .. Len(docs["admin_config"]), NEW v, Docs!RollbackConfig(h, v, im)
      PROVE  DocsInv'
  <2>1. docs["admin_config"][v] \in Stored
    <3>1. docs["admin_config"] \in Seq(Stored) /\ v \in DOMAIN docs["admin_config"]
      BY <1>2, <1>7 DEF Docs!RollbackConfig, DocsInv, TablesOK
    <3> QED
      BY <3>1
  <2> QED
    BY <1>2, <1>3, <1>7, <2>1 DEF Docs!RollbackConfig
<1>8. ASSUME NEW im \in 0 .. Len(docs["optimization_run"]), NEW b \in Contents,
             Docs!RunOptimization(h, b, im)
      PROVE  DocsInv'
  BY <1>2, <1>3, <1>8 DEF Docs!RunOptimization, Stored
<1>9. ASSUME NEW im \in 0 .. Len(docs["artifact"]), NEW b \in Contents, Docs!BeginArtifact(h, b, im)
      PROVE  DocsInv'
  <2>1. PICK c : c = [step |-> "upload", body |-> b, if_match |-> im]
    BY Zenon
  <2>2. c.step = "upload" /\ c.body = b /\ c.if_match = im /\ im \in Nat /\ im <= Len(docs["artifact"])
    BY <1>2, <1>9, <2>1
  <2>3. ServingHolds(c) /\ ~PutsArtifact(c)
    BY <2>2 DEF ServingHolds, PutsArtifact, Docs!Version
  <2> QED
    BY <1>1, <1>9, <2>1, <2>3, DocsEnter, Zenon DEF Docs!BeginArtifact, Docs!Enter
<1>10. CASE Docs!ObserveFleet(h)
  <2>1. PICK c : c = [step |-> "observed", body |-> fleet]
    BY Zenon
  <2>2. ServingHolds(c) /\ ~PutsArtifact(c)
    BY <2>1 DEF ServingHolds, PutsArtifact, DocsInv, TablesOK
  <2> QED
    BY <1>1, <1>10, <2>1, <2>2, DocsEnter, Zenon DEF Docs!ObserveFleet, Docs!Enter
<1> QED
  BY <1>4, <1>5, <1>6, <1>7, <1>8, <1>9, <1>10 DEF Docs!Request, Docs!IfMatches, Docs!Version

\* The object is replaced: its writer is now the last.
LEMMA DocsPutObject ==
    ASSUME DocsAssumption, DocsInv, NEW h \in Handlers, Docs!PutObject(h)
    PROVE  DocsInv'
<1>1. PICK c : c = serving[h]
  OBVIOUS
<1>2. PICK d : d = Docs!Putting("artifact", c.body, c.if_match)
  OBVIOUS
<1>3. /\ serving' = [serving EXCEPT ![h] = d] /\ object' = c.body
      /\ UNCHANGED <<docs, spoilt, fleet>>
      /\ c # None /\ c.step = "upload"
  BY <1>1, <1>2 DEF Docs!PutObject, Docs!Enter, Docs!At, Docs!Idle
<1>4. d.step = "put" /\ d.kind = "artifact" /\ d.body = c.body /\ d.if_match = c.if_match
  BY <1>2 DEF Docs!Putting
<1>5. ServingHolds(d)
  <2>1. c.body \in Contents /\ c.if_match \in Nat /\ c.if_match <= Docs!Version("artifact")
    BY <1>1, <1>3 DEF DocsInv, ServingOK, ServingHolds
  <2> QED
    BY <1>4, <2>1 DEF ServingHolds, Docs!Kinds, Stored
<1>6. ArtifactOK'
  <2>1. serving'[h] = d /\ PutsArtifact(d)
    BY <1>2, <1>3, <1>4 DEF DocsInv, TablesOK, PutsArtifact, DocsAssumption
  <2>2. PutsArtifact(serving[h])' /\ serving'[h].body = object'
    BY <1>3, <1>4, <2>1 DEF PutsArtifact
  <2> QED
    BY <2>2 DEF ArtifactOK, Uploading
<1> QED
  BY <1>3, <1>5, <1>6, DocsHandlerStep DEF DocsInv, TablesOK

LEMMA DocsNext ==
    ASSUME DocsAssumption, DocsInv, [Docs!Next]_Docs!vars
    PROVE  DocsInv'
<1>1. ASSUME NEW h \in Handlers, Docs!ReadSnapshotEtag(h)
      PROVE  DocsInv'
  <2>1. PICK c, n : c = serving[h] /\ n = Docs!Version("compute_snapshot")
    OBVIOUS
  <2>2. c.body \in Nat /\ n \in Nat /\ ~PutsArtifact(c)
    BY <1>1, <2>1 DEF Docs!ReadSnapshotEtag, Docs!At, Docs!Idle, DocsInv, ServingOK, ServingHolds,
                      PutsArtifact, TablesOK, Docs!Version, Docs!Kinds
  <2>3. PICK d : d = Docs!Putting("compute_snapshot", c.body, n)
    OBVIOUS
  <2>4. ServingHolds(d) /\ ~PutsArtifact(d)
    BY <2>2, <2>3 DEF Docs!Putting, ServingHolds, PutsArtifact, Docs!Kinds, Stored
  <2>5. serving' = [serving EXCEPT ![h] = d] /\ UNCHANGED <<docs, object, spoilt, fleet>>
    BY <1>1, <2>1, <2>3 DEF Docs!ReadSnapshotEtag, Docs!Enter
  <2> QED
    BY <2>1, <2>2, <2>4, <2>5, DocsEnter, Zenon
<1>2. ASSUME NEW h \in Handlers, Docs!ReplayRun(h)
      PROVE  DocsInv'
  <2>1. PICK c : c = serving[h]
    OBVIOUS
  <2>2. /\ c # None /\ c.step = "put" /\ c.kind = "optimization_run"
        /\ c.body \in Docs!Range(docs["optimization_run"])
    BY <1>2, <2>1 DEF Docs!ReplayRun, Docs!At, Docs!Idle
  <2>3. c.body \in Stored
    BY <2>1, <2>2 DEF DocsInv, ServingOK, ServingHolds
  <2>4. PICK d : d = Docs!Putting("explanation", c.body, 0)
    OBVIOUS
  <2>5. ServingHolds(d) /\ ~PutsArtifact(d)
    BY <2>2, <2>3, <2>4 DEF Docs!Putting, ServingHolds, PutsArtifact, Docs!Kinds
  <2>6. serving' = [serving EXCEPT ![h] = d] /\ UNCHANGED <<docs, object, spoilt, fleet>>
    BY <1>2, <2>1, <2>4 DEF Docs!ReplayRun, Docs!Enter
  <2> QED
    BY <2>1, <2>2, <2>5, <2>6, DocsEnter, Zenon DEF PutsArtifact
<1>3. ASSUME NEW h \in Handlers, Docs!End(h)
      PROVE  DocsInv'
  <2>1. serving' = [serving EXCEPT ![h] = None] /\ UNCHANGED <<docs, object, fleet>>
    BY <1>3 DEF Docs!End, Docs!Leave
  <2>2. CASE PutsArtifact(serving[h])
    <3>1. spoilt'
      BY <1>3, <2>2, Zenon DEF Docs!End, Docs!At, Docs!Idle, PutsArtifact
    <3>2. ArtifactOK'
      BY <3>1 DEF ArtifactOK
    <3> QED
      BY <2>1, <3>2, DocsHandlerStep DEF DocsInv, TablesOK
  <2>3. CASE ~PutsArtifact(serving[h])
    <3>1. spoilt' <=> spoilt
      BY <1>3, <2>3, Zenon DEF Docs!End, Docs!At, Docs!Idle, PutsArtifact
    <3>2. ~PutsArtifact(None)
      BY DEF PutsArtifact
    <3>3. ArtifactOK'
      BY <2>1, <2>3, <3>1, <3>2, OtherHandler, Zenon DEF DocsInv
    <3> QED
      BY <2>1, <3>3, DocsHandlerStep DEF DocsInv, TablesOK
  <2> QED
    BY <2>2, <2>3
<1>4. ASSUME UNCHANGED <<docs, object, spoilt, serving>>, fleet' \in Nat
      PROVE  DocsInv'
  <2>1. TablesOK' /\ ServingOK'
    <3>1. \A d : ServingHolds(d) => ServingHolds(d)'
      BY <1>4 DEF ServingHolds, Docs!Version, Docs!Published, Docs!Current, Docs!Kinds, Docs!Range
    <3> QED
      BY <1>4, <3>1 DEF DocsInv, TablesOK, ServingOK, Docs!Kinds, Stored, TariffRows
  <2>2. ArtifactOK'
    BY <1>4 DEF DocsInv, ArtifactOK, Uploading, PutsArtifact, Docs!Version, Docs!Current
  <2>3. Docs!PublishedIsFrozen'
    BY <1>4 DEF DocsInv, Docs!PublishedIsFrozen
  <2>4. Docs!ExplanationsAreBacked'
    BY <1>4 DEF DocsInv, Docs!ExplanationsAreBacked, Docs!Range
  <2> QED
    BY <2>1, <2>2, <2>3, <2>4 DEF DocsInv
<1>5. CASE Docs!FleetChanges
  BY <1>4, <1>5 DEF Docs!FleetChanges, DocsInv, TablesOK
<1>6. CASE UNCHANGED Docs!vars
  BY <1>4, <1>6 DEF Docs!vars, DocsInv, TablesOK
<1> QED
  BY <1>1, <1>2, <1>3, <1>5, <1>6, DocsPut, DocsPutObject, DocsRequest DEF Docs!Next, Docs!Step

\* The endpoints over store.put: a published tariff is never changed again, an explanation
\* is of a stored run, and an artifact is readable unless a put of it failed half way.
THEOREM WritesHold ==
    ASSUME DocsAssumption
    PROVE  Docs!Spec => []Docs!AcceptedWritesHold
<1>1. DocsInv => Docs!AcceptedWritesHold
  <2> SUFFICES ASSUME DocsInv PROVE Docs!AcceptedWritesHold
    OBVIOUS
  <2>1. Docs!ArtifactsAreReadable
    <3> SUFFICES ASSUME docs["artifact"] # <<>>, ~spoilt,
                        \A h \in Handlers : Docs!At(h, "put") => serving[h].kind # "artifact"
                 PROVE  Docs!Readable
      BY DEF Docs!ArtifactsAreReadable
    <3>1. ~Uploading
      BY DEF Uploading, PutsArtifact, Docs!At, Docs!Idle
    <3> QED
      BY <3>1 DEF DocsInv, ArtifactOK, Docs!Readable
  <2> QED
    BY <2>1 DEF DocsInv, Docs!AcceptedWritesHold
<1>2. Docs!Init => DocsInv
  BY DocsInit
<1>3. DocsInv /\ [Docs!Next]_Docs!vars => DocsInv'
  BY DocsNext
<1> QED
  BY <1>1, <1>2, <1>3, PTL DEF Docs!Spec

(***************************************************************************)
(* Telemetry.  What a whole answer holds is either stored or still among   *)
(* the events of its sync.                                                 *)
(***************************************************************************)
CONSTANTS Intervals, Starts, MaxEnd, FailureThreshold
VARIABLES raw_events, timeseries_points, offset, breaker, sync, synced

Telemetry == INSTANCE TelemetryIngestion

\* The meter holds finitely many intervals and the clock does not go below zero; None is
\* no interval, no cursor, no time and no point.
TelemetryAssumption ==
    /\ IsFiniteSet(Intervals) /\ None \notin Intervals
    /\ \A i \in Intervals : i.timestamp \in Nat
    /\ Starts \subseteq Int /\ MaxEnd \in Nat /\ None \notin Int /\ None # "more"
    /\ \A v, u, id : None # [value |-> v, unit |-> u, raw_event_id |-> id]

\* Landed under its id, with a point that agrees.
Done(i) ==
    /\ raw_events[i.id] = i
    /\ timeseries_points[i.timestamp] # None
    /\ Telemetry!SamePoint(timeseries_points[i.timestamp], Telemetry!Normalize(i))

StoresOK ==
    /\ raw_events = [id \in Telemetry!EventIds |-> raw_events[id]]
    /\ timeseries_points = [t \in Telemetry!Timestamps |-> timeseries_points[t]]
    /\ sync = [h \in Handlers |-> sync[h]]
    /\ offset.watermark \in Int \cup {None}
    /\ \A t \in synced : t \in Int /\ t < MaxEnd
    /\ \A i \in Intervals : i.timestamp \in synced => Done(i)

\* Every point comes from a landed event.
PointsOK ==
    \A t \in Telemetry!Timestamps : \A p : p = timeseries_points[t] /\ p # None =>
        \E source \in Intervals : /\ raw_events[p.raw_event_id] = source
                                  /\ source.timestamp = t /\ Telemetry!Normalize(source) = p

Among(i, events) == \E n \in 1 .. Len(events) : events[n] = i
Within(i, s) == s.start <= i.timestamp /\ i.timestamp < s.end

SyncHolds(s) ==
    /\ s = [start |-> s.start, end |-> s.end, cursor |-> s.cursor, whole |-> s.whole,
            pc |-> s.pc, events |-> s.events]
    /\ s.start \in Int /\ s.end \in 1 .. MaxEnd
    /\ s.events \in Seq(Intervals)
    /\ \A n \in 1 .. Len(s.events) : s.events[n].timestamp \in Telemetry!Timestamps
    /\ s.pc \in {"raw", "point"} => s.events # <<>>
    /\ s.pc = "commit" => s.events = <<>>
    /\ s.pc = "point" => raw_events[Head(s.events).id] = Head(s.events)
    /\ s.pc # "pull" /\ s.whole =>
         \A i \in Intervals : Within(i, s) => Done(i) \/ Among(i, s.events)

SyncsOK == \A h \in Handlers : \A s : s = sync[h] /\ s # None => SyncHolds(s)

TelemetryInv == StoresOK /\ PointsOK /\ SyncsOK

\* What was landed or stored stays.
Grows ==
    /\ \A id \in Telemetry!EventIds : raw_events[id] # None => raw_events'[id] = raw_events[id]
    /\ \A t \in Telemetry!Timestamps :
         timeseries_points[t] # None => timeseries_points'[t] = timeseries_points[t]

\* An order of all elements of a finite set holds each of them.
LEMMA AllAmong ==
    ASSUME NEW S, IsFiniteSet(S), NEW f \in Telemetry!Orders(S)
    PROVE  f \in Seq(S) /\ \A x \in S : Among(x, f)
<1>1. PICK n : n = Cardinality(S)
  OBVIOUS
<1>2. n \in Nat
  BY <1>1, FS_CardinalityType
<1>3. \A T : Telemetry!Cardinality(T) = Cardinality(T)
  BY DEF Telemetry!Cardinality, Cardinality
<1>4. f \in [1 .. n -> S] /\ \A x \in S : \E i \in 1 .. n : f[i] = x
  BY <1>1, <1>3 DEF Telemetry!Orders, Telemetry!Bijection, Telemetry!Injection, Telemetry!Surjection
<1>5. f \in Seq(S) /\ Len(f) = n
  BY <1>2, <1>4
<1> QED
  BY <1>4, <1>5 DEF Among

LEMMA TelemetryInit ==
    ASSUME Telemetry!Init
    PROVE  TelemetryInv
<1>1. StoresOK
  BY DEF Telemetry!Init, StoresOK
<1>2. PointsOK /\ SyncsOK
  BY DEF Telemetry!Init, PointsOK, SyncsOK
<1> QED
  BY <1>1, <1>2 DEF TelemetryInv

LEMMA DoneStays ==
    ASSUME TelemetryAssumption, Grows, NEW i \in Intervals, i.timestamp \in Telemetry!Timestamps, Done(i)
    PROVE  Done(i)'
<1>1. i.id \in Telemetry!EventIds /\ i # None
  BY DEF Telemetry!EventIds, TelemetryAssumption
<1>2. raw_events'[i.id] = raw_events[i.id]
      /\ timeseries_points'[i.timestamp] = timeseries_points[i.timestamp]
  BY <1>1 DEF Grows, Done
<1>3. Telemetry!Normalize(i)' = Telemetry!Normalize(i)
  BY DEF Telemetry!Normalize, Telemetry!Factor
<1> QED
  BY <1>2, <1>3 DEF Done, Telemetry!SamePoint

\* A sync that does not move still holds when the stores grow.
LEMMA SyncStays ==
    ASSUME TelemetryAssumption, Grows, NEW s, SyncHolds(s)
    PROVE  SyncHolds(s)'
<1>1. s.pc = "point" => raw_events'[Head(s.events).id] = Head(s.events)
  <2> SUFFICES ASSUME s.pc = "point", NEW e, e = Head(s.events)
               PROVE  raw_events'[e.id] = e
    OBVIOUS
  <2>1. e \in Intervals /\ raw_events[e.id] = e
    BY DEF SyncHolds
  <2> QED
    BY <2>1 DEF Grows, Telemetry!EventIds, TelemetryAssumption
<1>2. \A i \in Intervals : Within(i, s) /\ Done(i) => Done(i)'
  <2> SUFFICES ASSUME NEW i \in Intervals, Within(i, s), Done(i) PROVE Done(i)'
    OBVIOUS
  <2>1. i.timestamp \in Telemetry!Timestamps
    BY DEF Within, SyncHolds, TelemetryAssumption, Telemetry!Timestamps
  <2> QED
    BY <2>1, DoneStays
<1>3. /\ \A i : Within(i, s)' <=> Within(i, s)
      /\ \A i : Among(i, s.events)' <=> Among(i, s.events)
      /\ Telemetry!Timestamps' = Telemetry!Timestamps
  BY DEF Within, Among, Telemetry!Timestamps
<1> QED
  BY <1>1, <1>2, <1>3 DEF SyncHolds

\* One sync moves, and the stores at most grow.
LEMMA TelemetryStep ==
    ASSUME TelemetryAssumption, TelemetryInv, Grows, PointsOK',
           raw_events' = [id \in Telemetry!EventIds |-> raw_events'[id]],
           timeseries_points' = [t \in Telemetry!Timestamps |-> timeseries_points'[t]],
           offset'.watermark \in Int \cup {None},
           \A t \in synced' : t \in Int /\ t < MaxEnd,
           \A i \in Intervals : i.timestamp \in synced' => i.timestamp \in synced \/ Done(i)',
           NEW h \in Handlers, NEW s, sync' = [sync EXCEPT ![h] = s],
           s # None => SyncHolds(s)'
    PROVE  TelemetryInv'
<1>1. \A i \in Intervals : i.timestamp \in synced => Done(i)'
  <2> SUFFICES ASSUME NEW i \in Intervals, i.timestamp \in synced PROVE Done(i)'
    OBVIOUS
  <2>1. Done(i) /\ i.timestamp \in Telemetry!Timestamps
    BY DEF TelemetryInv, StoresOK, TelemetryAssumption, Telemetry!Timestamps
  <2> QED
    BY <2>1, DoneStays
<1>2. /\ \A g \in Handlers : sync'[g] = s \/ sync'[g] = sync[g]
      /\ sync' = [g \in Handlers |-> sync'[g]]
  BY DEF TelemetryInv, StoresOK
<1>3. StoresOK'
  BY <1>1, <1>2 DEF StoresOK, Telemetry!EventIds, Telemetry!Timestamps
<1>4. SyncsOK'
  <2>1. \A r : SyncHolds(r) => SyncHolds(r)'
    BY SyncStays
  <2> QED
    BY <1>2, <2>1 DEF TelemetryInv, SyncsOK
<1> QED
  BY <1>3, <1>4 DEF TelemetryInv

\* The stores stay as they are.
LEMMA TelemetryHandlerStep ==
    ASSUME TelemetryAssumption, TelemetryInv,
           UNCHANGED <<raw_events, timeseries_points, offset, synced>>,
           NEW h \in Handlers, NEW s, sync' = [sync EXCEPT ![h] = s],
           s # None => SyncHolds(s)
    PROVE  TelemetryInv'
<1>1. Grows
  BY DEF Grows
<1>2. PointsOK'
  <2>1. \A i : Telemetry!Normalize(i)' = Telemetry!Normalize(i)
    BY DEF Telemetry!Normalize, Telemetry!Factor
  <2> QED
    BY <2>1 DEF TelemetryInv, PointsOK, Telemetry!Timestamps
<1>3. s # None => SyncHolds(s)'
  BY <1>1, SyncStays
<1>4. /\ raw_events' = [id \in Telemetry!EventIds |-> raw_events'[id]]
      /\ timeseries_points' = [t \in Telemetry!Timestamps |-> timeseries_points'[t]]
      /\ offset'.watermark \in Int \cup {None}
      /\ \A t \in synced' : t \in Int /\ t < MaxEnd
  BY DEF TelemetryInv, StoresOK
<1> QED
  BY <1>1, <1>2, <1>3, <1>4, TelemetryStep, Zenon

LEMMA TelemetryBegin ==
    ASSUME TelemetryAssumption, TelemetryInv, NEW h \in Handlers, NEW given \in Starts \cup {None},
           NEW end \in 1 .. MaxEnd, Telemetry!Begin(h, given, end)
    PROVE  TelemetryInv'
<1>1. PICK start, cursor : start = Telemetry!Start(given) /\ cursor = offset.cursor
  OBVIOUS
<1>2. start \in Int
  BY <1>1 DEF Telemetry!Begin, Telemetry!Start, TelemetryAssumption, TelemetryInv, StoresOK
<1>3. PICK s : s = [start |-> start, end |-> end, cursor |-> cursor, whole |-> FALSE,
                    pc |-> "pull", events |-> <<>>]
  BY Zenon
<1>4. SyncHolds(s)
  <2>1. /\ s.start = start /\ s.end = end /\ s.cursor = cursor /\ s.whole = FALSE /\ s.pc = "pull"
        /\ s.events = <<>>
    BY <1>3
  <2>2. s = [start |-> s.start, end |-> s.end, cursor |-> s.cursor, whole |-> s.whole,
             pc |-> s.pc, events |-> s.events]
    BY <1>3
  <2>3. s.events \in Seq(Intervals) /\ Len(s.events) = 0
    BY <2>1
  <2> QED
    BY <1>2, <2>1, <2>2, <2>3 DEF SyncHolds
<1> QED
  BY <1>1, <1>3, <1>4, TelemetryHandlerStep, Zenon DEF Telemetry!Begin

\* A sync that ends without committing.
LEMMA TelemetryEnds ==
    ASSUME TelemetryAssumption, TelemetryInv, NEW h \in Handlers,
           Telemetry!GiveUp(h) \/ Telemetry!Failure(h)
    PROVE  TelemetryInv'
BY TelemetryHandlerStep DEF Telemetry!GiveUp, Telemetry!Failure

\* The meter answers with intervals of the window; with all of them when it is asked
\* without a cursor and gives none.
LEMMA TelemetryPull ==
    ASSUME TelemetryAssumption, TelemetryInv, NEW h \in Handlers, Telemetry!Pull(h)
    PROVE  TelemetryInv'
<1>1. PICK d : d = sync[h]
  OBVIOUS
<1>2. SyncHolds(d)
  BY <1>1 DEF Telemetry!Pull, TelemetryInv, SyncsOK
<1>3. PICK W : W = Telemetry!InWindow(h)
  OBVIOUS
<1>4. /\ W \subseteq Intervals /\ IsFiniteSet(W)
      /\ \A i \in Intervals : Within(i, d) => i \in W
      /\ \A i \in W : i.timestamp \in Telemetry!Timestamps
  <2>1. W = {i \in Intervals : d.start <= i.timestamp /\ i.timestamp < d.end}
    BY <1>1, <1>3 DEF Telemetry!InWindow
  <2>2. IsFiniteSet(W)
    BY <2>1, FS_Subset DEF TelemetryAssumption
  <2>3. \A i \in W : i.timestamp \in Telemetry!Timestamps
    BY <1>2, <2>1 DEF SyncHolds, TelemetryAssumption, Telemetry!Timestamps
  <2> QED
    BY <2>1, <2>2, <2>3 DEF Within
<1>5. PICK answer \in Telemetry!MeterAnswers(h) :
         sync' = [sync EXCEPT ![h].events = answer.events, ![h].cursor = answer.next,
                              ![h].whole = sync[h].cursor = None /\ answer.next = None,
                              ![h].pc = IF answer.events = <<>> THEN "commit" ELSE "raw"]
  BY Zenon DEF Telemetry!Pull
<1>6. PICK events, next : events = answer.events /\ next = answer.next
  OBVIOUS
<1>7. \/ events \in Telemetry!Orders(W) /\ next = None /\ d.cursor = None
      \/ /\ \E i \in W : events = <<i>>
         /\ d.cursor = None => next # None
  BY <1>1, <1>3, <1>5, <1>6 DEF Telemetry!MeterAnswers, TelemetryAssumption
<1>8. /\ events \in Seq(W)
      /\ d.cursor = None /\ next = None => \A i \in W : Among(i, events)
  <2>1. CASE events \in Telemetry!Orders(W)
    BY <1>4, <2>1, AllAmong
  <2>2. CASE /\ \E i \in W : events = <<i>>
             /\ d.cursor = None => next # None
    BY <2>2
  <2> QED
    BY <1>7, <2>1, <2>2
<1>9. PICK whole, pc : /\ whole = (d.cursor = None /\ next = None)
                       /\ pc = IF events = <<>> THEN "commit" ELSE "raw"
  OBVIOUS
<1>10. PICK s : s = [start |-> d.start, end |-> d.end, cursor |-> next, whole |-> whole,
                     pc |-> pc, events |-> events]
  BY Zenon
<1>11. sync' = [sync EXCEPT ![h] = s]
  <2>1. [d EXCEPT !.events = events, !.cursor = next, !.whole = whole, !.pc = pc] = s
    <3>1. PICK a, b, c, w, q, f : d = [start |-> a, end |-> b, cursor |-> c, whole |-> w,
                                       pc |-> q, events |-> f]
      BY <1>2 DEF SyncHolds
    <3>2. s = [start |-> a, end |-> b, cursor |-> next, whole |-> whole, pc |-> pc,
               events |-> events]
      BY <1>10, <3>1
    <3>3. PICK d1 : d1 = [d EXCEPT !.events = events]
      BY Zenon
    <3>4. d1 = [start |-> a, end |-> b, cursor |-> c, whole |-> w, pc |-> q, events |-> events]
      BY <3>1, <3>3
    <3>5. PICK d2 : d2 = [d1 EXCEPT !.cursor = next]
      BY Zenon
    <3>6. d2 = [start |-> a, end |-> b, cursor |-> next, whole |-> w, pc |-> q, events |-> events]
      BY <3>4, <3>5
    <3>7. PICK d3 : d3 = [d2 EXCEPT !.whole = whole]
      BY Zenon
    <3>8. d3 = [start |-> a, end |-> b, cursor |-> next, whole |-> whole, pc |-> q,
                events |-> events]
      BY <3>6, <3>7
    <3>9. [d3 EXCEPT !.pc = pc] = s
      BY <3>2, <3>8
    <3> QED
      BY <3>3, <3>5, <3>7, <3>9
  <2>2. sync' = [sync EXCEPT ![h] = [d EXCEPT !.events = events, !.cursor = next,
                                              !.whole = whole, !.pc = pc]]
    <3>1. sync' = [sync EXCEPT ![h].events = events, ![h].cursor = next,
                               ![h].whole = whole, ![h].pc = pc]
      BY <1>1, <1>5, <1>6, <1>9
    <3>2. sync = [g \in Handlers |-> sync[g]]
      BY DEF TelemetryInv, StoresOK
    <3> QED
      BY <1>1, <3>1, <3>2, Zenon
  <2> QED
    BY <2>1, <2>2, Zenon
<1>12. SyncHolds(s)
  <2>1. /\ s.start = d.start /\ s.end = d.end /\ s.cursor = next /\ s.whole = whole /\ s.pc = pc
        /\ s.events = events
        /\ s = [start |-> s.start, end |-> s.end, cursor |-> s.cursor, whole |-> s.whole,
                pc |-> s.pc, events |-> s.events]
    BY <1>10
  <2>2. /\ events \in Seq(Intervals)
        /\ \A n \in 1 .. Len(events) : events[n].timestamp \in Telemetry!Timestamps
    BY <1>4, <1>8
  <2>3. /\ s.pc \in {"raw", "point"} => s.events # <<>>
        /\ s.pc = "commit" => s.events = <<>>
        /\ s.pc # "point"
    BY <1>9, <2>1
  <2>4. s.whole => \A i \in Intervals : Within(i, s) => Among(i, s.events)
    BY <1>4, <1>8, <1>9, <2>1, Zenon DEF Within
  <2> QED
    BY <1>2, <2>1, <2>2, <2>3, <2>4 DEF SyncHolds
<1> QED
  BY <1>11, <1>12, TelemetryHandlerStep, Zenon DEF Telemetry!Pull

\* A point that stays keeps its source; a new one comes from an event landed before.
LEMMA PointsStay ==
    ASSUME TelemetryAssumption, PointsOK, Grows,
           \A t \in Telemetry!Timestamps :
              \/ timeseries_points'[t] = timeseries_points[t]
              \/ \E e \in Intervals : /\ raw_events'[e.id] = e /\ e.timestamp = t
                                      /\ timeseries_points'[t] = Telemetry!Normalize(e)
    PROVE  PointsOK'
<1>1. \A i : /\ Telemetry!Normalize(i)' = Telemetry!Normalize(i)
             /\ Telemetry!Normalize(i).raw_event_id = i.id
  BY DEF Telemetry!Normalize, Telemetry!Factor
<1>2. Telemetry!Timestamps' = Telemetry!Timestamps
  BY DEF Telemetry!Timestamps
<1> SUFFICES ASSUME NEW t \in Telemetry!Timestamps, NEW p, p = timeseries_points'[t], p # None
             PROVE  \E source \in Intervals : /\ raw_events'[p.raw_event_id] = source
                                              /\ source.timestamp = t
                                              /\ Telemetry!Normalize(source) = p
  BY <1>1, <1>2 DEF PointsOK
<1>3. CASE p = timeseries_points[t]
  <2>1. PICK source \in Intervals : /\ raw_events[p.raw_event_id] = source
                                    /\ source.timestamp = t /\ Telemetry!Normalize(source) = p
    BY <1>3 DEF PointsOK
  <2>2. p.raw_event_id \in Telemetry!EventIds /\ source # None
    BY <1>1, <2>1 DEF Telemetry!EventIds, TelemetryAssumption
  <2> QED
    BY <2>1, <2>2 DEF Grows
<1>4. CASE p # timeseries_points[t]
  <2>1. PICK e \in Intervals : /\ raw_events'[e.id] = e /\ e.timestamp = t
                               /\ p = Telemetry!Normalize(e)
    BY <1>4
  <2> QED
    BY <1>1, <2>1
<1> QED
  BY <1>3, <1>4

\* The first event of a sync that has events.
LEMMA TelemetryHead ==
    ASSUME TelemetryAssumption, TelemetryInv, NEW h \in Handlers, NEW d, d = sync[h], d # None,
           d.pc \in {"raw", "point"}, NEW e, e = Head(d.events)
    PROVE  /\ SyncHolds(d) /\ d.events # <<>> /\ e \in Intervals /\ e # None
           /\ e.id \in Telemetry!EventIds /\ e.timestamp \in Telemetry!Timestamps
<1>1. SyncHolds(d)
  BY DEF TelemetryInv, SyncsOK
<1>2. d.events \in Seq(Intervals) /\ d.events # <<>>
  BY <1>1 DEF SyncHolds
<1>3. e \in Intervals /\ e = d.events[1] /\ 1 \in 1 .. Len(d.events)
  BY <1>2
<1> QED
  BY <1>1, <1>2, <1>3 DEF SyncHolds, Telemetry!EventIds, TelemetryAssumption

LEMMA TelemetryLandRaw ==
    ASSUME TelemetryAssumption, TelemetryInv, NEW h \in Handlers, Telemetry!LandRaw(h)
    PROVE  TelemetryInv'
<1>1. CASE Telemetry!Failure(h)
  BY <1>1, TelemetryEnds
<1>2. CASE ~Telemetry!Failure(h)
  <2>1. PICK d : d = sync[h]
    OBVIOUS
  <2>2. PICK e : e = Head(d.events)
    OBVIOUS
  <2>3. /\ SyncHolds(d) /\ d.events # <<>> /\ e \in Intervals /\ e # None
        /\ e.id \in Telemetry!EventIds /\ e.timestamp \in Telemetry!Timestamps
    BY <2>1, <2>2, TelemetryHead DEF Telemetry!LandRaw
  <2>4. /\ d.pc = "raw"
        /\ raw_events[e.id] \in {None, e}
        /\ raw_events' = [raw_events EXCEPT ![e.id] = e]
        /\ sync' = [sync EXCEPT ![h].pc = "point"]
        /\ UNCHANGED <<timeseries_points, offset, breaker, synced>>
    BY <1>2, <2>1, <2>2 DEF Telemetry!LandRaw
  <2>5. /\ raw_events'[e.id] = e
        /\ raw_events' = [id \in Telemetry!EventIds |-> raw_events'[id]]
        /\ Grows
    BY <2>3, <2>4 DEF TelemetryInv, StoresOK, Grows
  <2>6. PointsOK'
    BY <2>4, <2>5, PointsStay DEF TelemetryInv
  <2>7. PICK s : s = [d EXCEPT !.pc = "point"]
    BY Zenon
  <2>8. /\ s.start = d.start /\ s.end = d.end /\ s.cursor = d.cursor /\ s.whole = d.whole
        /\ s.pc = "point" /\ s.events = d.events
        /\ s = [start |-> s.start, end |-> s.end, cursor |-> s.cursor, whole |-> s.whole,
                pc |-> s.pc, events |-> s.events]
    <3>1. PICK a, b, c, w, q, f : d = [start |-> a, end |-> b, cursor |-> c, whole |-> w,
                                       pc |-> q, events |-> f]
      BY <2>3 DEF SyncHolds
    <3>2. s = [start |-> a, end |-> b, cursor |-> c, whole |-> w, pc |-> "point", events |-> f]
      BY <2>7, <3>1
    <3> QED
      BY <3>1, <3>2
  <2>9. SyncHolds(d)'
    BY <2>3, <2>5, SyncStays
  <2>10. SyncHolds(s)'
    <3>1. \A i : Within(i, s)' <=> Within(i, d)'
      BY <2>8 DEF Within
    <3> QED
      BY <2>2, <2>3, <2>4, <2>5, <2>8, <2>9, <3>1 DEF SyncHolds
  <2>11. sync' = [sync EXCEPT ![h] = s]
    BY <2>1, <2>4, <2>7 DEF TelemetryInv, StoresOK
  <2>12. /\ timeseries_points' = [t \in Telemetry!Timestamps |-> timeseries_points'[t]]
         /\ offset'.watermark \in Int \cup {None}
         /\ \A t \in synced' : t \in Int /\ t < MaxEnd
    BY <2>4 DEF TelemetryInv, StoresOK
  <2> QED
    BY <2>4, <2>5, <2>6, <2>10, <2>11, <2>12, TelemetryStep, Zenon
<1> QED
  BY <1>1, <1>2

\* What is among the events is the first of them or among the rest.
LEMMA AmongTail ==
    ASSUME NEW S, NEW f \in Seq(S), f # <<>>
    PROVE  /\ Tail(f) \in Seq(S)
           /\ \A n \in 1 .. Len(Tail(f)) : n + 1 \in 1 .. Len(f) /\ Tail(f)[n] = f[n + 1]
           /\ Len(f) = 1 <=> Tail(f) = <<>>
           /\ \A i : Among(i, f) => i = Head(f) \/ Among(i, Tail(f))
<1>1. /\ Tail(f) \in Seq(S) /\ Len(f) \in Nat \ {0} /\ Len(Tail(f)) = Len(f) - 1
      /\ \A n \in 1 .. Len(Tail(f)) : n + 1 \in 1 .. Len(f) /\ Tail(f)[n] = f[n + 1]
  OBVIOUS
<1>2. Len(f) = 1 <=> Tail(f) = <<>>
  <2>1. PICK g : g = Tail(f)
    BY Zenon
  <2>2. g \in Seq(S) /\ (Len(f) = 1 <=> Len(g) = 0)
    BY <1>1, <2>1
  <2>3. Len(g) = 0 <=> g = <<>>
    BY <2>2
  <2> QED
    BY <2>1, <2>2, <2>3
<1>3. ASSUME NEW i, Among(i, f) PROVE i = Head(f) \/ Among(i, Tail(f))
  <2>1. PICK n \in 1 .. Len(f) : f[n] = i
    BY <1>3 DEF Among
  <2>2. CASE n = 1
    BY <2>1, <2>2
  <2>3. CASE n # 1
    <3>1. n - 1 \in 1 .. Len(Tail(f)) /\ Tail(f)[n - 1] = f[n]
      BY <1>1, <2>3
    <3> QED
      BY <2>1, <3>1 DEF Among
  <2> QED
    BY <2>2, <2>3
<1> QED
  BY <1>1, <1>2, <1>3

LEMMA TelemetryStorePoint ==
    ASSUME TelemetryAssumption, TelemetryInv, NEW h \in Handlers, Telemetry!StorePoint(h)
    PROVE  TelemetryInv'
<1>1. CASE Telemetry!Failure(h)
  BY <1>1, TelemetryEnds
<1>2. CASE ~Telemetry!Failure(h)
  <2>1. PICK d : d = sync[h]
    OBVIOUS
  <2>2. PICK e : e = Head(d.events)
    OBVIOUS
  <2>3. /\ SyncHolds(d) /\ d.events # <<>> /\ e \in Intervals /\ e # None
        /\ e.id \in Telemetry!EventIds /\ e.timestamp \in Telemetry!Timestamps
    BY <2>1, <2>2, TelemetryHead DEF Telemetry!StorePoint
  <2>4. PICK p, stored, pc : /\ p = Telemetry!Normalize(e)
                             /\ stored = timeseries_points[e.timestamp]
                             /\ pc = IF Len(d.events) = 1 THEN "commit" ELSE "raw"
    OBVIOUS
  <2>5. /\ d.pc = "point"
        /\ stored = None \/ Telemetry!SamePoint(stored, p)
        /\ timeseries_points' = [timeseries_points EXCEPT ![e.timestamp] =
                                   IF stored = None THEN p ELSE timeseries_points[e.timestamp]]
        /\ sync' = [sync EXCEPT ![h].events = Tail(@), ![h].pc = pc]
        /\ UNCHANGED <<raw_events, offset, synced>>
    BY <1>2, <2>1, <2>2, <2>4, Zenon DEF Telemetry!StorePoint
  <2>6. raw_events'[e.id] = e
    BY <2>2, <2>3, <2>5 DEF SyncHolds
  <2>7. p # None
    BY <2>4 DEF Telemetry!Normalize, TelemetryAssumption
  <2>8. /\ timeseries_points' = [t \in Telemetry!Timestamps |-> timeseries_points'[t]]
        /\ \A t \in Telemetry!Timestamps : t # e.timestamp =>
              timeseries_points'[t] = timeseries_points[t]
        /\ timeseries_points'[e.timestamp] = IF stored = None THEN p ELSE stored
    BY <2>3, <2>4, <2>5 DEF TelemetryInv, StoresOK
  <2>9. Grows
    BY <2>4, <2>5, <2>8 DEF Grows
  <2>10. PointsOK'
    BY <2>3, <2>4, <2>6, <2>8, <2>9, PointsStay DEF TelemetryInv
  <2>11. Done(e)'
    <3>1. Telemetry!Normalize(e)' = p
      BY <2>4 DEF Telemetry!Normalize, Telemetry!Factor
    <3>2. PICK q : q = timeseries_points'[e.timestamp]
      OBVIOUS
    <3>3. q # None /\ q.value = p.value /\ q.unit = p.unit
      BY <2>5, <2>7, <2>8, <3>2 DEF Telemetry!SamePoint
    <3> QED
      BY <2>6, <3>1, <3>2, <3>3 DEF Done, Telemetry!SamePoint
  <2>12. PICK a, b, c, w, k, f : d = [start |-> a, end |-> b, cursor |-> c, whole |-> w,
                                      pc |-> k, events |-> f]
    BY <2>3 DEF SyncHolds
  <2>13. PICK rest : rest = Tail(f)
    BY Zenon
  <2>14. PICK s : s = [start |-> a, end |-> b, cursor |-> c, whole |-> w, pc |-> pc,
                       events |-> rest]
    BY Zenon
  <2>15. sync' = [sync EXCEPT ![h] = s]
    <3>1. PICK d1 : d1 = [d EXCEPT !.events = rest]
      BY Zenon
    <3>2. d1 = [start |-> a, end |-> b, cursor |-> c, whole |-> w, pc |-> k, events |-> rest]
      BY <2>12, <3>1
    <3>3. [d1 EXCEPT !.pc = pc] = s
      BY <2>14, <3>2
    <3>4. rest = Tail(d.events)
      BY <2>12, <2>13
    <3>5. sync = [g \in Handlers |-> sync[g]]
      BY DEF TelemetryInv, StoresOK
    <3>6. sync' = [sync EXCEPT ![h] = [[d EXCEPT !.events = Tail(d.events)] EXCEPT !.pc = pc]]
      BY <2>1, <2>5, <3>5, Zenon
    <3> QED
      BY <3>1, <3>3, <3>4, <3>6, Zenon
  <2>16. SyncHolds(s)'
    <3>1. /\ s.start = d.start /\ s.end = d.end /\ s.whole = d.whole
          /\ s.pc = pc /\ s.events = Tail(d.events)
          /\ s = [start |-> s.start, end |-> s.end, cursor |-> s.cursor, whole |-> s.whole,
                  pc |-> s.pc, events |-> s.events]
      BY <2>12, <2>13, <2>14
    <3>2. d.events \in Seq(Intervals)
      BY <2>3 DEF SyncHolds
    <3>3. /\ Tail(d.events) \in Seq(Intervals)
          /\ \A n \in 1 .. Len(Tail(d.events)) :
                n + 1 \in 1 .. Len(d.events) /\ Tail(d.events)[n] = d.events[n + 1]
          /\ Len(d.events) = 1 <=> Tail(d.events) = <<>>
          /\ \A i : Among(i, d.events) => i = e \/ Among(i, Tail(d.events))
      BY <2>2, <2>3, <3>2, AmongTail
    <3>4. SyncHolds(d)'
      BY <2>3, <2>9, SyncStays
    <3>5. \A n \in 1 .. Len(s.events) : s.events[n].timestamp \in Telemetry!Timestamps'
      BY <3>1, <3>3, <3>4 DEF SyncHolds
    <3>6. /\ s.pc \in {"raw", "point"} => s.events # <<>>
          /\ s.pc = "commit" => s.events = <<>>
          /\ s.pc # "point"
      BY <2>4, <3>1, <3>3
    <3>7. s.whole => \A i \in Intervals : Within(i, s)' => Done(i)' \/ Among(i, s.events)'
      <4>1. \A i : /\ Within(i, s)' <=> Within(i, d)'
                   /\ Among(i, s.events)' <=> Among(i, Tail(d.events))
                   /\ Among(i, d.events)' <=> Among(i, d.events)
        BY <3>1 DEF Within, Among
      <4>2. s.whole => \A i \in Intervals : Within(i, d)' => Done(i)' \/ Among(i, d.events)'
        BY <2>5, <3>1, <3>4 DEF SyncHolds
      <4> QED
        BY <2>11, <3>3, <4>1, <4>2, Zenon
    <3> QED
      BY <3>1, <3>3, <3>4, <3>5, <3>6, <3>7 DEF SyncHolds
  <2>17. /\ raw_events' = [id \in Telemetry!EventIds |-> raw_events'[id]]
         /\ offset'.watermark \in Int \cup {None}
         /\ \A t \in synced' : t \in Int /\ t < MaxEnd
    BY <2>5 DEF TelemetryInv, StoresOK
  <2> QED
    BY <2>5, <2>8, <2>9, <2>10, <2>16, <2>17, <2>15, TelemetryStep, Zenon
<1> QED
  BY <1>1, <1>2

\* A batch is committed when nothing of it is left.
LEMMA TelemetryCommit ==
    ASSUME TelemetryAssumption, TelemetryInv, NEW h \in Handlers, Telemetry!Commit(h)
    PROVE  TelemetryInv'
<1>1. PICK d : d = sync[h]
  OBVIOUS
<1>2. /\ d # None /\ d.pc = "commit"
      /\ offset' = [cursor |-> d.cursor, watermark |-> d.end]
      /\ synced' = IF d.whole THEN synced \cup (d.start .. d.end - 1) ELSE synced
      /\ sync' = [sync EXCEPT ![h] = None]
      /\ UNCHANGED <<raw_events, timeseries_points>>
  BY <1>1 DEF Telemetry!Commit, Telemetry!Committable
<1>3. SyncHolds(d)
  BY <1>1, <1>2 DEF TelemetryInv, SyncsOK
<1>4. Grows
  BY <1>2 DEF Grows
<1>5. PointsOK'
  BY <1>2, <1>4, PointsStay DEF TelemetryInv
<1>6. /\ raw_events' = [id \in Telemetry!EventIds |-> raw_events'[id]]
      /\ timeseries_points' = [t \in Telemetry!Timestamps |-> timeseries_points'[t]]
      /\ offset'.watermark \in Int \cup {None}
      /\ \A t \in synced' : t \in Int /\ t < MaxEnd
  BY <1>2, <1>3 DEF TelemetryInv, StoresOK, SyncHolds, TelemetryAssumption
<1>7. \A i \in Intervals : i.timestamp \in synced' => i.timestamp \in synced \/ Done(i)'
  <2> SUFFICES ASSUME NEW i \in Intervals, i.timestamp \in synced', i.timestamp \notin synced
               PROVE  Done(i)'
    OBVIOUS
  <2>1. d.whole /\ i.timestamp \in d.start .. d.end - 1
    BY <1>2
  <2>2. Within(i, d) /\ i.timestamp \in Telemetry!Timestamps
    BY <1>3, <2>1 DEF Within, SyncHolds, TelemetryAssumption, Telemetry!Timestamps
  <2>3. Len(d.events) = 0
    BY <1>2, <1>3 DEF SyncHolds
  <2>4. ~Among(i, d.events)
    BY <2>3 DEF Among
  <2>5. Done(i)
    BY <1>2, <1>3, <2>1, <2>2, <2>4 DEF SyncHolds
  <2> QED
    BY <1>4, <2>2, <2>5, DoneStays
<1> QED
  BY <1>2, <1>4, <1>5, <1>6, <1>7, TelemetryStep, Zenon

LEMMA TelemetryNext ==
    ASSUME TelemetryAssumption, TelemetryInv, [Telemetry!Next]_Telemetry!vars
    PROVE  TelemetryInv'
<1>1. ASSUME NEW h \in Handlers, Telemetry!SyncConnector(h) PROVE TelemetryInv'
  <2>1. ASSUME NEW given \in Starts \cup {None}, NEW end \in 1 .. MaxEnd,
               Telemetry!Begin(h, given, end)
        PROVE  TelemetryInv'
    BY <2>1, TelemetryBegin
  <2>2. CASE Telemetry!Pull(h)
    BY <2>2, TelemetryPull
  <2>3. CASE Telemetry!LandRaw(h)
    BY <2>3, TelemetryLandRaw
  <2>4. CASE Telemetry!StorePoint(h)
    BY <2>4, TelemetryStorePoint
  <2>5. CASE Telemetry!AppendFails(h)
    BY <2>5, TelemetryEnds DEF Telemetry!AppendFails
  <2>6. CASE Telemetry!Commit(h)
    BY <2>6, TelemetryCommit
  <2>7. CASE Telemetry!GiveUp(h)
    BY <2>7, TelemetryEnds
  <2> QED
    BY <1>1, <2>1, <2>2, <2>3, <2>4, <2>5, <2>6, <2>7 DEF Telemetry!SyncConnector
<1>2. ASSUME UNCHANGED <<raw_events, timeseries_points, offset, sync, synced>>
      PROVE  TelemetryInv'
  <2>1. Grows
    BY <1>2 DEF Grows
  <2>2. PointsOK'
    BY <1>2, <2>1, PointsStay DEF TelemetryInv
  <2>3. \A s : SyncHolds(s) => SyncHolds(s)'
    BY <2>1, SyncStays
  <2>4. SyncsOK'
    BY <1>2, <2>3 DEF TelemetryInv, SyncsOK
  <2>5. \A i \in Intervals : i.timestamp \in synced => Done(i)'
    <3> SUFFICES ASSUME NEW i \in Intervals, i.timestamp \in synced PROVE Done(i)'
      OBVIOUS
    <3>1. Done(i) /\ i.timestamp \in Telemetry!Timestamps
      BY DEF TelemetryInv, StoresOK, TelemetryAssumption, Telemetry!Timestamps
    <3> QED
      BY <2>1, <3>1, DoneStays
  <2>6. StoresOK'
    BY <1>2, <2>5 DEF TelemetryInv, StoresOK, Telemetry!EventIds, Telemetry!Timestamps
  <2> QED
    BY <2>2, <2>4, <2>6 DEF TelemetryInv
<1>3. CASE Telemetry!Cool
  BY <1>2, <1>3 DEF Telemetry!Cool
<1>4. CASE UNCHANGED Telemetry!vars
  BY <1>2, <1>4 DEF Telemetry!vars
<1> QED
  BY <1>1, <1>3, <1>4 DEF Telemetry!Next

\* A committed window has no hole, for any meter, any number of syncs and any windows:
\* what the meter held in a window it answered whole is landed and has an equal point, and
\* every point comes from a landed event (sync_connector of apps/api/main.py, ingest of
\* apps/worker/ingestion.py, RawLanding.append, TimeSeriesStore.append).
THEOREM SyncedStored ==
    ASSUME TelemetryAssumption
    PROVE  Telemetry!Spec => []Telemetry!SyncedIsStored
<1>1. Telemetry!Init => TelemetryInv
  BY TelemetryInit
<1>2. TelemetryInv /\ [Telemetry!Next]_Telemetry!vars => TelemetryInv'
  BY TelemetryNext
<1>3. TelemetryInv => Telemetry!SyncedIsStored
  <2> SUFFICES ASSUME TelemetryInv PROVE Telemetry!SyncedIsStored
    OBVIOUS
  <2>1. \A i \in Intervals : i.timestamp \in synced => Done(i)
    BY DEF TelemetryInv, StoresOK
  <2>2. ASSUME NEW t \in Telemetry!Timestamps, NEW p, p = timeseries_points[t], p # None,
               NEW source, source = raw_events[p.raw_event_id]
        PROVE  source # None /\ source.timestamp = t /\ Telemetry!Normalize(source) = p
    BY <2>2 DEF TelemetryInv, PointsOK, TelemetryAssumption
  <2> QED
    BY <2>1, <2>2 DEF Done, Telemetry!SyncedIsStored
<1> QED
  BY <1>1, <1>2, <1>3, PTL DEF Telemetry!Spec
=============================================================================
