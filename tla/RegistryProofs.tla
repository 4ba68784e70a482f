--------------------------- MODULE RegistryProofs ---------------------------
(***************************************************************************)
(* Proofs about the tables that every API process writes through a         *)
(* connection of its own and that an advisory lock, a row lock or a        *)
(* primary key keeps consistent: the audit chain, the policies, the model  *)
(* registry and the topologies.  Each component has its own variables and  *)
(* its own inductive invariant.                                            *)
(***************************************************************************)
EXTENDS Integers, Sequences, TLAPS, WellFoundedInduction

CONSTANTS Connections, None

(***************************************************************************)
(* The audit chain.                                                        *)
(***************************************************************************)
CONSTANTS Tenants, MaxRecords
VARIABLES audit_records, appending

Audit == INSTANCE AuditChain

AuditRecords == [previous_hash : Nat, record_hash : Nat]
AuditAppends == [tenant : Tenants, previous : Nat]

\* An append that is under way has the lock of its tenant to itself, so the hash it read
\* is still the last one when it inserts: this is what makes the chain inductive.
AuditInv ==
    /\ audit_records \in [Tenants -> Seq(AuditRecords)]
    /\ appending \in [Connections -> AuditAppends \cup {None}]
    /\ \A c \in Connections, t \in Tenants :
          appending[c] # None /\ appending[c].tenant = t =>
             appending[c].previous = Audit!LastHash(t)
    /\ \A c, d \in Connections :
          appending[c] # None /\ appending[d] # None /\ appending[c].tenant = appending[d].tenant
            => c = d
    /\ Audit!ChainVerifies

\* Nothing is recorded and nobody appends.
LEMMA AuditInit == Audit!Init => AuditInv
BY DEF Audit!Init, AuditInv, Audit!ChainVerifies, Audit!VerifyTenant

\* ReadLast takes the lock of a tenant nobody else appends for and reads its last hash.
LEMMA AuditReadStep ==
    ASSUME AuditInv, NEW c \in Connections, NEW t \in Tenants, Audit!ReadLast(c, t)
    PROVE  AuditInv'
<1> DEFINE open == [tenant |-> t, previous |-> Audit!LastHash(t)]
<1>1. Audit!LastHash(t) \in Nat
  <2>1. CASE audit_records[t] = <<>>
    BY <2>1 DEF Audit!LastHash, Audit!GENESIS
  <2>2. CASE audit_records[t] # <<>>
    <3>1. audit_records[t] \in Seq(AuditRecords) /\ Len(audit_records[t]) \in 1 .. Len(audit_records[t])
      BY <2>2 DEF AuditInv
    <3>2. audit_records[t][Len(audit_records[t])] \in AuditRecords
      BY <3>1
    <3> QED
      BY <2>2, <3>2 DEF Audit!LastHash, AuditRecords
  <2> QED
    BY <2>1, <2>2
<1>2. /\ appending' \in [Connections -> AuditAppends \cup {None}]
      /\ appending'[c] = open /\ \A d \in Connections \ {c} : appending'[d] = appending[d]
      /\ audit_records' = audit_records
  BY <1>1 DEF AuditInv, Audit!ReadLast, AuditAppends
<1>3. \A d \in Connections : appending[d] # None => appending[d].tenant # t
  BY DEF Audit!ReadLast, Audit!Locked
<1>4. \A d \in Connections, u \in Tenants :
         appending'[d] # None /\ appending'[d].tenant = u =>
            appending'[d].previous = Audit!LastHash(u)'
  BY <1>2 DEF AuditInv, Audit!LastHash
<1>5. \A d, e \in Connections :
         appending'[d] # None /\ appending'[e] # None /\ appending'[d].tenant = appending'[e].tenant
            => d = e
  BY <1>2, <1>3 DEF AuditInv
<1>6. Audit!ChainVerifies'
  BY <1>2 DEF AuditInv, Audit!ChainVerifies, Audit!VerifyTenant
<1> QED
  BY <1>2, <1>4, <1>5, <1>6 DEF AuditInv

\* Insert extends the chain of the tenant it holds the lock of by a record that names the
\* last hash; the appends of other tenants see nothing of it.
LEMMA AuditInsertStep ==
    ASSUME AuditInv, NEW c \in Connections, Audit!Insert(c)
    PROVE  AuditInv'
<1> PICK t : t = appending[c].tenant
  OBVIOUS
<1> PICK old : old = audit_records[t]
  OBVIOUS
<1> PICK record : record = [previous_hash |-> appending[c].previous, record_hash |-> Len(old) + 1]
  BY Zenon
<1>1. /\ t \in Tenants /\ old \in Seq(AuditRecords) /\ record \in AuditRecords
      /\ record.previous_hash = Audit!LastHash(t)
  BY DEF AuditInv, Audit!Insert, AuditAppends, AuditRecords
<1>2. /\ audit_records' \in [Tenants -> Seq(AuditRecords)]
      /\ audit_records'[t] = Append(old, record)
      /\ \A u \in Tenants \ {t} : audit_records'[u] = audit_records[u]
  BY <1>1 DEF AuditInv, Audit!Insert
<1>3. /\ appending' \in [Connections -> AuditAppends \cup {None}]
      /\ appending'[c] = None /\ \A d \in Connections \ {c} : appending'[d] = appending[d]
  BY DEF AuditInv, Audit!Insert
<1>4. \A d \in Connections \ {c} : appending[d] # None => appending[d].tenant \in Tenants \ {t}
  BY DEF AuditInv, AuditAppends, Audit!Insert
<1>5. \A d \in Connections, u \in Tenants :
         appending'[d] # None /\ appending'[d].tenant = u =>
            appending'[d].previous = Audit!LastHash(u)'
  <2>1. \A u \in Tenants \ {t} : Audit!LastHash(u)' = Audit!LastHash(u)
    BY <1>2 DEF Audit!LastHash
  <2> QED
    BY <1>3, <1>4, <2>1 DEF AuditInv
<1>6. \A d, e \in Connections :
         appending'[d] # None /\ appending'[e] # None /\ appending'[d].tenant = appending'[e].tenant
            => d = e
  BY <1>3 DEF AuditInv
<1>7. Audit!VerifyTenant(t)'
  <2> PICK chain : chain = Append(old, record)
    BY Zenon
  <2>1. DOMAIN chain = 1 .. Len(old) + 1 /\ audit_records'[t] = chain
    BY <1>1, <1>2
  <2>2. \A j \in 1 .. Len(old) : chain[j] = old[j]
    BY <1>1
  <2> SUFFICES ASSUME NEW i \in 1 .. Len(old) + 1
               PROVE  chain[i].previous_hash = (IF i = 1 THEN 0 ELSE chain[i - 1].record_hash)
    BY <2>1, Zenon DEF Audit!VerifyTenant, Audit!GENESIS
  <2>3. CASE i \in 1 .. Len(old)
    <3>1. old[i].previous_hash = (IF i = 1 THEN 0 ELSE old[i - 1].record_hash)
      BY <1>1, <2>3 DEF AuditInv, Audit!ChainVerifies, Audit!VerifyTenant, Audit!GENESIS
    <3> QED
      BY <1>1, <2>2, <2>3, <3>1
  <2>4. CASE i = Len(old) + 1
    <3>1. chain[i] = record
      BY <1>1, <2>4
    <3>2. CASE old = <<>>
      BY <1>1, <2>4, <3>1, <3>2 DEF Audit!LastHash, Audit!GENESIS
    <3>3. CASE old # <<>>
      <4>1. Len(old) \in 1 .. Len(old) /\ i # 1 /\ i - 1 = Len(old)
        BY <1>1, <2>4, <3>3
      <4>2. record.previous_hash = old[Len(old)].record_hash
        BY <1>1, <3>3 DEF Audit!LastHash
      <4> QED
        BY <2>2, <3>1, <4>1, <4>2
    <3> QED
      BY <3>2, <3>3
  <2> QED
    BY <1>1, <2>3, <2>4
<1>8. Audit!ChainVerifies'
  <2>1. \A u \in Tenants \ {t} : Audit!VerifyTenant(u)'
    BY <1>2 DEF AuditInv, Audit!ChainVerifies, Audit!VerifyTenant
  <2> QED
    BY <1>7, <2>1 DEF Audit!ChainVerifies
<1> QED
  BY <1>2, <1>3, <1>5, <1>6, <1>8 DEF AuditInv

\* Abort gives up the lock and leaves the log as it is.
LEMMA AuditAbortStep ==
    ASSUME AuditInv, NEW c \in Connections, Audit!Abort(c)
    PROVE  AuditInv'
<1>1. /\ appending' \in [Connections -> AuditAppends \cup {None}]
      /\ appending'[c] = None /\ \A d \in Connections \ {c} : appending'[d] = appending[d]
      /\ audit_records' = audit_records
  BY DEF AuditInv, Audit!Abort
<1>2. Audit!ChainVerifies'
  BY <1>1 DEF AuditInv, Audit!ChainVerifies, Audit!VerifyTenant
<1>3. \A d \in Connections, u \in Tenants :
         appending'[d] # None /\ appending'[d].tenant = u =>
            appending'[d].previous = Audit!LastHash(u)'
  BY <1>1 DEF AuditInv, Audit!LastHash
<1> QED
  BY <1>1, <1>2, <1>3 DEF AuditInv

\* AuditLog.append and verify_tenant: however the appends of several processes interleave
\* or break off, the hash chain of every tenant verifies.
THEOREM AuditChainVerifies == Audit!Spec => []Audit!ChainVerifies
<1>1. AuditInv /\ [Audit!Next]_Audit!vars => AuditInv'
  <2> SUFFICES ASSUME AuditInv, [Audit!Next]_Audit!vars PROVE AuditInv'
    OBVIOUS
  <2>1. CASE Audit!Next
    BY <2>1, AuditReadStep, AuditInsertStep, AuditAbortStep DEF Audit!Next
  <2>2. CASE UNCHANGED Audit!vars
    <3>1. Audit!ChainVerifies'
      BY <2>2 DEF AuditInv, Audit!vars, Audit!ChainVerifies, Audit!VerifyTenant
    <3> QED
      BY <2>2, <3>1 DEF AuditInv, Audit!vars, Audit!LastHash
  <2> QED
    BY <2>1, <2>2
<1>2. AuditInv => Audit!ChainVerifies
  BY DEF AuditInv
<1> QED
  BY AuditInit, <1>1, <1>2, PTL DEF Audit!Spec

(***************************************************************************)
(* The policies.                                                           *)
(***************************************************************************)
CONSTANTS Policies, Sites, Values, RoleSets
VARIABLES policy_versions, publishing

Policy == INSTANCE PolicyEngine

\* The lock of the tenant admits one publication at a time, so the policy that was
\* validated is still in conflict with no row when it is inserted.
PolicyInv ==
    /\ Policy!TypeOK
    /\ \A p, q \in policy_versions : ~Policy!Conflicts(p, q)
    /\ \A c, d \in Connections : publishing[c] # None /\ publishing[d] # None => c = d
    /\ \A c \in Connections, q \in policy_versions :
          publishing[c] # None => ~Policy!Conflicts(publishing[c], q)

\* Two policies conflict whichever of them is looked at first, and none with itself.
LEMMA ConflictsSymmetric ==
    ASSUME NEW p, NEW q
    PROVE  /\ Policy!Conflicts(p, q) => Policy!Conflicts(q, p)
           /\ ~Policy!Conflicts(p, p)
BY DEF Policy!Conflicts

\* publish: the policies in force never conflict, each id and version is published once,
\* and the transaction that is under way holds a policy that may join them.
LEMMA PolicyNext == PolicyInv /\ [Policy!Next]_Policy!vars => PolicyInv'
<1> SUFFICES ASSUME PolicyInv, [Policy!Next]_Policy!vars PROVE PolicyInv'
  OBVIOUS
<1> USE DEF PolicyInv, Policy!TypeOK
<1>1. ASSUME NEW c \in Connections, NEW p \in Policies, NEW roles \in RoleSets,
             Policy!Validate(c, p, roles)
      PROVE  PolicyInv'
  <2>1. /\ publishing' \in [Connections -> Policies \cup {None}]
        /\ publishing'[c] = p /\ \A d \in Connections \ {c} : publishing'[d] = None
        /\ policy_versions' = policy_versions
        /\ \A q \in policy_versions : ~Policy!Conflicts(p, q)
    BY <1>1 DEF Policy!Validate, Policy!Locked
  <2> QED
    BY <2>1
<1>2. ASSUME NEW c \in Connections, Policy!Insert(c)
      PROVE  PolicyInv'
  <2> PICK p : p = publishing[c]
    OBVIOUS
  <2>1. /\ publishing' \in [Connections -> Policies \cup {None}]
        /\ \A d \in Connections : publishing'[d] = None
        /\ p \in Policies /\ \A q \in policy_versions : ~Policy!Conflicts(p, q)
    BY <1>2 DEF Policy!Insert
  <2>2. CASE \E q \in policy_versions : q.id = p.id /\ q.version = p.version
    BY <1>2, <2>1, <2>2 DEF Policy!Insert
  <2>3. CASE ~ \E q \in policy_versions : q.id = p.id /\ q.version = p.version
    <3>1. policy_versions' = policy_versions \cup {p}
      BY <1>2, <2>3 DEF Policy!Insert
    <3>2. \A q \in policy_versions : ~Policy!Conflicts(q, p)
      BY <2>1, ConflictsSymmetric
    <3>3. \A q, r \in policy_versions \cup {p} : ~Policy!Conflicts(q, r)
      BY <2>1, <3>2, ConflictsSymmetric
    <3> QED
      BY <2>1, <2>3, <3>1, <3>3
  <2> QED
    BY <2>2, <2>3
<1>3. ASSUME NEW c \in Connections, Policy!Abort(c)
      PROVE  PolicyInv'
  <2>1. /\ publishing' \in [Connections -> Policies \cup {None}]
        /\ publishing'[c] = None /\ \A d \in Connections \ {c} : publishing'[d] = publishing[d]
        /\ policy_versions' = policy_versions
    BY <1>3 DEF Policy!Abort
  <2> QED
    BY <2>1
<1>4. CASE UNCHANGED Policy!vars
  BY <1>4 DEF Policy!vars
<1> QED
  BY <1>1, <1>2, <1>3, <1>4 DEF Policy!Next, Policy!PublishPolicy

\* _validate_against and publish: at one priority, the "eq" policies that name a site can be
\* satisfied together, also when conflicting ones are published at once.  Nothing is said of
\* policies of different priorities, which the code does not compare.  The value an "eq"
\* rule asks for is one a fact can have.
THEOREM EqualPrioritiesSatisfiable ==
    ASSUME \A p \in Policies : p.rule.operator = "eq" => p.rule.value \in Values
    PROVE  Policy!Spec => []Policy!EqualPrioritiesAgree
<1>1. Policy!Init => PolicyInv
  BY DEF Policy!Init, PolicyInv, Policy!TypeOK
<1>2. PolicyInv => Policy!EqualPrioritiesAgree
  <2> SUFFICES ASSUME PolicyInv, NEW site \in Sites,
                      NEW p \in policy_versions, p.sites # {}, site \in p.sites,
                      p.rule.operator = "eq"
               PROVE  \E v \in Values : \A q \in policy_versions :
                         /\ q.sites # {} /\ site \in q.sites /\ q.rule.operator = "eq"
                         /\ q.priority = p.priority /\ q.rule.field = p.rule.field
                         => Policy!EvaluateRule(q.rule, [f \in {q.rule.field} |-> v])
    BY Zenon DEF Policy!EqualPrioritiesAgree, Policy!Active
  <2>1. p.rule.value \in Values
    BY DEF PolicyInv, Policy!TypeOK
  <2>2. ASSUME NEW q \in policy_versions, site \in q.sites, q.rule.operator = "eq",
               q.priority = p.priority, q.rule.field = p.rule.field
        PROVE  Policy!EvaluateRule(q.rule, [f \in {q.rule.field} |-> p.rule.value])
    <3>1. p.rule.value = q.rule.value
      BY <2>2 DEF PolicyInv, Policy!Conflicts
    <3> QED
      BY <2>2, <3>1 DEF Policy!EvaluateRule
  <2> QED
    BY <2>1, <2>2, Zenon
<1> QED
  BY <1>1, PolicyNext, <1>2, PTL DEF Policy!Spec

(***************************************************************************)
(* The model registry.                                                     *)
(***************************************************************************)
CONSTANTS Versions, MaxChanges
VARIABLES model_versions, clock, changing, history

Models == INSTANCE ModelRegistry

ModelRows == [stage : {"registered", "production", "archived"}, updated_at : Nat]
ModelChanges == [kind : {"promote", "rollback"}, version : Versions \cup {None}, started : Nat]
ModelHistory == [version : Versions, started : Nat, kind : {"promote", "rollback"}]

ModelTypes ==
    /\ model_versions \in [Versions -> ModelRows \cup {None}]
    /\ clock \in Nat
    /\ changing \in [Connections -> ModelChanges \cup {None}]
    /\ \A c \in Connections :
          changing[c] # None /\ changing[c].kind = "promote" => changing[c].version \in Versions
    /\ history \in Seq(ModelHistory)

Production == Models!InStage("production")
Archived == Models!InStage("archived")

\* Change i is the last one that put v into production.
LastInProduction(v, i) ==
    /\ i \in DOMAIN history /\ history[i].version = v
    /\ \A j \in DOMAIN history : j > i => history[j].version # v

\* The stages mirror the history: production is the last version chosen, every earlier one
\* is archived, and what the row of an archived version says of its time is the start of
\* the change that followed its last time in production.
ModelInv ==
    /\ ModelTypes
    /\ Production = (IF history = <<>> THEN {} ELSE {history[Len(history)].version})
    /\ \A i \in DOMAIN history : history[i].version \in Production \cup Archived
    /\ \A v \in Archived : \E i \in DOMAIN history :
          /\ LastInProduction(v, i) /\ i < Len(history)
          /\ model_versions[v].updated_at = history[i + 1].started
    /\ Models!RollbackRestores

\* The registry starts empty.
LEMMA ModelInit == Models!Init => ModelInv
BY DEF Models!Init, ModelInv, ModelTypes, Production, Archived, Models!InStage,
       Models!RollbackRestores, LastInProduction

\* What promote and rollback write, version by version: the target is in production,
\* what was in production is archived, and the history is one change longer.
LEMMA MoveFacts ==
    ASSUME None \notin ModelRows, ModelInv, NEW c \in Connections, changing[c] # None,
           NEW target \in Versions, Models!Move(c, target),
           NEW at, at = changing[c].started
    PROVE  /\ ModelTypes'
           /\ at \in Nat
           /\ Production' = {target}
           /\ Archived' = (Archived \cup Production) \ {target}
           /\ \A v \in Production \ {target} : model_versions'[v].updated_at = at
           /\ \A v \in Archived \ {target} : model_versions'[v] = model_versions[v]
           /\ Len(history') = Len(history) + 1
           /\ \A i \in 1 .. Len(history) : history'[i] = history[i]
           /\ history'[Len(history) + 1] =
                 [version |-> target, started |-> at, kind |-> changing[c].kind]
<1> DEFINE entry == [version |-> target, started |-> at, kind |-> changing[c].kind]
           chosen == [stage |-> "production", updated_at |-> at]
           left == [stage |-> "archived", updated_at |-> at]
<1>1. at \in Nat /\ entry \in ModelHistory /\ chosen \in ModelRows /\ left \in ModelRows
  BY DEF ModelInv, ModelTypes, ModelChanges, ModelHistory, ModelRows
<1>2. /\ history' = Append(history, entry) /\ clock' = clock
      /\ changing' = [changing EXCEPT ![c] = None]
  BY DEF Models!Move
<1>3. model_versions' = [v \in Versions |->
         IF v = target THEN chosen ELSE IF v \in Production THEN left ELSE model_versions[v]]
  BY DEF Models!Move, Models!Promoted, Production
<1> HIDE DEF entry, chosen, left
<1>4. /\ model_versions' \in [Versions -> ModelRows \cup {None}]
      /\ model_versions'[target] = chosen
      /\ \A v \in Production \ {target} : v \in Versions /\ model_versions'[v] = left
      /\ \A v \in Versions \ (Production \cup {target}) : model_versions'[v] = model_versions[v]
  BY <1>1, <1>3 DEF ModelInv, ModelTypes, Production, Models!InStage
<1>5. ModelTypes'
  BY <1>1, <1>2, <1>4 DEF ModelInv, ModelTypes
<1>6. chosen # None /\ chosen.stage = "production" /\ left # None /\ left.stage = "archived"
      /\ left.updated_at = at
  BY <1>1 DEF chosen, left
<1>7. Production' = {target}
  BY <1>4, <1>6 DEF Production, Models!InStage
<1>8. Archived' = (Archived \cup Production) \ {target}
  BY <1>4, <1>6 DEF Production, Archived, Models!InStage
<1>9. \A v \in Archived \ {target} : model_versions'[v] = model_versions[v]
  BY <1>4 DEF Production, Archived, Models!InStage
<1>10. /\ Len(history') = Len(history) + 1
       /\ \A i \in 1 .. Len(history) : history'[i] = history[i]
       /\ history'[Len(history) + 1] = entry
  BY <1>1, <1>2 DEF ModelInv, ModelTypes
<1> QED
  BY <1>1, <1>4, <1>5, <1>6, <1>7, <1>8, <1>9, <1>10 DEF entry

\* A change of production keeps the stages in step with the history, and a rollback goes
\* to where the property says: the version archived last, by the start of the change that
\* archived it, is the last other version of the history when the starts are in order.
LEMMA MoveStep ==
    ASSUME None \notin ModelRows, ModelInv, NEW c \in Connections, changing[c] # None,
           NEW target \in Versions, Models!Move(c, target),
           changing[c].kind = "rollback" => target \in Models!RollbackTargets
    PROVE  ModelInv'
<1> PICK at : at = changing[c].started
  OBVIOUS
<1> PICK n : n = Len(history)
  BY Zenon
<1>1. /\ ModelTypes'
      /\ Production' = {target}
      /\ Archived' = (Archived \cup Production) \ {target}
      /\ \A v \in Production \ {target} : model_versions'[v].updated_at = at
      /\ \A v \in Archived \ {target} : model_versions'[v] = model_versions[v]
      /\ Len(history') = n + 1
      /\ \A i \in 1 .. n : history'[i] = history[i]
      /\ history'[n + 1] = [version |-> target, started |-> at, kind |-> changing[c].kind]
  BY MoveFacts
<1>2. /\ n \in Nat /\ DOMAIN history = 1 .. n /\ DOMAIN history' = 1 .. n + 1
      /\ history = <<>> <=> n = 0
      /\ history' # <<>>
  BY <1>1 DEF ModelInv, ModelTypes
<1>3. /\ history'[n + 1].version = target /\ history'[n + 1].started = at
      /\ history'[n + 1].kind = changing[c].kind
  BY <1>1
<1>4. Production' = {history'[Len(history')].version}
  BY <1>1, <1>3
<1>5. \A i \in DOMAIN history' : history'[i].version \in Production' \cup Archived'
  <2>1. \A i \in 1 .. n : history[i].version \in Production \cup Archived
    BY <1>2 DEF ModelInv
  <2>2. \A i \in 1 .. n + 1 : i \in 1 .. n \/ i = n + 1
    BY <1>2
  <2> QED
    BY <1>1, <1>2, <1>3, <2>1, <2>2
<1>6. ASSUME NEW v \in Archived'
      PROVE  \E i \in DOMAIN history' :
                /\ LastInProduction(v, i)' /\ i < Len(history')
                /\ model_versions'[v].updated_at = history'[i + 1].started
  <2>1. v # target
    BY <1>1
  <2>2. CASE v \in Production
    <3>1. n > 0 /\ v = history[n].version
      BY <1>2, <2>2 DEF ModelInv
    <3>2. n \in 1 .. n + 1 /\ n < n + 1 /\ history'[n].version = v
      BY <1>1, <1>2, <3>1
    <3>3. \A j \in 1 .. n + 1 : j > n => history'[j].version # v
      BY <1>2, <1>3, <2>1
    <3>4. LastInProduction(v, n)'
      BY <1>2, <3>2, <3>3 DEF LastInProduction
    <3> QED
      BY <1>1, <1>2, <1>3, <2>1, <2>2, <3>2, <3>4
  <2>3. CASE v \in Archived
    <3>1. PICK i \in 1 .. n : /\ LastInProduction(v, i) /\ i < n
                             /\ model_versions[v].updated_at = history[i + 1].started
      BY <1>2, <2>3 DEF ModelInv
    <3>2. history'[i].version = v /\ i \in 1 .. n + 1 /\ i < n + 1
          /\ history'[i + 1] = history[i + 1]
      BY <1>1, <1>2, <3>1 DEF LastInProduction
    <3>3. \A j \in 1 .. n + 1 : j > i => history'[j].version # v
      <4>1. \A j \in 1 .. n : j > i => history[j].version # v
        BY <1>2, <3>1 DEF LastInProduction
      <4>2. \A j \in 1 .. n : j > i => history'[j].version # v
        BY <1>1, <4>1
      <4>3. \A j \in 1 .. n + 1 : j \in 1 .. n \/ j = n + 1
        BY <1>2
      <4> QED
        BY <1>3, <2>1, <4>2, <4>3
    <3>4. LastInProduction(v, i)'
      BY <1>2, <3>2, <3>3 DEF LastInProduction
    <3>5. model_versions'[v] = model_versions[v]
      BY <1>1, <2>1, <2>3
    <3> QED
      BY <1>1, <1>2, <3>1, <3>2, <3>4, <3>5
  <2> QED
    BY <1>1, <2>2, <2>3
<1>7. ASSUME NEW m \in 1 .. n + 1, history'[m].kind = "rollback"
      PROVE  /\ \E i \in Models!Earlier(m)' : history'[m].version = history'[i].version
             /\ Models!StartOrderHeld(m)' =>
                  \E i \in Models!Earlier(m)' : /\ history'[i].version = history'[m].version
                                               /\ \A j \in Models!Earlier(m)' : j <= i
  <2>1. CASE m \in 1 .. n
    <3>1. \A i \in 1 .. m : history'[i] = history[i]
      BY <1>1, <1>2, <2>1
    <3>2. Models!Earlier(m)' = Models!Earlier(m)
      <4>1. ASSUME NEW i \in 1 .. m - 1
            PROVE  history'[i] = history[i] /\ history'[m - 1] = history[m - 1]
        BY <1>2, <2>1, <3>1
      <4> QED
        BY <4>1 DEF Models!Earlier
    <3>3. Models!StartOrderHeld(m)' = Models!StartOrderHeld(m)
      BY <3>1 DEF Models!StartOrderHeld
    <3>4. /\ \E i \in Models!Earlier(m) : history[m].version = history[i].version
          /\ Models!StartOrderHeld(m) =>
               \E i \in Models!Earlier(m) : /\ history[i].version = history[m].version
                                            /\ \A j \in Models!Earlier(m) : j <= i
      BY <1>2, <1>7, <2>1, <3>1 DEF ModelInv, Models!RollbackRestores
    <3>5. \A i \in Models!Earlier(m) : i \in 1 .. m
      BY <1>2, <2>1 DEF Models!Earlier
    <3> QED
      BY <1>2, <2>1, <3>1, <3>2, <3>3, <3>4, <3>5
  <2>2. CASE m = n + 1
    <3>1. /\ target \in Archived
          /\ \A u \in Archived : model_versions[u].updated_at <= model_versions[target].updated_at
      BY <1>3, <1>7, <2>2 DEF Models!RollbackTargets, Archived
    <3>2. PICK i \in 1 .. n : /\ LastInProduction(target, i) /\ i < n
                             /\ model_versions[target].updated_at = history[i + 1].started
      BY <1>2, <3>1 DEF ModelInv
    <3>3. Models!Earlier(m)' = {j \in 1 .. n : history[j].version # history[n].version}
      <4>1. m - 1 = n
        BY <1>2, <2>2
      <4>2. n \in 1 .. n
        BY <1>2, <3>2
      <4> QED
        BY <1>1, <4>1, <4>2 DEF Models!Earlier
    <3>4. history[n].version # target /\ history[i].version = target /\ history'[i].version = target
      BY <1>1, <1>2, <3>2 DEF LastInProduction
    <3>5. i \in Models!Earlier(m)' /\ history'[m].version = target
      BY <1>3, <2>2, <3>3, <3>4
    <3>6. ASSUME Models!StartOrderHeld(m)', NEW j \in 1 .. n,
                 history[j].version # history[n].version
          PROVE  j <= i
      <4>1. SUFFICES ASSUME j > i PROVE FALSE
        BY <1>2
      <4>2. history[j].version \in Archived
        BY <1>2, <3>6 DEF ModelInv
      <4>3. PICK k \in 1 .. n : /\ LastInProduction(history[j].version, k) /\ k < n
                               /\ model_versions[history[j].version].updated_at = history[k + 1].started
        BY <1>2, <4>2 DEF ModelInv
      <4>4. k >= j
        BY <1>2, <4>3 DEF LastInProduction
      <4>5. history[i + 1].started < history[k + 1].started
        <5>1. i + 1 \in 1 .. n /\ k + 1 \in 1 .. n /\ i + 1 < k + 1
          BY <1>2, <3>2, <4>1, <4>3, <4>4
        <5>2. history'[i + 1].started < history'[k + 1].started
          BY <1>2, <2>2, <3>6, <5>1 DEF Models!StartOrderHeld
        <5> QED
          BY <1>1, <5>1, <5>2
      <4>6. history[k + 1].started <= history[i + 1].started
        BY <3>1, <3>2, <4>2, <4>3
      <4>7. history[i + 1] \in ModelHistory /\ history[k + 1] \in ModelHistory
        BY <1>2, <3>2, <4>3 DEF ModelInv, ModelTypes
      <4> QED
        BY <4>5, <4>6, <4>7 DEF ModelHistory
    <3> QED
      BY <3>3, <3>4, <3>5, <3>6
  <2> QED
    BY <1>2, <2>1, <2>2
<1>8. Models!RollbackRestores'
  BY <1>1, <1>2, <1>4, <1>7 DEF Models!RollbackRestores, Production
<1> QED
  BY <1>1, <1>2, <1>4, <1>5, <1>6, <1>8 DEF ModelInv

\* Steps that leave history and the rows in use alone keep the invariant.
LEMMA ModelSideStep ==
    ASSUME ModelInv, ModelTypes', UNCHANGED history,
           Production' = Production, Archived' = Archived,
           \A v \in Archived : model_versions'[v] = model_versions[v]
    PROVE  ModelInv'
<1>1. Models!RollbackRestores'
  BY DEF ModelInv, Production, Models!RollbackRestores, Models!Earlier, Models!StartOrderHeld
<1>2. \A v \in Archived : \E i \in DOMAIN history :
          /\ LastInProduction(v, i)' /\ i < Len(history)
          /\ model_versions'[v].updated_at = history[i + 1].started
  <2>1. \A v, i : LastInProduction(v, i)' = LastInProduction(v, i)
    BY DEF LastInProduction
  <2> QED
    BY <2>1 DEF ModelInv
<1> QED
  BY <1>1, <1>2 DEF ModelInv

\* Every step of the registry keeps the stages in step with the history.
LEMMA ModelNext ==
    ASSUME None \notin ModelRows
    PROVE  ModelInv /\ [Models!Next]_Models!vars => ModelInv'
<1> SUFFICES ASSUME ModelInv, [Models!Next]_Models!vars PROVE ModelInv'
  OBVIOUS
<1>1. ASSUME NEW v \in Versions, Models!Register(v) PROVE ModelInv'
  <2> DEFINE row == [stage |-> "registered", updated_at |-> clock]
  <2>1. row \in ModelRows /\ row # None /\ row.stage = "registered"
    BY DEF ModelInv, ModelTypes, ModelRows
  <2> HIDE DEF row
  <2>2. /\ model_versions' \in [Versions -> ModelRows \cup {None}]
        /\ model_versions[v] = None /\ model_versions'[v] = row
        /\ \A u \in Versions \ {v} : model_versions'[u] = model_versions[u]
        /\ UNCHANGED <<clock, changing, history>>
    BY <1>1, <2>1 DEF ModelInv, ModelTypes, Models!Register, row
  <2>3. Production' = Production /\ Archived' = Archived
    BY <2>1, <2>2 DEF Production, Archived, Models!InStage
  <2>4. \A u \in Archived : model_versions'[u] = model_versions[u]
    BY <2>2 DEF Archived, Models!InStage
  <2> QED
    BY <2>2, <2>3, <2>4, ModelSideStep DEF ModelInv, ModelTypes
<1>2. ASSUME NEW c \in Connections, NEW kind \in {"promote", "rollback"},
             NEW v \in Versions \cup {None}, Models!Begin(c, kind, v),
             kind = "promote" => v \in Versions
      PROVE  ModelInv'
  <2>1. clock' \in Nat /\ [kind |-> kind, version |-> v, started |-> clock'] \in ModelChanges
    BY <1>2 DEF ModelInv, ModelTypes, Models!Begin, ModelChanges
  <2>2. ModelTypes' /\ UNCHANGED <<model_versions, history>>
    BY <1>2, <2>1 DEF ModelInv, ModelTypes, Models!Begin
  <2> QED
    BY <2>2, ModelSideStep DEF Production, Archived, Models!InStage
<1>3. ASSUME NEW c \in Connections, Models!Promote(c) PROVE ModelInv'
  <2>1. changing[c].version \in Versions
    BY <1>3 DEF ModelInv, ModelTypes, Models!Promote
  <2> QED
    BY <1>3, <2>1, MoveStep DEF Models!Promote
<1>4. ASSUME NEW c \in Connections, Models!Rollback(c) PROVE ModelInv'
  BY <1>4, MoveStep DEF Models!Rollback, Models!RollbackTargets, Models!InStage
<1>5. ASSUME NEW c \in Connections, Models!Abort(c) PROVE ModelInv'
  <2>1. ModelTypes' /\ UNCHANGED <<model_versions, history>>
    BY <1>5 DEF ModelInv, ModelTypes, Models!Abort
  <2> QED
    BY <2>1, ModelSideStep DEF Production, Archived, Models!InStage
<1>6. CASE UNCHANGED Models!vars
  <2>1. ModelTypes' /\ UNCHANGED <<model_versions, history>>
    BY <1>6 DEF ModelInv, ModelTypes, Models!vars
  <2> QED
    BY <2>1, ModelSideStep DEF Production, Archived, Models!InStage
<1> QED
  BY <1>1, <1>2, <1>3, <1>4, <1>5, <1>6
     DEF Models!Next, Models!RegisterModel, Models!PromoteModel, Models!RollbackModel

\* promote and rollback: production is the last version chosen, and a rollback leaves it
\* for an earlier one: the one in production immediately before, when the changes took
\* the lock in the order they started.
THEOREM RollbackGoesBack ==
    ASSUME None \notin ModelRows
    PROVE  Models!Spec => []Models!RollbackRestores
<1>1. ModelInv => Models!RollbackRestores
  BY DEF ModelInv
<1> QED
  BY ModelInit, ModelNext, <1>1, PTL DEF Models!Spec

(***************************************************************************)
(* The topologies.  Until two first drafts have raced, the lock of the row *)
(* makes a revision name one draft; and Kahn's algorithm, a recursive      *)
(* function of the model, accepts only graphs without a cycle.             *)
(***************************************************************************)
CONSTANTS Graphs, InitialDrafts, MaxRevision, MaxPublished
VARIABLES topology_drafts, topology_versions, drafting, answers, raced

Topology == INSTANCE TopologyRegistry

\* A set of naturals has a least element.
LEMMA Least ==
    ASSUME NEW T, T \subseteq Nat, T # {}
    PROVE  \E m \in T : \A k \in T : m <= k
<1>1. PICK m \in T : \A k \in T : ~(<<k, m>> \in OpToRel(<, Nat))
  BY NatLessThanWellFounded, WFMin, Zenon
<1>2. \A k \in T : ~(k < m)
  BY <1>1, Zenon DEF OpToRel
<1> QED
  BY <1>2

\* The first n iterates of a function.
Iterates(p, n, b, F, D) ==
    p \in [0 .. n -> D] /\ p[0] = b /\ \A k \in 1 .. n : p[k] = F[p[k - 1]]

\* A function can be iterated: what a recursive definition over the naturals rests on.
LEMMA Iteration ==
    ASSUME NEW D, NEW b \in D, NEW F \in [D -> D]
    PROVE  \E f \in [Nat -> D] : f[0] = b /\ \A n \in Nat \ {0} : f[n] = F[f[n - 1]]
<1>1. \A n \in Nat : \E p : Iterates(p, n, b, F, D)
  <2> DEFINE T == {n \in Nat : ~\E p : Iterates(p, n, b, F, D)}
  <2> SUFFICES ASSUME T # {} PROVE FALSE
    OBVIOUS
  <2>1. PICK m \in T : \A k \in T : m <= k
    BY Least, Zenon
  <2>2. m # 0
    <3>1. Iterates([k \in 0 .. 0 |-> b], 0, b, F, D)
      BY DEF Iterates
    <3> QED
      BY <2>1, <3>1
  <2>3. m - 1 \in Nat /\ m - 1 \notin T
    BY <2>1, <2>2
  <2>4. PICK p : Iterates(p, m - 1, b, F, D)
    BY <2>3
  <2>5. PICK q : q = [k \in 0 .. m |-> IF k = m THEN F[p[m - 1]] ELSE p[k]]
    BY Zenon
  <2>6. Iterates(q, m, b, F, D)
    <3>1. m - 1 \in 0 .. m - 1 /\ p[m - 1] \in D
      BY <2>3, <2>4 DEF Iterates
    <3>2. F[p[m - 1]] \in D
      BY <3>1
    <3>3. \A k \in 0 .. m : q[k] = IF k = m THEN F[p[m - 1]] ELSE p[k]
      BY <2>5
    <3>4. \A k \in 0 .. m : k # m => k \in 0 .. m - 1
      BY <2>3
    <3>5. q \in [0 .. m -> D]
      BY <2>4, <2>5, <3>2, <3>4 DEF Iterates
    <3>6. q[0] = b
      BY <2>2, <2>3, <2>4, <3>3 DEF Iterates
    <3>7. \A k \in 1 .. m : q[k] = F[q[k - 1]]
      <4> SUFFICES ASSUME NEW k \in 1 .. m PROVE q[k] = F[q[k - 1]]
        OBVIOUS
      <4>1. k \in 0 .. m /\ k - 1 \in 0 .. m /\ k - 1 # m
        BY <2>3
      <4>2. q[k - 1] = p[k - 1]
        BY <3>3, <4>1
      <4>3. CASE k = m
        BY <3>3, <4>1, <4>2, <4>3
      <4>4. CASE k # m
        <5>1. k \in 1 .. m - 1
          BY <2>3, <4>4
        <5> QED
          BY <2>4, <3>3, <4>1, <4>2, <4>4, <5>1 DEF Iterates
      <4> QED
        BY <4>3, <4>4
    <3> QED
      BY <3>5, <3>6, <3>7 DEF Iterates
  <2> QED
    BY <2>1, <2>6
<1>2. ASSUME NEW n \in Nat, NEW m \in Nat, NEW p, NEW q, n <= m,
             Iterates(p, n, b, F, D), Iterates(q, m, b, F, D)
      PROVE  \A k \in 0 .. n : p[k] = q[k]
  <2> DEFINE T == {k \in 0 .. n : p[k] # q[k]}
  <2> SUFFICES ASSUME T # {} PROVE FALSE
    OBVIOUS
  <2>1. T \subseteq Nat
    BY <1>2
  <2>2. PICK k \in T : \A j \in T : k <= j
    BY <2>1, Least, Zenon
  <2>3. k # 0
    BY <1>2 DEF Iterates
  <2>4. k - 1 \in 0 .. n /\ k - 1 \notin T /\ k \in 1 .. n /\ k \in 1 .. m
    BY <1>2, <2>2, <2>3
  <2> QED
    BY <1>2, <2>2, <2>4 DEF Iterates
<1>3. PICK r : r = [n \in Nat |-> CHOOSE p : Iterates(p, n, b, F, D)]
  BY Zenon
<1>4. \A n \in Nat : Iterates(r[n], n, b, F, D)
  BY <1>1, <1>3
<1>5. PICK f : f = [n \in Nat |-> r[n][n]]
  BY Zenon
<1>6. f \in [Nat -> D]
  BY <1>4, <1>5 DEF Iterates
<1>7. f[0] = b
  BY <1>4, <1>5 DEF Iterates
<1>8. \A n \in Nat \ {0} : f[n] = F[f[n - 1]]
  <2> SUFFICES ASSUME NEW n \in Nat \ {0} PROVE f[n] = F[f[n - 1]]
    OBVIOUS
  <2>1. n - 1 \in Nat /\ n - 1 <= n /\ n - 1 \in 0 .. n - 1 /\ n \in 1 .. n
    OBVIOUS
  <2>2. r[n - 1][n - 1] = r[n][n - 1]
    BY <1>2, <1>4, <2>1
  <2>3. r[n][n] = F[r[n][n - 1]]
    BY <1>4, <2>1 DEF Iterates
  <2> QED
    BY <1>5, <2>1, <2>2, <2>3
<1> QED
  BY <1>6, <1>7, <1>8

Acyclic(g) ==
    \A S \in (SUBSET Topology!Ids(g)) \ {{}} :
       \E id \in S : \A e \in Topology!Edges(g) : e[2] = id => e[1] \notin S

\* The assets whose parents are all in V.
Ready(g, V) == {id \in Topology!Ids(g) : \A e \in Topology!Edges(g) : e[2] = id => e[1] \in V}

\* The recursive definition of the queue has the meaning it seems to have.
LEMMA VisitedSteps ==
    ASSUME NEW g
    PROVE  \E visit : /\ visit[0] = {}
                      /\ \A n \in Nat \ {0} : visit[n] = visit[n - 1] \cup Ready(g, visit[n - 1])
                      /\ Topology!Visited(g) = visit[Topology!Cardinality(Topology!Ids(g))]
<1> DEFINE Rec(v) == [n \in Nat |-> IF n = 0 THEN {} ELSE v[n - 1] \cup Ready(g, v[n - 1])]
<1>1. \E v : v = Rec(v)
  <2>1. PICK D : D = SUBSET Topology!Ids(g)
    BY Zenon
  <2>2. PICK F : F = [V \in D |-> V \cup Ready(g, V)]
    BY Zenon
  <2>3. F \in [D -> D] /\ {} \in D
    BY <2>1, <2>2 DEF Ready
  <2>4. PICK f \in [Nat -> D] : f[0] = {} /\ \A n \in Nat \ {0} : f[n] = F[f[n - 1]]
    BY <2>3, Iteration
  <2>5. \A n \in Nat \ {0} : f[n] = f[n - 1] \cup Ready(g, f[n - 1])
    <3> SUFFICES ASSUME NEW n \in Nat \ {0} PROVE f[n] = f[n - 1] \cup Ready(g, f[n - 1])
      OBVIOUS
    <3>1. n - 1 \in Nat
      OBVIOUS
    <3>2. f[n - 1] \in D
      BY <2>4, <3>1
    <3> QED
      BY <2>2, <2>4, <3>2
  <2>6. f = Rec(f)
    BY <2>4, <2>5
  <2> QED
    BY <2>6
<1>2. PICK visit : visit = CHOOSE v : v = Rec(v)
  OBVIOUS
<1>3. visit = Rec(visit)
  BY <1>1, <1>2, Zenon
<1>4. Topology!Visited(g) = visit[Topology!Cardinality(Topology!Ids(g))]
  BY <1>2 DEF Topology!Visited, Ready
<1> HIDE DEF Rec
<1>5. visit[0] = {} /\ \A n \in Nat \ {0} : visit[n] = visit[n - 1] \cup Ready(g, visit[n - 1])
  BY <1>3, Zenon DEF Rec
<1> QED
  BY <1>4, <1>5

\* Kahn's algorithm reaches every asset only of a graph without cycle.
LEMMA VisitedIsAcyclic ==
    ASSUME NEW g, Topology!Cardinality(Topology!Ids(g)) \in Nat,
           Topology!Visited(g) = Topology!Ids(g)
    PROVE  Acyclic(g)
<1> SUFFICES ASSUME NEW S \in (SUBSET Topology!Ids(g)) \ {{}}
             PROVE  \E id \in S : \A e \in Topology!Edges(g) : e[2] = id => e[1] \notin S
  BY Zenon DEF Acyclic
<1>1. PICK visit : /\ visit[0] = {}
                   /\ \A n \in Nat \ {0} : visit[n] = visit[n - 1] \cup Ready(g, visit[n - 1])
                   /\ Topology!Visited(g) = visit[Topology!Cardinality(Topology!Ids(g))]
  BY VisitedSteps
<1> DEFINE T == {n \in Nat : visit[n] \cap S # {}}
<1>2. T # {}
  <2>1. PICK n \in Nat : n = Topology!Cardinality(Topology!Ids(g))
    OBVIOUS
  <2>2. visit[n] = Topology!Ids(g)
    BY <1>1, <2>1
  <2>3. visit[n] \cap S = S
    BY <2>2
  <2>4. n \in T
    BY <2>3
  <2> QED
    BY <2>4
<1>3. PICK m \in T : \A k \in T : m <= k
  BY <1>2, Least, Zenon
<1>4. m \in Nat \ {0}
  BY <1>1, <1>3
<1>5. m - 1 \in Nat /\ m - 1 \notin T
  BY <1>3, <1>4
<1>6. PICK id : id \in visit[m] /\ id \in S
  BY <1>3
<1>7. visit[m - 1] \cap S = {}
  BY <1>5
<1>8. id \in Ready(g, visit[m - 1])
  BY <1>1, <1>4, <1>6, <1>7
<1> QED
  BY <1>6, <1>7, <1>8 DEF Ready

DraftRows == [revision : Nat, graph : Graphs]

\* A graph lists its assets; the stored draft is one, and None is none.
TopologyAssumption ==
    /\ \A g \in Graphs : \E A : g.assets \in Seq(A)
    /\ InitialDrafts \subseteq DraftRows \cup {None} /\ None \notin DraftRows

\* The draft is the last one a client was given, and until two first drafts have raced,
\* no other one of its revision was given out.
RowOK ==
    /\ answers \subseteq DraftRows
    /\ topology_drafts = None => answers = {}
    /\ topology_drafts # None => topology_drafts \in answers
    /\ ~raced => \A a \in answers : /\ a.revision <= topology_drafts.revision
                                    /\ a.revision = topology_drafts.revision => a = topology_drafts

\* A create_draft under way either holds the lock of the row, and the revision it read is
\* current, or found no row.
Drafts(d) ==
    /\ d.graph \in Graphs
    /\ d.locks => topology_drafts # None /\ d.revision = topology_drafts.revision + 1
    /\ ~d.locks => d.revision = 1

DraftingOK ==
    /\ drafting = [c \in Connections |-> drafting[c]]
    /\ \A c \in Connections : \A d : d = drafting[c] /\ d # None => Drafts(d)
    /\ \A c, d \in Connections :
          drafting[c] # None /\ drafting[c].locks /\ drafting[d] # None /\ drafting[d].locks => c = d

Published(v) == Acyclic(v.graph) /\ (~raced => v.graph = v.reviewed)

VersionsOK ==
    /\ \E V : topology_versions \in Seq(V)
    /\ \A i \in 1 .. Len(topology_versions) : \A v : v = topology_versions[i] => Published(v)

TopologyInv == RowOK /\ DraftingOK /\ VersionsOK

LEMMA TopologyInit ==
    ASSUME TopologyAssumption, Topology!Init
    PROVE  TopologyInv
<1>1. RowOK
  BY DEF Topology!Init, RowOK, TopologyAssumption, DraftRows
<1>2. DraftingOK
  BY DEF Topology!Init, DraftingOK
<1>3. VersionsOK
  BY DEF Topology!Init, VersionsOK
<1> QED
  BY <1>1, <1>2, <1>3 DEF TopologyInv

LEMMA ValidIsAcyclic ==
    ASSUME TopologyAssumption, NEW g \in Graphs, Topology!ValidGraph(g)
    PROVE  Acyclic(g)
<1>1. Topology!Cardinality(Topology!Ids(g)) \in Nat
  BY DEF TopologyAssumption, Topology!ValidGraph
<1> QED
  BY <1>1, VisitedIsAcyclic DEF Topology!ValidGraph

LEMMA VersionsStay ==
    ASSUME VersionsOK, UNCHANGED topology_versions, raced => raced'
    PROVE  VersionsOK'
<1>1. \A v : Published(v) => Published(v)'
  BY Zenon DEF Published, Acyclic, Topology!Ids, Topology!Edges
<1> QED
  BY <1>1 DEF VersionsOK

LEMMA TopologyReadRevision ==
    ASSUME TopologyAssumption, TopologyInv, NEW c \in Connections, NEW g \in Graphs,
           Topology!ReadRevision(c, g)
    PROVE  TopologyInv'
<1>1. PICK locks, revision : /\ locks = (topology_drafts # None)
                             /\ revision = IF topology_drafts = None THEN 1
                                           ELSE topology_drafts.revision + 1
  OBVIOUS
<1>2. PICK d : d = [graph |-> g, locks |-> locks, revision |-> revision]
  BY Zenon
<1>3. /\ drafting' = [drafting EXCEPT ![c] = d]
      /\ UNCHANGED <<topology_drafts, topology_versions, answers, raced>>
  BY <1>1, <1>2 DEF Topology!ReadRevision
<1>4. RowOK'
  BY <1>3 DEF TopologyInv, RowOK, DraftRows
<1>5. VersionsOK'
  BY <1>3, VersionsStay DEF TopologyInv
<1>6. DraftingOK'
  <2>1. d.graph = g /\ d.locks = locks /\ d.revision = revision
    BY <1>2
  <2>2. Drafts(d)'
    BY <1>1, <1>3, <2>1, Zenon DEF Drafts
  <2>3. \A r : Drafts(r) => Drafts(r)'
    BY <1>3 DEF Drafts
  <2>4. /\ drafting'[c] = d /\ drafting' = [b \in Connections |-> drafting'[b]]
        /\ \A b \in Connections \ {c} : drafting'[b] = drafting[b]
    BY <1>3 DEF TopologyInv, DraftingOK
  <2>5. \A b \in Connections : \A r : r = drafting'[b] /\ r # None => Drafts(r)'
    BY <2>2, <2>3, <2>4 DEF TopologyInv, DraftingOK
  <2>6. d.locks => \A b \in Connections \ {c} : ~(drafting[b] # None /\ drafting[b].locks)
    BY <1>1, <2>1, Zenon DEF Topology!ReadRevision, Topology!Waits
  <2>7. \A a, b \in Connections :
           drafting'[a] # None /\ drafting'[a].locks /\ drafting'[b] # None /\ drafting'[b].locks
              => a = b
    BY <2>4, <2>6 DEF TopologyInv, DraftingOK
  <2> QED
    BY <2>4, <2>5, <2>7 DEF DraftingOK
<1> QED
  BY <1>4, <1>5, <1>6 DEF TopologyInv

\* A create_draft ends, and no other one holds the lock of the row when the row changed.
LEMMA DraftEnds ==
    ASSUME DraftingOK, NEW c \in Connections, drafting' = [drafting EXCEPT ![c] = None],
           \/ UNCHANGED topology_drafts
           \/ \A d \in Connections \ {c} : ~(drafting[d] # None /\ drafting[d].locks)
    PROVE  DraftingOK'
<1>1. /\ drafting'[c] = None /\ drafting' = [b \in Connections |-> drafting'[b]]
      /\ \A b \in Connections \ {c} : drafting'[b] = drafting[b]
  BY DEF DraftingOK
<1>2. \A b \in Connections : \A r : r = drafting'[b] /\ r # None => Drafts(r)'
  BY <1>1 DEF DraftingOK, Drafts
<1> QED
  BY <1>1, <1>2 DEF DraftingOK

LEMMA TopologyWriteDraft ==
    ASSUME TopologyAssumption, TopologyInv, NEW c \in Connections, Topology!WriteDraft(c)
    PROVE  TopologyInv'
<1>1. PICK d : d = drafting[c]
  OBVIOUS
<1>2. d # None /\ Drafts(d)
  BY <1>1 DEF Topology!WriteDraft, TopologyInv, DraftingOK
<1>3. PICK row : row = [revision |-> d.revision, graph |-> d.graph]
  BY Zenon
<1>4. /\ topology_drafts' = row /\ answers' = answers \cup {row}
      /\ raced' = (raced \/ (~d.locks /\ topology_drafts # None))
      /\ UNCHANGED topology_versions
  BY <1>1, <1>3 DEF Topology!WriteDraft
<1>5. /\ row \in DraftRows /\ row # None /\ row.revision = d.revision
      /\ topology_drafts # None => topology_drafts.revision \in Nat
  BY <1>2, <1>3 DEF Drafts, TopologyInv, RowOK, DraftRows, TopologyAssumption
<1>6. RowOK'
  <2>1. ASSUME ~raced', NEW a \in answers'
        PROVE  a.revision <= row.revision /\ (a.revision = row.revision => a = row)
    <3>1. CASE a = row
      BY <1>5, <3>1 DEF DraftRows
    <3>2. CASE a \in answers
      <4>1. topology_drafts # None /\ ~raced /\ d.locks
        BY <1>4, <2>1, <3>2, Zenon DEF TopologyInv, RowOK
      <4>2. row.revision = topology_drafts.revision + 1 /\ a.revision <= topology_drafts.revision
        BY <1>2, <1>5, <3>2, <4>1 DEF Drafts, TopologyInv, RowOK
      <4>3. a.revision \in Nat
        BY <3>2 DEF TopologyInv, RowOK, DraftRows
      <4> QED
        BY <1>5, <4>1, <4>2, <4>3
    <3> QED
      BY <1>4, <2>1, <3>1, <3>2
  <2> QED
    BY <1>4, <1>5, <2>1 DEF TopologyInv, RowOK, DraftRows
<1>7. DraftingOK'
  BY DraftEnds, Zenon DEF TopologyInv, Topology!WriteDraft, Topology!Waits
<1>8. VersionsOK'
  BY <1>4, VersionsStay, Zenon DEF TopologyInv
<1> QED
  BY <1>6, <1>7, <1>8 DEF TopologyInv

LEMMA TopologyAbort ==
    ASSUME TopologyInv, NEW c \in Connections, Topology!Abort(c)
    PROVE  TopologyInv'
<1>1. RowOK'
  BY DEF TopologyInv, RowOK, DraftRows, Topology!Abort
<1>2. DraftingOK'
  BY DraftEnds, Zenon DEF TopologyInv, Topology!Abort
<1>3. VersionsOK'
  BY VersionsStay DEF TopologyInv, Topology!Abort
<1> QED
  BY <1>1, <1>2, <1>3 DEF TopologyInv

LEMMA TopologyPublish ==
    ASSUME TopologyAssumption, TopologyInv, NEW a \in answers, Topology!Publish(a)
    PROVE  TopologyInv'
<1>1. RowOK'
  BY DEF TopologyInv, RowOK, DraftRows, Topology!Publish
<1>2. DraftingOK'
  BY DEF TopologyInv, DraftingOK, Drafts, Topology!Publish
<1>3. VersionsOK'
  <2>1. PICK v : v = [graph |-> topology_drafts.graph, reviewed |-> a.graph]
    BY Zenon
  <2>2. v.graph = topology_drafts.graph /\ v.reviewed = a.graph
    BY <2>1
  <2>3. topology_versions' = Append(topology_versions, v) /\ raced' = raced
    BY <2>1 DEF Topology!Publish
  <2>4. v.graph \in Graphs
    BY <2>2 DEF TopologyInv, RowOK, DraftRows, Topology!Publish
  <2>5. Acyclic(v.graph)
    BY <2>2, <2>4, ValidIsAcyclic DEF Topology!Publish
  <2>6. ~raced => v.graph = v.reviewed
    BY <2>2 DEF TopologyInv, RowOK, Topology!Publish, Topology!UnchangedDraft
  <2>7. Published(v)'
    <3>1. PICK g : g = v.graph
      OBVIOUS
    <3>2. Acyclic(g)' <=> Acyclic(g)
      BY DEF Acyclic, Topology!Ids, Topology!Edges
    <3> QED
      BY <2>3, <2>5, <2>6, <3>1, <3>2 DEF Published
  <2>8. \A w : Published(w) => Published(w)'
    BY <2>3, Zenon DEF Published, Acyclic, Topology!Ids, Topology!Edges
  <2>9. PICK V : topology_versions \in Seq(V)
    BY DEF TopologyInv, VersionsOK
  <2>10. PICK W : W = V \cup {v}
    BY Zenon
  <2>11. topology_versions \in Seq(W) /\ v \in W
    BY <2>9, <2>10
  <2>12. /\ topology_versions' \in Seq(W)
         /\ Len(topology_versions') = Len(topology_versions) + 1
         /\ topology_versions'[Len(topology_versions) + 1] = v
         /\ \A i \in 1 .. Len(topology_versions) : topology_versions'[i] = topology_versions[i]
    BY <2>3, <2>11
  <2>13. \A i \in 1 .. Len(topology_versions') : \/ topology_versions'[i] = v
                                                 \/ i \in 1 .. Len(topology_versions)
    BY <2>11, <2>12
  <2>14. \A i \in 1 .. Len(topology_versions') : \A w : w = topology_versions'[i] => Published(w)'
    BY <2>7, <2>8, <2>12, <2>13 DEF TopologyInv, VersionsOK
  <2> QED
    BY <2>12, <2>14 DEF VersionsOK
<1> QED
  BY <1>1, <1>2, <1>3 DEF TopologyInv

\* For any graphs and any number of handlers: until two first drafts of a tenant have
\* raced, what is published is what the client that asked for it had been given, and
\* nothing with a cycle is ever published (create_draft, publish of
\* packages/topology/registry.py, validate_graph of validation.py).
THEOREM PublishedReviewed ==
    ASSUME TopologyAssumption
    PROVE  Topology!Spec => []Topology!PublishedWasReviewed
<1>1. Topology!Init => TopologyInv
  BY TopologyInit
<1>2. TopologyInv /\ [Topology!Next]_Topology!vars => TopologyInv'
  <2> SUFFICES ASSUME TopologyInv, [Topology!Next]_Topology!vars PROVE TopologyInv'
    OBVIOUS
  <2>1. ASSUME NEW c \in Connections, NEW g \in Graphs, Topology!ReadRevision(c, g)
        PROVE  TopologyInv'
    BY <2>1, TopologyReadRevision
  <2>2. ASSUME NEW c \in Connections, Topology!WriteDraft(c) PROVE TopologyInv'
    BY <2>2, TopologyWriteDraft
  <2>3. ASSUME NEW c \in Connections, Topology!Abort(c) PROVE TopologyInv'
    BY <2>3, TopologyAbort
  <2>4. ASSUME NEW a \in answers, Topology!Publish(a) PROVE TopologyInv'
    BY <2>4, TopologyPublish
  <2>5. CASE UNCHANGED Topology!vars
    <3>1. RowOK' /\ DraftingOK'
      BY <2>5 DEF TopologyInv, RowOK, DraftRows, DraftingOK, Drafts, Topology!vars
    <3>2. VersionsOK'
      BY <2>5, VersionsStay DEF TopologyInv, Topology!vars
    <3> QED
      BY <3>1, <3>2 DEF TopologyInv
  <2> QED
    BY <2>1, <2>2, <2>3, <2>4, <2>5
       DEF Topology!Next, Topology!CreateTopologyDraft, Topology!PublishTopology
<1>3. TopologyInv => Topology!PublishedWasReviewed
  <2> SUFFICES ASSUME TopologyInv, NEW i \in DOMAIN topology_versions, NEW v,
                      v = topology_versions[i]
               PROVE  (~raced => v.graph = v.reviewed) /\ Acyclic(v.graph)
    BY DEF Topology!PublishedWasReviewed, Acyclic
  <2>1. i \in 1 .. Len(topology_versions)
    BY DEF TopologyInv, VersionsOK
  <2> QED
    BY <2>1 DEF TopologyInv, VersionsOK, Published
<1> QED
  BY <1>1, <1>2, <1>3, PTL DEF Topology!Spec
=============================================================================
