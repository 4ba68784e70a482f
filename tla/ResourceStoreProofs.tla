------------------------- MODULE ResourceStoreProofs -------------------------
(***************************************************************************)
(* Proofs about ResourceStore for every set of connections, resources, keys  *)
(* and bodies and every bound on the versions, and about the simulation      *)
(* sessions, which are rows of that store.                                   *)
(***************************************************************************)
EXTENDS ResourceStore, Integers, Sequences, FiniteSetTheorems, WellFoundedInduction, TLAPS

\* What an open put knows: an update still builds on the current version, the one its
\* client named, and the record it deletes is still there and still expired.
OpenPutOK(c) ==
    /\ tx[c].version > 1 => /\ resources[tx[c].put.id] # None
                            /\ tx[c].version = Version(tx[c].put.id) + 1
                            /\ tx[c].put.if_match = tx[c].version - 1
    /\ tx[c].version = 1 => tx[c].put.if_match = 0
    /\ tx[c].deletes => /\ idempotency_records[tx[c].put.key] # None
                        /\ ~idempotency_records[tx[c].put.key].live

TxOK ==
    /\ \A c \in Transactions : Open(c) => OpenPutOK(c)
    /\ \A c, d \in Transactions :
         (c # d /\ Open(c) /\ Open(d) /\ tx[c].put.key = tx[d].put.key)
            => ~(tx[c].deletes /\ tx[d].deletes)

\* The history without cardinalities: no version beyond the current one, none twice,
\* none left out, and each one made from the version before it.
HistoryOK ==
    /\ \A row \in resource_versions : row.version <= Version(row.id)
    /\ \A row, other \in resource_versions :
         row.id = other.id /\ row.version = other.version => row = other
    /\ \A r \in Resources : \A v \in 1 .. Version(r) :
         \E row \in resource_versions : row.id = r /\ row.version = v
    /\ \A r \in Resources : resources[r] # None =>
         \E row \in resource_versions :
            row.id = r /\ row.version = resources[r].version /\ row.body = resources[r].body
    /\ \A row \in resource_versions : row.base = row.version - 1

\* The inductive invariant.
IInv == TypeOK /\ TxOK /\ HistoryOK

\* The store starts empty.
LEMMA InitIInv == Init => IInv
BY ResourceStoreAssumption
   DEF Init, IInv, TypeOK, TxOK, HistoryOK, Open, Version

\* The version of a resource is a number within the bound, 0 without a row.
LEMMA VersionType ==
    ASSUME TypeOK, NEW r \in Resources
    PROVE  /\ Version(r) \in 0 .. MaxVersion
           /\ resources[r] = None <=> Version(r) = 0
BY ResourceStoreAssumption DEF TypeOK, Version, ResourceRows

\* The reads of a put lock the row they find: what OpenPutOK asks holds of it, and it
\* does not get in the way of the puts that are open.
LEMMA ReadStep ==
    ASSUME IInv, NEW c \in Transactions, NEW k \in Keys, NEW r \in Resources,
           NEW b \in Bodies, NEW im \in 0 .. Version(r),
           Read(c, [key |-> k, id |-> r, body |-> b, if_match |-> im])
    PROVE  IInv'
<1> DEFINE put == [key |-> k, id |-> r, body |-> b, if_match |-> im]
           del == idempotency_records[k] # None
           new == [put |-> put, version |-> Version(r) + 1, deletes |-> del]
<1>0. Version(r) \in 0 .. MaxVersion /\ (resources[r] = None <=> Version(r) = 0)
  BY VersionType DEF IInv
<1>1. /\ ~Open(c) /\ ~KeyLocked(k) /\ ~Live(k)
      /\ resources[r] # None => ~Locked(r) /\ im = Version(r)
      /\ Version(r) < MaxVersion
      /\ tx' = [tx EXCEPT ![c] = new]
      /\ UNCHANGED <<resources, resource_versions, idempotency_records>>
  BY DEF Read, Matches
<1>a. put \in Puts
  BY <1>0, ResourceStoreAssumption DEF Puts
<1>b. del \in BOOLEAN
  OBVIOUS
<1>3. /\ new.put.id = r /\ new.put.key = k /\ new.put.if_match = im
      /\ new.version = Version(r) + 1
      /\ new.deletes <=> idempotency_records[k] # None
  BY Zenon
<1> HIDE DEF put, del
<1>2. put \in Puts /\ new \in OpenPuts /\ new # None
  BY <1>0, <1>1, <1>a, <1>b, ResourceStoreAssumption, NoneIsNoRow DEF OpenPuts
<1> HIDE DEF new
<1>4. /\ tx' \in [Transactions -> OpenPuts \cup {None}]
      /\ tx'[c] = new
      /\ \A d \in Transactions \ {c} : tx'[d] = tx[d]
  BY <1>1, <1>2 DEF IInv, TypeOK
<1>5. \A q \in Resources : Version(q)' = Version(q)
  BY <1>1 DEF Version
<1>6. TypeOK'
  BY <1>0, <1>1, <1>2, <1>3, <1>4 DEF IInv, TypeOK, Open, Locked, OpenPuts
<1>7. TxOK'
  BY <1>0, <1>1, <1>2, <1>3, <1>4, <1>5
     DEF IInv, TypeOK, TxOK, OpenPutOK, Open, KeyLocked, Live, OpenPuts, Puts
<1>8. HistoryOK'
  BY <1>1, <1>5 DEF IInv, HistoryOK, TypeOK, VersionRows
<1> QED BY <1>6, <1>7, <1>8 DEF IInv

\* A commit is the next version of its resource: a put that read a row still holds
\* its lock, and a first put finds its version taken once the resource exists.
LEMMA CommitIsNext ==
    ASSUME IInv, NEW c \in Transactions, Open(c), ~VersionTaken(c)
    PROVE  /\ tx[c] \in OpenPuts /\ tx[c].put \in Puts
           /\ tx[c].version = Version(tx[c].put.id) + 1
           /\ tx[c].put.if_match = tx[c].version - 1
<1>1. tx[c] \in OpenPuts /\ tx[c].put \in Puts
  BY DEF IInv, TypeOK, Open, OpenPuts
<1>2. CASE tx[c].version > 1
  BY <1>1, <1>2 DEF IInv, TxOK, OpenPutOK
<1>3. CASE tx[c].version = 1
  <2>1. tx[c].put.id \in Resources
    BY <1>1 DEF Puts
  <2>2. Version(tx[c].put.id) \in 0 .. MaxVersion
    BY <2>1, VersionType DEF IInv
  <2>3. ~(1 \in 1 .. Version(tx[c].put.id))
    BY <1>3, <2>1 DEF IInv, HistoryOK, VersionTaken
  <2>4. Version(tx[c].put.id) = 0
    BY <2>2, <2>3, ResourceStoreAssumption
  <2> QED BY <1>1, <1>3, <2>4 DEF IInv, TxOK, OpenPutOK
<1> QED BY <1>1, <1>2, <1>3, ResourceStoreAssumption DEF OpenPuts

\* The writes of a put.
LEMMA CommitStep ==
    ASSUME IInv, NEW c \in Transactions, Commit(c)
    PROVE  IInv'
<1>p. PICK put : put = tx[c].put
  OBVIOUS
<1>v. PICK v : v = tx[c].version
  OBVIOUS
<1> DEFINE r == put.id
           k == put.key
           res == [version |-> v, body |-> put.body]
           new == [id |-> r, version |-> v, body |-> put.body, key |-> k, base |-> put.if_match]
           rec == [request |-> Hash(put), version |-> v, live |-> TRUE]
<1>1. /\ Open(c) /\ ~VersionTaken(c) /\ ~KeyTaken(c)
      /\ resources' = [resources EXCEPT ![r] = res]
      /\ resource_versions' = resource_versions \cup {new}
      /\ idempotency_records' = [idempotency_records EXCEPT ![k] = rec]
      /\ tx' = [tx EXCEPT ![c] = None]
  BY <1>p, <1>v DEF Commit, WithVersion
<1>2. /\ tx[c] \in OpenPuts /\ put \in Puts /\ v = Version(r) + 1 /\ put.if_match = v - 1
  BY <1>1, <1>p, <1>v, CommitIsNext
<1>3. /\ r \in Resources /\ k \in Keys /\ put.body \in Bodies /\ put.if_match \in 0 .. MaxVersion
      /\ v \in 1 .. MaxVersion
  BY <1>2, <1>v DEF Puts, OpenPuts
<1>4. res \in ResourceRows /\ res # None
  BY <1>3, NoneIsNoRow DEF ResourceRows
<1>5. rec \in Records /\ rec # None
  <2>1. Hash(put) \in [id : Resources, body : Bodies]
    BY <1>3 DEF Hash
  <2>2. ASSUME NEW h \in [id : Resources, body : Bodies], NEW live \in BOOLEAN
        PROVE  [request |-> h, version |-> v, live |-> live] \in Records
    BY <1>3 DEF Records
  <2>3. rec \in Records
    BY <2>1, <2>2, Zenon
  <2> QED BY <2>3, NoneIsNoRow, Zenon
<1>6. new \in VersionRows
  BY <1>3 DEF VersionRows
<1>7. /\ res.version = v /\ res.body = put.body
      /\ new.id = r /\ new.version = v /\ new.body = put.body /\ new.base = put.if_match
  OBVIOUS
<1> HIDE DEF res, new, rec
<1>8. /\ resources' \in [Resources -> ResourceRows \cup {None}]
      /\ resources'[r] = res
      /\ \A q \in Resources \ {r} : resources'[q] = resources[q]
  BY <1>1, <1>3, <1>4 DEF IInv, TypeOK
<1>9. /\ Version(r)' = v
      /\ \A q \in Resources \ {r} : Version(q)' = Version(q)
  BY <1>4, <1>7, <1>8 DEF Version
<1>10. /\ idempotency_records' \in [Keys -> Records \cup {None}]
       /\ idempotency_records'[k] = rec
       /\ \A q \in Keys \ {k} : idempotency_records'[q] = idempotency_records[q]
  BY <1>1, <1>3, <1>5 DEF IInv, TypeOK
<1>11. /\ tx' \in [Transactions -> OpenPuts \cup {None}]
       /\ tx'[c] = None
       /\ \A d \in Transactions \ {c} : tx'[d] = tx[d]
  BY <1>1 DEF IInv, TypeOK
<1>12. TypeOK'
  BY <1>1, <1>6, <1>8, <1>10, <1>11 DEF IInv, TypeOK, Open
<1>13. ASSUME NEW d \in Transactions, Open(d)'
       PROVE  OpenPutOK(d)'
  <2>1. d # c /\ tx'[d] = tx[d] /\ Open(d)
    BY <1>11, <1>13 DEF Open
  <2>2. tx[d] \in OpenPuts /\ tx[d].put \in Puts
    BY <2>1 DEF IInv, TypeOK, Open, OpenPuts
  <2>3. OpenPutOK(d)
    BY <2>1 DEF IInv, TxOK
  <2>4. tx[d].version > 1 => tx[d].put.id # r
    <3>1. SUFFICES ASSUME tx[d].version > 1, tx[d].put.id = r PROVE FALSE
      OBVIOUS
    <3>2. tx[c].version = 1
      BY <1>1, <1>2, <1>p, <2>1, <2>2, <3>1 DEF IInv, TypeOK, OpenPuts
    <3>3. Version(r) = 0
      BY <1>2, <1>3, <1>v, <3>2, VersionType DEF IInv
    <3> QED BY <1>3, <2>3, <3>1, <3>3, VersionType DEF OpenPutOK, IInv
  <2>5. tx[d].deletes => tx[d].put.key # k
    BY <1>1, <1>p, <2>1, <2>3 DEF IInv, TxOK, OpenPutOK, KeyTaken
  <2> QED BY <1>8, <1>9, <1>10, <2>1, <2>2, <2>3, <2>4, <2>5 DEF OpenPutOK, Puts
<1>14. TxOK'
  BY <1>11, <1>13 DEF IInv, TxOK, Open
<1>15. HistoryOK'
  <2>1. \A row \in resource_versions' : row.version <= Version(row.id)'
    BY <1>1, <1>2, <1>3, <1>7, <1>9, VersionType DEF IInv, TypeOK, HistoryOK, VersionRows
  <2>2. \A row, other \in resource_versions' :
          row.id = other.id /\ row.version = other.version => row = other
    BY <1>1, <1>7, <1>p, <1>v DEF IInv, HistoryOK, VersionTaken
  <2>3. ASSUME NEW q \in Resources, NEW n \in 1 .. Version(q)'
        PROVE  \E row \in resource_versions' : row.id = q /\ row.version = n
    <3>1. CASE q # r
      BY <1>1, <1>9, <3>1 DEF IInv, HistoryOK
    <3>2. CASE q = r /\ n = v
      BY <1>1, <1>7, <3>2
    <3>3. CASE q = r /\ n # v
      <4>1. n \in 1 .. Version(r)
        BY <1>2, <1>3, <1>9, <3>3, VersionType DEF IInv
      <4> QED BY <1>1, <1>3, <3>3, <4>1 DEF IInv, HistoryOK
    <3> QED BY <3>1, <3>2, <3>3
  <2>4. \A q \in Resources : resources'[q] # None =>
          \E row \in resource_versions' :
            row.id = q /\ row.version = resources'[q].version /\ row.body = resources'[q].body
    BY <1>1, <1>7, <1>8 DEF IInv, HistoryOK
  <2>5. \A row \in resource_versions' : row.base = row.version - 1
    BY <1>1, <1>2, <1>7 DEF IInv, HistoryOK
  <2> QED BY <2>1, <2>2, <2>3, <2>4, <2>5 DEF HistoryOK
<1> QED BY <1>12, <1>14, <1>15 DEF IInv

\* A rollback only closes the put.
LEMMA AbortStep ==
    ASSUME IInv, NEW c \in Transactions, Abort(c)
    PROVE  IInv'
<1>1. /\ tx' \in [Transactions -> OpenPuts \cup {None}]
      /\ tx'[c] = None
      /\ \A d \in Transactions \ {c} : tx'[d] = tx[d]
      /\ UNCHANGED <<resources, resource_versions, idempotency_records>>
  BY DEF Abort, IInv, TypeOK
<1>2. TypeOK'
  BY <1>1 DEF IInv, TypeOK, Open
<1>3. TxOK'
  BY <1>1 DEF IInv, TxOK, OpenPutOK, Open, Version
<1>4. HistoryOK'
  BY <1>1 DEF IInv, HistoryOK, Version
<1> QED BY <1>2, <1>3, <1>4 DEF IInv

\* A live record is not one an open put is deleting: its expiry disturbs none.
LEMMA ExpiryStep ==
    ASSUME IInv, NEW k \in Keys, RecordExpires(k)
    PROVE  IInv'
<1> DEFINE rec == [idempotency_records[k] EXCEPT !.live = FALSE]
<1>1. /\ Live(k)
      /\ idempotency_records' = [idempotency_records EXCEPT ![k] = rec]
      /\ UNCHANGED <<resources, resource_versions, tx>>
  BY DEF RecordExpires
<1>2. rec \in Records /\ rec # None /\ ~rec.live
  <2>1. idempotency_records[k] \in Records
    BY <1>1 DEF IInv, TypeOK, Live
  <2>2. ASSUME NEW old \in Records, NEW live \in BOOLEAN
        PROVE  [old EXCEPT !.live = live] \in Records
    BY DEF Records
  <2>3. rec \in Records
    BY <2>1, <2>2, Zenon
  <2>4. ~rec.live
    BY <2>1 DEF Records
  <2> QED BY <2>3, <2>4, NoneIsNoRow, Zenon
<1> HIDE DEF rec
<1>3. /\ idempotency_records' \in [Keys -> Records \cup {None}]
      /\ idempotency_records'[k] = rec
      /\ \A q \in Keys \ {k} : idempotency_records'[q] = idempotency_records[q]
  BY <1>1, <1>2 DEF IInv, TypeOK
<1>4. TypeOK'
  BY <1>1, <1>3 DEF IInv, TypeOK, Open
<1>5. TxOK'
  <2>1. \A c \in Transactions : Open(c) => tx[c].put.key \in Keys
    BY DEF IInv, TypeOK, Open, OpenPuts, Puts
  <2> QED BY <1>1, <1>2, <1>3, <2>1 DEF IInv, TxOK, OpenPutOK, Open, Version
<1>6. HistoryOK'
  BY <1>1 DEF IInv, HistoryOK, Version
<1> QED BY <1>4, <1>5, <1>6 DEF IInv

\* Every step of the store, a stuttering one included.
LEMMA NextIInv == IInv /\ [Next]_svars => IInv'
<1> SUFFICES ASSUME IInv, [Next]_svars PROVE IInv'
  OBVIOUS
<1>1. CASE UNCHANGED svars
  BY <1>1 DEF svars, IInv, TypeOK, TxOK, OpenPutOK, HistoryOK, Version, Open
<1>2. CASE \E c \in Transactions, k \in Keys, r \in Resources, b \in Bodies :
             \E im \in 0 .. Version(r) :
                Read(c, [key |-> k, id |-> r, body |-> b, if_match |-> im])
  BY <1>2, ReadStep
<1>3. CASE \E c \in Transactions : Commit(c) \/ Abort(c)
  BY <1>3, CommitStep, AbortStep
<1>4. CASE \E k \in Keys : RecordExpires(k)
  BY <1>4, ExpiryStep
<1> QED BY <1>1, <1>2, <1>3, <1>4 DEF Next

\* IInv holds in every reachable state of the store.
THEOREM Invariance == Spec => []IInv
BY InitIInv, NextIInv, PTL DEF Spec

-----------------------------------------------------------------------------
\* Types, and the row lock: no two open updates of one resource.
THEOREM TypeCorrect == Spec => []TypeOK
<1>1. IInv => TypeOK
  BY DEF IInv
<1> QED BY <1>1, Invariance, PTL

\* The history of every resource has each version up to the current one exactly once,
\* whatever puts raced past their reads.
THEOREM HistoryComplete == Spec => []HistoryIsComplete
<1>1. IInv => HistoryIsComplete
  <2> SUFFICES ASSUME IInv PROVE HistoryIsComplete
    OBVIOUS
  <2>1. ASSUME NEW r \in Resources, NEW v \in 1 .. MaxVersion
        PROVE  Cardinality({row \in resource_versions : row.id = r /\ row.version = v})
                  = (IF v <= Version(r) THEN 1 ELSE 0)
    <3> DEFINE S == {row \in resource_versions : row.id = r /\ row.version = v}
    <3>1. CASE v <= Version(r)
      <4>1. v \in 1 .. Version(r)
        BY <3>1, VersionType, ResourceStoreAssumption DEF IInv
      <4>2. PICK row \in resource_versions : row.id = r /\ row.version = v
        BY <4>1 DEF IInv, HistoryOK
      <4>3. S = {row}
        BY <4>2 DEF IInv, HistoryOK
      <4> QED BY <3>1, <4>3, FS_Singleton
    <3>2. CASE ~(v <= Version(r))
      <4>1. S = {}
        BY <3>2 DEF IInv, HistoryOK
      <4> QED BY <3>2, <4>1, FS_EmptySet
    <3> QED BY <3>1, <3>2
  <2> QED BY <2>1 DEF HistoryIsComplete, IInv, HistoryOK
<1> QED BY <1>1, Invariance, PTL

\* No update is lost: every version but the first replaced the one its client named.
THEOREM UpdatesAreNotLost == Spec => []NoLostUpdate
<1>1. IInv => NoLostUpdate
  BY DEF IInv, HistoryOK, NoLostUpdate
<1> QED BY <1>1, Invariance, PTL

\* A request takes effect once, also when it is retried after its record expired.
THEOREM AppliedOnce == Spec => []RequestAppliedOnce
<1>1. IInv => RequestAppliedOnce
  <2> SUFFICES ASSUME IInv, NEW row \in resource_versions, NEW other \in resource_versions,
                      row.id = other.id, row.base = other.base
               PROVE  row = other
    BY DEF RequestAppliedOnce
  <2>1. row \in VersionRows /\ other \in VersionRows
    BY DEF IInv, TypeOK
  <2>2. row.version = other.version
    BY <2>1 DEF IInv, HistoryOK, VersionRows
  <2> QED BY <2>2 DEF IInv, HistoryOK
<1> QED BY <1>1, Invariance, PTL

\* The store implements ResourceRegister: reads and rollbacks change nothing in it, and
\* a commit, made from what an earlier step read, is its atomic put.
THEOREM Refinement == Spec => ImplementsRegister
<1>1. Init => Register!Init
  BY DEF Init, Register!Init
<1>2. ASSUME IInv, [Next]_svars
      PROVE  [Register!Next]_<<resources, resource_versions, idempotency_records>>
  <2>1. CASE UNCHANGED <<resources, resource_versions, idempotency_records>>
    BY <2>1
  <2>2. ASSUME NEW c \in Transactions, Commit(c)
        PROVE  Register!Next
    <3>1. PICK put, v : put = tx[c].put /\ v = tx[c].version /\ put \in Puts
      BY <1>2, <2>2, CommitIsNext DEF Commit
    <3>2. PICK r \in Resources, k \in Keys, b \in Bodies : r = put.id /\ k = put.key /\ b = put.body
      BY <3>1 DEF Puts
    <3>3. v = Version(r) + 1 /\ put.if_match = v - 1
      BY <1>2, <2>2, <3>1, <3>2, CommitIsNext DEF Commit
    <3>4. Version(r) \in Nat /\ Register!Current(r) = Version(r)
      BY <1>2, VersionType, ResourceStoreAssumption DEF IInv, Register!Current, Version
    <3>5. put.if_match = Version(r)
      BY <3>3, <3>4
    <3>6. idempotency_records[k] # None => ~idempotency_records[k].live
      BY <1>2, <2>2, <3>1, <3>2 DEF Commit, KeyTaken, IInv, TxOK, OpenPutOK
    <3>7. /\ resources' = [resources EXCEPT ![r] = [version |-> v, body |-> b]]
          /\ resource_versions' = resource_versions \cup
                {[id |-> r, version |-> v, body |-> b, key |-> k, base |-> put.if_match]}
          /\ idempotency_records' = [idempotency_records EXCEPT ![k] =
                [request |-> [id |-> r, body |-> b], version |-> v, live |-> TRUE]]
      BY <2>2, <3>1, <3>2, Zenon DEF Commit, WithVersion, Hash
    <3>8. Register!Put(k, r, b)
      BY <3>3, <3>4, <3>5, <3>6, <3>7, Zenon DEF Register!Put
    <3> QED
      BY <3>8 DEF Register!Next
  <2>3. ASSUME NEW k \in Keys, RecordExpires(k)
        PROVE  Register!Next
    <3>1. Register!Expire(k)
      BY <2>3, Zenon DEF RecordExpires, Live, Register!Expire
    <3> QED
      BY <3>1 DEF Register!Next
  <2>4. CASE \E c \in Transactions, k \in Keys, r \in Resources, b \in Bodies :
               \E im \in 0 .. Version(r) :
                  Read(c, [key |-> k, id |-> r, body |-> b, if_match |-> im])
    <3>1. \A c, put : Read(c, put) => UNCHANGED <<resources, resource_versions, idempotency_records>>
      BY Zenon DEF Read
    <3> QED
      BY <2>1, <2>4, <3>1, Zenon
  <2>5. CASE \E c \in Transactions : Abort(c)
    BY <2>1, <2>5, Zenon DEF Abort
  <2>6. CASE UNCHANGED svars
    BY <2>1, <2>6, Zenon DEF svars
  <2> QED
    BY <1>2, <2>2, <2>3, <2>4, <2>5, <2>6, Zenon DEF Next
<1> QED BY <1>1, <1>2, Invariance, PTL DEF Spec, ImplementsRegister, Register!Spec

(***************************************************************************)
(* The simulation sessions.  Replay is a recursive function: that its      *)
(* equation has a solution, and what an operation more does to it, comes   *)
(* first.                                                                  *)
(***************************************************************************)
CONSTANTS Handlers, Sims, Faults, TotalSteps
VARIABLES sessions, snapshots, written, working, accepted

Simulation == INSTANCE SimulationSession

\* A set of naturals has a least element.
LEMMA Least ==
    ASSUME NEW T, T \subseteq Nat, T # {}
    PROVE  \E m \in T : \A k \in T : m <= k
<1>1. PICK m \in T : \A k \in T : ~(<<k, m>> \in OpToRel(<, Nat))
  BY NatLessThanWellFounded, WFMin, Zenon
<1>2. \A k \in T : ~(k < m)
  BY <1>1, Zenon DEF OpToRel
<1> QED
  BY <1>2

\* p replays the first n of the operations.
Replays(p, n, ops) ==
    p = [k \in 0 .. n |-> IF k = 0 THEN Simulation!NewBody
                          ELSE Simulation!Apply(p[k - 1], ops[k])]

\* Any number of operations can be replayed.
LEMMA ReplayExists ==
    ASSUME NEW ops, NEW n \in Nat
    PROVE  \E p : Replays(p, n, ops)
<1> DEFINE T == {m \in Nat : ~\E p : Replays(p, m, ops)}
<1> SUFFICES ASSUME T # {} PROVE FALSE
  OBVIOUS
<1>1. PICK m \in T : \A k \in T : m <= k
  BY Least, Zenon
<1>2. m # 0
  <2>1. Replays([k \in 0 .. 0 |-> Simulation!NewBody], 0, ops)
    BY DEF Replays
  <2> QED
    BY <1>1, <2>1
<1>3. m - 1 \in Nat /\ m - 1 \notin T
  BY <1>1, <1>2
<1>4. PICK p : Replays(p, m - 1, ops)
  BY <1>3
<1>5. PICK last : last = Simulation!Apply(p[m - 1], ops[m])
  OBVIOUS
<1>6. PICK q : q = [k \in 0 .. m |-> IF k = m THEN last ELSE p[k]]
  BY Zenon
<1>7. \A k \in 0 .. m :
         q[k] = IF k = 0 THEN Simulation!NewBody ELSE Simulation!Apply(q[k - 1], ops[k])
  <2> SUFFICES ASSUME NEW k \in 0 .. m
               PROVE  q[k] = IF k = 0 THEN Simulation!NewBody
                             ELSE Simulation!Apply(q[k - 1], ops[k])
    OBVIOUS
  <2>1. k # 0 => k - 1 \in 0 .. m /\ k - 1 # m
    BY <1>3
  <2>2. k # 0 => q[k - 1] = p[k - 1]
    BY <1>6, <2>1
  <2>3. CASE k = m
    BY <1>2, <1>5, <1>6, <2>2, <2>3
  <2>4. CASE k # m
    <3>1. k \in 0 .. m - 1 /\ q[k] = p[k]
      BY <1>3, <1>6, <2>4
    <3>2. p[k] = IF k = 0 THEN Simulation!NewBody ELSE Simulation!Apply(p[k - 1], ops[k])
      BY <1>4, <3>1 DEF Replays
    <3> QED
      BY <2>2, <3>1, <3>2
  <2> QED
    BY <2>3, <2>4
<1>8. Replays(q, m, ops)
  BY <1>6, <1>7 DEF Replays
<1> QED
  BY <1>1, <1>8

\* Replay satisfies the equation that defines it.
LEMMA ReplayEquation ==
    ASSUME NEW ops, Len(ops) \in Nat
    PROVE  Replays(Simulation!Replay(ops), Len(ops), ops)
<1>1. PICK n : n = Len(ops)
  OBVIOUS
<1>2. \E p : Replays(p, n, ops)
  BY <1>1, ReplayExists
<1>3. PICK r : r = CHOOSE p : Replays(p, n, ops)
  OBVIOUS
<1>4. Replays(r, n, ops)
  BY <1>2, <1>3
<1>5. Simulation!Replay(ops) = r
  BY <1>1, <1>3 DEF Simulation!Replay, Replays
<1> QED
  BY <1>1, <1>4, <1>5

\* An operation more changes nothing of the replay of those before it, and is applied to
\* where they led.
LEMMA ReplayAppend ==
    ASSUME NEW S, NEW ops \in Seq(S), NEW op \in S
    PROVE  /\ \A k \in 0 .. Len(ops) :
                 Simulation!Replay(Append(ops, op))[k] = Simulation!Replay(ops)[k]
           /\ Simulation!Replay(Append(ops, op))[Len(ops) + 1] =
                 Simulation!Apply(Simulation!Replay(ops)[Len(ops)], op)
<1> PICK more : more = Append(ops, op)
  BY Zenon
<1> PICK n : n = Len(ops)
  OBVIOUS
<1> PICK p : p = Simulation!Replay(ops)
  OBVIOUS
<1> PICK q : q = Simulation!Replay(more)
  OBVIOUS
<1>1. /\ n \in Nat /\ Len(more) = n + 1 /\ more[n + 1] = op
      /\ \A k \in 1 .. n : more[k] = ops[k]
  OBVIOUS
<1>2. Replays(p, n, ops) /\ Replays(q, n + 1, more)
  <2>1. Len(ops) \in Nat /\ Len(more) \in Nat
    BY <1>1
  <2>2. Replays(Simulation!Replay(ops), Len(ops), ops)
    BY <2>1, ReplayEquation
  <2>3. Replays(Simulation!Replay(more), Len(more), more)
    BY <2>1, ReplayEquation, Zenon
  <2> QED
    BY <1>1, <2>2, <2>3
<1>3. \A k \in 0 .. n : p[k] = IF k = 0 THEN Simulation!NewBody
                               ELSE Simulation!Apply(p[k - 1], ops[k])
  BY <1>2 DEF Replays
<1>4. \A k \in 0 .. n + 1 : q[k] = IF k = 0 THEN Simulation!NewBody
                                   ELSE Simulation!Apply(q[k - 1], more[k])
  BY <1>2 DEF Replays
<1>5. \A k \in 0 .. n : q[k] = p[k]
  <2> DEFINE T == {k \in 0 .. n : q[k] # p[k]}
  <2> SUFFICES ASSUME T # {} PROVE FALSE
    OBVIOUS
  <2>1. T \subseteq Nat
    BY <1>1
  <2>2. PICK k \in T : \A j \in T : k <= j
    BY <2>1, Least, Zenon
  <2>3. k # 0
    BY <1>1, <1>3, <1>4
  <2>4. k - 1 \in 0 .. n /\ k - 1 \notin T /\ k \in 1 .. n /\ k \in 0 .. n + 1
    BY <1>1, <2>2, <2>3
  <2>5. q[k - 1] = p[k - 1] /\ more[k] = ops[k]
    BY <1>1, <2>4
  <2> QED
    BY <1>3, <1>4, <2>3, <2>4, <2>5
<1>6. q[n + 1] = Simulation!Apply(p[n], op)
  <2>1. n + 1 \in 0 .. n + 1 /\ n + 1 # 0 /\ n + 1 - 1 = n /\ n \in 0 .. n
    BY <1>1
  <2> QED
    BY <1>1, <1>4, <1>5, <2>1
<1> QED
  BY <1>5, <1>6

SimBodies == {b \in Simulation!Bodies : Len(b.events) <= TotalSteps}
SimOps == Simulation!Operations \cup [kind : {"restore"}, to : SimBodies]
SessionRows == [version : Nat, body : SimBodies]
OpenOperations == [key : Keys, sim : Sims, op : SimOps, etag : Nat, body : SimBodies]

\* The duration has a number of steps; None is no row and no operation.
SimAssumption == TotalSteps \in Nat /\ None \notin SessionRows /\ None \notin OpenOperations

\* An operation that is under way was applied to the session it loaded, which is still the
\* stored one if the etag matches; what it restores is a snapshot of its simulation.
OperationHolds(w) ==
    /\ sessions[w.sim] # None /\ w.etag <= sessions[w.sim].version
    /\ w.etag = sessions[w.sim].version => w.body = Simulation!Apply(sessions[w.sim].body, w.op)
    /\ w.op.kind = "restore" => [token |-> w.op.to, sim |-> w.sim] \in snapshots

OperationsOK == \A h \in Handlers : \A w : w = working[h] /\ w # None => OperationHolds(w)

\* A state that the accepted operations led a simulation through.
WasIn(s, body) ==
    \E j \in 0 .. Len(accepted[s]) : body = Simulation!Replay(accepted[s])[j]

SnapshotsOK == \A old \in snapshots : sessions[old.sim] # None /\ WasIn(old.sim, old.token)

SimTypes ==
    /\ sessions \in [Sims -> SessionRows \cup {None}]
    /\ snapshots \subseteq [token : SimBodies, sim : Sims]
    /\ working \in [Handlers -> OpenOperations \cup {None}]
    /\ accepted \in [Sims -> Seq(SimOps)]

SimInv ==
    /\ SimTypes
    /\ \A s \in Sims : sessions[s] = None => accepted[s] = <<>>
    /\ SnapshotsOK /\ OperationsOK /\ Simulation!SessionIsReplay

\* No simulation exists.
LEMMA SimInit == Simulation!Init => SimInv
BY DEF Simulation!Init, SimInv, SimTypes, SnapshotsOK, OperationsOK, Simulation!SessionIsReplay

\* The replay of no operations is the new session.
LEMMA ReplayNothing == Simulation!Replay(<<>>)[0] = Simulation!NewBody
<1>1. Len(<<>>) = 0
  OBVIOUS
<1>2. Replays(Simulation!Replay(<<>>), 0, <<>>)
  BY <1>1, ReplayEquation
<1> QED
  BY <1>2 DEF Replays

\* An operation that is permitted leads to a session within the duration.
LEMMA ApplyType ==
    ASSUME SimAssumption, NEW b \in SimBodies, NEW op \in SimOps,
           op.kind = "step" => Len(b.events) < TotalSteps
    PROVE  Simulation!Apply(b, op) \in SimBodies
<1>1. PICK e, r : e = b.events /\ r = b.running /\ b = [events |-> e, running |-> r]
                  /\ e \in Seq(Faults) /\ r \in BOOLEAN /\ Len(e) <= TotalSteps
  BY DEF SimBodies, Simulation!Bodies
<1>2. CASE op.kind = "start"
  <2>1. PICK v : v = [events |-> e, running |-> TRUE]
    BY Zenon
  <2>2. Simulation!Apply(b, op) = v
    BY <1>1, <1>2, <2>1, Zenon DEF Simulation!Apply
  <2>3. v \in Simulation!Bodies /\ v.events = e
    BY <1>1, <2>1 DEF Simulation!Bodies
  <2> QED
    BY <1>1, <2>2, <2>3 DEF SimBodies
<1>3. CASE op.kind = "pause"
  <2>1. PICK v : v = [events |-> e, running |-> FALSE]
    BY Zenon
  <2>2. Simulation!Apply(b, op) = v
    BY <1>1, <1>3, <2>1, Zenon DEF Simulation!Apply
  <2>3. v \in Simulation!Bodies /\ v.events = e
    BY <1>1, <2>1 DEF Simulation!Bodies
  <2> QED
    BY <1>1, <2>2, <2>3 DEF SimBodies
<1>4. CASE op.kind = "step"
  <2>1. op.fault \in Faults
    BY <1>4 DEF SimOps, Simulation!Operations
  <2>2. PICK f : f = Append(e, op.fault)
    BY Zenon
  <2>3. f \in Seq(Faults) /\ Len(f) = Len(e) + 1
    BY <1>1, <2>1, <2>2
  <2>4. Simulation!Apply(b, op) = [events |-> f, running |-> r]
    BY <1>1, <1>4, <2>2, Zenon DEF Simulation!Apply
  <2>5. Len(f) <= TotalSteps
    BY <1>1, <1>4, <2>3 DEF SimAssumption
  <2> QED
    BY <1>1, <2>3, <2>4, <2>5 DEF SimBodies, Simulation!Bodies
<1>5. CASE op.kind = "restore"
  BY <1>5 DEF Simulation!Apply, SimOps, Simulation!Operations
<1> QED
  BY <1>2, <1>3, <1>4, <1>5 DEF SimOps, Simulation!Operations

\* A handler's step that stores nothing.
LEMMA SimHandlerStep ==
    ASSUME SimInv, NEW h \in Handlers, NEW w \in OpenOperations \cup {None},
           working' = [working EXCEPT ![h] = w], w # None => OperationHolds(w),
           UNCHANGED <<sessions, snapshots, written, accepted>>
    PROVE  SimInv'
<1>1. SimTypes'
  BY DEF SimInv, SimTypes
<1>2. \A v : OperationHolds(v)' <=> OperationHolds(v)
  BY DEF OperationHolds, Simulation!Apply
<1>3. OperationsOK'
  <2> SUFFICES ASSUME NEW g \in Handlers, NEW v, v = working'[g], v # None
               PROVE  OperationHolds(v)'
    BY DEF OperationsOK
  <2>1. CASE g = h
    BY <1>2, <2>1 DEF SimInv, SimTypes
  <2>2. CASE g # h
    BY <1>2, <2>2 DEF SimInv, SimTypes, OperationsOK
  <2> QED
    BY <2>1, <2>2
<1>4. SnapshotsOK' /\ Simulation!SessionIsReplay'
      /\ \A s \in Sims : sessions'[s] = None => accepted'[s] = <<>>
  BY DEF SimInv, SnapshotsOK, WasIn, Simulation!SessionIsReplay
<1> QED
  BY <1>1, <1>3, <1>4 DEF SimInv

\* A session that is created has taken no step; nobody works on it yet.
LEMMA SimCreate ==
    ASSUME SimAssumption, SimInv, NEW s \in Sims, Simulation!Create(s)
    PROVE  SimInv'
<1> PICK row : row = [version |-> 1, body |-> Simulation!NewBody]
  BY Zenon
<1>1. row \in SessionRows /\ row # None
  <2>1. PICK body : body = Simulation!NewBody
    BY Zenon
  <2>2. body \in Simulation!Bodies /\ body.events = <<>> /\ Len(<<>>) = 0
    BY <2>1 DEF Simulation!Bodies, Simulation!NewBody
  <2>3. body \in SimBodies
    BY <2>2 DEF SimBodies, SimAssumption
  <2> QED
    BY <2>1, <2>3 DEF SessionRows, SimAssumption
<1>2. /\ sessions[s] = None /\ sessions'[s] = row
      /\ \A t \in Sims \ {s} : sessions'[t] = sessions[t]
      /\ sessions' \in [Sims -> SessionRows \cup {None}]
      /\ UNCHANGED <<snapshots, written, working, accepted>>
  BY <1>1 DEF SimInv, SimTypes, Simulation!Create
<1>3. SimTypes'
  BY <1>2 DEF SimInv, SimTypes
<1>4. \A t \in Sims : sessions'[t] = None => accepted'[t] = <<>>
  BY <1>1, <1>2 DEF SimInv
<1>5. SnapshotsOK'
  <2>1. \A old \in snapshots : old.sim \in Sims \ {s} /\ sessions'[old.sim] # None
    BY <1>2 DEF SimInv, SimTypes, SnapshotsOK
  <2> QED
    BY <1>2, <2>1 DEF SimInv, SnapshotsOK, WasIn
<1>6. OperationsOK'
  <2> SUFFICES ASSUME NEW h \in Handlers, NEW w, w = working[h], w # None
               PROVE  OperationHolds(w)'
    BY <1>2 DEF OperationsOK
  <2>1. OperationHolds(w) /\ w.sim \in Sims
    BY DEF SimInv, SimTypes, OperationsOK, OpenOperations
  <2>2. sessions'[w.sim] = sessions[w.sim]
    BY <1>2, <2>1 DEF OperationHolds
  <2> QED
    BY <1>2, <2>1, <2>2 DEF OperationHolds
<1>7. Simulation!SessionIsReplay'
  <2>1. row.body = Simulation!Replay(<<>>)[0] /\ accepted[s] = <<>> /\ Len(<<>>) = 0
    BY <1>2, ReplayNothing DEF SimInv
  <2>2. row.body = Simulation!Replay(accepted[s])[Len(accepted[s])] /\ DOMAIN accepted[s] = {}
    BY <2>1
  <2> QED
    BY <1>2, <2>2 DEF SimInv, Simulation!SessionIsReplay
<1> QED
  BY <1>3, <1>4, <1>5, <1>6, <1>7 DEF SimInv

\* The token of a snapshot is the session as the accepted operations left it.
LEMMA SimSnapshot ==
    ASSUME SimInv, NEW s \in Sims, Simulation!Snapshot(s)
    PROVE  SimInv'
<1> PICK new : new = [token |-> sessions[s].body, sim |-> s]
  BY Zenon
<1>1. /\ sessions[s] # None /\ snapshots' = snapshots \cup {new}
      /\ UNCHANGED <<sessions, written, working, accepted>>
  BY DEF Simulation!Snapshot
<1>2. new \in [token : SimBodies, sim : Sims]
  BY <1>1 DEF SimInv, SimTypes, SessionRows
<1>3. SimTypes'
  BY <1>1, <1>2 DEF SimInv, SimTypes
<1>4. SnapshotsOK'
  <2>1. WasIn(s, sessions[s].body)
    <3>1. Len(accepted[s]) \in 0 .. Len(accepted[s])
      BY DEF SimInv, SimTypes
    <3> QED
      BY <1>1, <3>1 DEF SimInv, Simulation!SessionIsReplay, WasIn
  <2>2. \A old \in snapshots' : sessions[old.sim] # None /\ WasIn(old.sim, old.token)
    BY <1>1, <2>1 DEF SimInv, SnapshotsOK
  <2> QED
    BY <1>1, <2>2 DEF SnapshotsOK, WasIn
<1>5. OperationsOK'
  BY <1>1 DEF SimInv, OperationsOK, OperationHolds
<1>6. Simulation!SessionIsReplay'
      /\ \A t \in Sims : sessions'[t] = None => accepted'[t] = <<>>
  BY <1>1 DEF SimInv, Simulation!SessionIsReplay
<1> QED
  BY <1>3, <1>4, <1>5, <1>6 DEF SimInv

\* operate computes from the session it loads.
LEMMA SimOperate ==
    ASSUME SimAssumption, SimInv, NEW h \in Handlers, NEW k \in Keys, NEW s \in Sims,
           NEW op \in SimOps, Simulation!Operate(h, k, s, op)
    PROVE  SimInv'
<1> PICK body : body = Simulation!Apply(sessions[s].body, op)
  OBVIOUS
<1> PICK w : w = [key |-> k, sim |-> s, op |-> op, etag |-> sessions[s].version, body |-> body]
  BY Zenon
<1>1. /\ sessions[s] # None /\ Simulation!Permitted(s, sessions[s].body, op)
      /\ working' = [working EXCEPT ![h] = w]
      /\ UNCHANGED <<sessions, snapshots, written, accepted>>
  BY DEF Simulation!Operate
<1>2. sessions[s].version \in Nat /\ sessions[s].body \in SimBodies
  BY <1>1 DEF SimInv, SimTypes, SessionRows
<1>3. body \in SimBodies
  BY <1>1, <1>2, ApplyType DEF Simulation!Permitted
<1>4. w \in OpenOperations
  BY <1>2, <1>3 DEF OpenOperations
<1>5. OperationHolds(w)
  BY <1>1, <1>2 DEF OperationHolds, Simulation!Permitted
<1> QED
  BY <1>1, <1>4, <1>5, SimHandlerStep, Zenon

\* _save under a matching etag appends to the operations the one it applied.  Whoever
\* loaded the session before holds an older etag.
LEMMA SimSave ==
    ASSUME SimAssumption, SimInv, NEW h \in Handlers, Simulation!Save(h)
    PROVE  SimInv'
<1> PICK w : w = working[h]
  OBVIOUS
<1> PICK s : s = w.sim
  OBVIOUS
<1> PICK ops : ops = accepted[s]
  OBVIOUS
<1> PICK op : op = w.op
  OBVIOUS
<1> PICK more : more = Append(ops, op)
  BY Zenon
<1> PICK row : row = [version |-> sessions[s].version + 1, body |-> w.body]
  BY Zenon
<1>1. /\ w \in OpenOperations /\ w # None /\ s \in Sims /\ op \in SimOps
      /\ w.body \in SimBodies /\ OperationHolds(w) /\ w.etag = sessions[s].version
  BY DEF Simulation!Save, Simulation!EtagMatches, SimInv, SimTypes, OperationsOK, OpenOperations
<1>2. sessions[s] \in SessionRows /\ sessions[s] # None /\ sessions[s].version \in Nat
  BY <1>1 DEF OperationHolds, SimInv, SimTypes, SessionRows
<1>3. row \in SessionRows /\ row # None
  BY <1>1, <1>2 DEF SessionRows, SimAssumption
<1>4. /\ ops \in Seq(SimOps) /\ more \in Seq(SimOps) /\ Len(more) = Len(ops) + 1 /\ Len(ops) \in Nat
      /\ DOMAIN more = 1 .. Len(ops) + 1
  BY <1>1 DEF SimInv, SimTypes
<1>5. /\ sessions' = [sessions EXCEPT ![s] = row] /\ accepted' = [accepted EXCEPT ![s] = more]
      /\ working' = [working EXCEPT ![h] = None] /\ snapshots' = snapshots
  BY DEF Simulation!Save
<1>6. /\ sessions'[s] = row /\ accepted'[s] = more
      /\ \A t \in Sims \ {s} : sessions'[t] = sessions[t] /\ accepted'[t] = accepted[t]
  BY <1>1, <1>5 DEF SimInv, SimTypes
<1>7. SimTypes'
  BY <1>3, <1>4, <1>5, Zenon DEF SimInv, SimTypes
<1>8. /\ \A k \in 0 .. Len(ops) : Simulation!Replay(more)[k] = Simulation!Replay(ops)[k]
      /\ Simulation!Replay(more)[Len(more)] =
            Simulation!Apply(Simulation!Replay(ops)[Len(ops)], op)
  <2>1. \A p \in Seq(SimOps) : \A o \in SimOps :
          /\ \A k \in 0 .. Len(p) :
                Simulation!Replay(Append(p, o))[k] = Simulation!Replay(p)[k]
          /\ Simulation!Replay(Append(p, o))[Len(p) + 1] =
                Simulation!Apply(Simulation!Replay(p)[Len(p)], o)
    BY ReplayAppend
  <2> QED
    BY <1>1, <1>4, <2>1
<1>9. SnapshotsOK'
  <2> SUFFICES ASSUME NEW old \in snapshots
               PROVE  sessions'[old.sim] # None /\ WasIn(old.sim, old.token)'
    BY <1>5 DEF SnapshotsOK
  <2>1. old.sim \in Sims /\ sessions[old.sim] # None /\ WasIn(old.sim, old.token)
    BY DEF SimInv, SimTypes, SnapshotsOK
  <2>2. CASE old.sim = s
    <3>1. PICK j \in 0 .. Len(ops) : old.token = Simulation!Replay(ops)[j]
      BY <2>1, <2>2 DEF WasIn
    <3>2. j \in 0 .. Len(more) /\ old.token = Simulation!Replay(more)[j]
      BY <1>4, <1>8, <3>1
    <3> QED
      BY <1>3, <1>6, <2>2, <3>2, Zenon DEF WasIn
  <2>3. CASE old.sim # s
    BY <1>6, <2>1, <2>3 DEF WasIn
  <2> QED
    BY <2>2, <2>3
<1>10. OperationsOK'
  <2> SUFFICES ASSUME NEW g \in Handlers, NEW v, v = working'[g], v # None
               PROVE  OperationHolds(v)'
    BY DEF OperationsOK
  <2>1. v = working[g] /\ v \in OpenOperations
    BY <1>5 DEF SimInv, SimTypes
  <2>2. OperationHolds(v) /\ v.sim \in Sims /\ v.etag \in Nat
    BY <2>1 DEF SimInv, OperationsOK, OpenOperations
  <2>3. CASE v.sim = s
    <3>1. row.version = sessions[s].version + 1 /\ v.etag <= sessions[s].version
      BY <2>2, <2>3 DEF OperationHolds
    <3>2. v.etag <= row.version /\ v.etag # row.version
      BY <1>2, <2>2, <3>1
    <3> QED
      BY <1>3, <1>5, <1>6, <2>2, <2>3, <3>2 DEF OperationHolds
  <2>4. CASE v.sim # s
    BY <1>5, <1>6, <2>2, <2>4 DEF OperationHolds
  <2> QED
    BY <2>3, <2>4
<1>11. \A i \in DOMAIN more : more[i].kind = "restore" =>
          \E j \in 0 .. i - 1 : more[i].to = Simulation!Replay(more)[j]
  <2> SUFFICES ASSUME NEW i \in DOMAIN more, more[i].kind = "restore"
               PROVE  \E j \in 0 .. i - 1 : more[i].to = Simulation!Replay(more)[j]
    BY Zenon
  <2>0. i \in 1 .. Len(ops) + 1
    BY <1>4
  <2>1. CASE i \in 1 .. Len(ops)
    <3>1. more[i] = ops[i] /\ i \in DOMAIN ops
      BY <1>1, <1>4, <2>1
    <3>2. PICK j \in 0 .. i - 1 : ops[i].to = Simulation!Replay(ops)[j]
      BY <1>1, <1>2, <3>1 DEF SimInv, Simulation!SessionIsReplay
    <3>3. j \in 0 .. Len(ops)
      BY <1>4, <2>1
    <3> QED
      BY <1>8, <3>1, <3>2, <3>3, Zenon
  <2>2. CASE i = Len(ops) + 1
    <3>1. more[i] = op /\ i - 1 = Len(ops)
      BY <1>1, <1>4, <2>2
    <3>2. PICK old \in snapshots : old.token = op.to /\ old.sim = s
      BY <1>1, <3>1 DEF OperationHolds
    <3>3. PICK j \in 0 .. Len(ops) : op.to = Simulation!Replay(ops)[j]
      BY <3>2 DEF SimInv, SnapshotsOK, WasIn
    <3> QED
      BY <1>8, <3>1, <3>3
  <2> QED
    BY <1>4, <2>0, <2>1, <2>2
<1>12. row.body = Simulation!Replay(more)[Len(more)]
  <2>1. sessions[s].body = Simulation!Replay(ops)[Len(ops)]
    BY <1>1, <1>2 DEF SimInv, Simulation!SessionIsReplay
  <2> QED
    BY <1>1, <1>8, <2>1 DEF OperationHolds
<1>13. Simulation!SessionIsReplay'
  <2> DEFINE Good(body, ops_) ==
        /\ body = Simulation!Replay(ops_)[Len(ops_)]
        /\ \A i \in DOMAIN ops_ : ops_[i].kind = "restore" =>
             \E j \in 0 .. i - 1 : ops_[i].to = Simulation!Replay(ops_)[j]
  <2>1. Good(row.body, more)
    BY <1>11, <1>12, Zenon
  <2>2. \A t \in Sims : sessions[t] # None => Good(sessions[t].body, accepted[t])
    BY DEF SimInv, Simulation!SessionIsReplay
  <2> HIDE DEF Good
  <2>3. \A t \in Sims : sessions'[t] # None => Good(sessions'[t].body, accepted'[t])
    BY <1>6, <2>1, <2>2, Zenon
  <2> QED
    BY <2>3 DEF Good, Simulation!SessionIsReplay
<1>14. \A t \in Sims : sessions'[t] = None => accepted'[t] = <<>>
  BY <1>3, <1>6 DEF SimInv
<1> QED
  BY <1>7, <1>9, <1>10, <1>13, <1>14 DEF SimInv

LEMMA SimNext ==
    ASSUME SimAssumption, SimInv, [Simulation!Next]_Simulation!vars
    PROVE  SimInv'
<1>1. CASE Simulation!CreateSimulation
  BY <1>1, SimCreate DEF Simulation!CreateSimulation
<1>2. ASSUME NEW h \in Handlers, Simulation!OperateSimulation(h)
      PROVE  SimInv'
  <2>1. CASE \E k \in Keys, s \in Sims : \E op \in Simulation!Operations :
                Simulation!Operate(h, k, s, op)
    BY <2>1, SimOperate DEF SimOps
  <2>2. CASE \E k \in Keys, s \in Sims : \E old \in snapshots :
                Simulation!Operate(h, k, s, [kind |-> "restore", to |-> old.token])
    <3>1. PICK k \in Keys, s \in Sims, old \in snapshots :
             Simulation!Operate(h, k, s, [kind |-> "restore", to |-> old.token])
      BY <2>2
    <3>2. [kind |-> "restore", to |-> old.token] \in SimOps
      BY <3>1 DEF SimInv, SimTypes, SimOps
    <3> QED
      BY <3>1, <3>2, SimOperate
  <2>3. CASE \E s \in Sims : Simulation!Snapshot(s)
    BY <2>3, SimSnapshot
  <2>4. CASE Simulation!Save(h)
    BY <2>4, SimSave
  <2>5. CASE Simulation!Abandon(h)
    BY <2>5, SimHandlerStep, Zenon DEF Simulation!Abandon
  <2> QED
    BY <1>2, <2>1, <2>2, <2>3, <2>4, <2>5 DEF Simulation!OperateSimulation
<1>3. CASE UNCHANGED Simulation!vars
  <2>1. UNCHANGED <<sessions, snapshots, written, working, accepted>>
    BY <1>3 DEF Simulation!vars
  <2> QED
    BY <2>1 DEF SimInv, SimTypes, SnapshotsOK, WasIn, OperationsOK, OperationHolds,
                Simulation!SessionIsReplay
<1> QED
  BY <1>1, <1>2, <1>3 DEF Simulation!Next

\* However handlers load, apply and put, a session is the replay of the operations that
\* were accepted, in the order of their puts, and a restore goes back to a state its own
\* simulation was in (SimulationRepository.operate, _save, _restore).
THEOREM SessionReplays ==
    ASSUME SimAssumption
    PROVE  Simulation!Spec => []Simulation!SessionIsReplay
<1>1. SimInv => Simulation!SessionIsReplay
  BY DEF SimInv
<1> QED
  BY SimInit, SimNext, <1>1, PTL DEF Simulation!Spec
=============================================================================
