---------------------------- MODULE ResourceStore ----------------------------
(***************************************************************************)
(* PostgresResourceStore.put of apps/api/store.py with the tables resources, *)
(* resource_versions and idempotency_records.                                *)
(*                                                                          *)
(* A put is one READ COMMITTED transaction.  It is modelled in two steps:    *)
(* its reads, which lock the rows they find until it ends, and its writes    *)
(* with the commit, which the primary keys may refuse.  A row that is not    *)
(* there cannot be locked: two first puts of a resource both get past the    *)
(* reads.  The etag of a resource digests its version and body; as a version *)
(* has one body, the version stands for the etag, and 0 for no If-Match.     *)
(***************************************************************************)
EXTENDS Naturals, FiniteSets

CONSTANTS
    Transactions,   \* connections
    Resources,      \* resource ids of one tenant and kind
    Keys,           \* idempotency keys
    Bodies,
    MaxVersion,     \* bound: versions of a resource
    None            \* no row

ASSUME ResourceStoreAssumption == MaxVersion \in Nat

VARIABLES
    resources,          \* id -> [version, body] or None
    resource_versions,  \* rows of the history; base is a ghost, the If-Match of the put
    idempotency_records,\* key -> the request and response of a put, or None
    tx                  \* connection -> its open put, or None

svars == <<resources, resource_versions, idempotency_records, tx>>

Puts == [key : Keys, id : Resources, body : Bodies, if_match : 0 .. MaxVersion]
Hash(put) == [id |-> put.id, body |-> put.body]
VersionRows == [id : Resources, version : 1 .. MaxVersion, body : Bodies, key : Keys,
                base : 0 .. MaxVersion]
Records == [request : [id : Resources, body : Bodies], version : 1 .. MaxVersion, live : BOOLEAN]
ResourceRows == [version : 1 .. MaxVersion, body : Bodies]
OpenPuts == [put : Puts, version : 1 .. MaxVersion, deletes : BOOLEAN]

ASSUME NoneIsNoRow == None \notin ResourceRows /\ None \notin Records /\ None \notin OpenPuts

Version(r) == IF resources[r] = None THEN 0 ELSE resources[r].version
Open(c) == tx[c] # None

Init ==
    /\ resources = [r \in Resources |-> None]
    /\ resource_versions = {}
    /\ idempotency_records = [k \in Keys |-> None]
    /\ tx = [c \in Transactions |-> None]

\* Row locks of the open transactions: the resource row they read, and the record
\* they found expired and deleted.
MutantNoRowLock(r) == FALSE
Locked(r) == \E c \in Transactions : Open(c) /\ tx[c].put.id = r /\ tx[c].version > 1
KeyLocked(k) == \E c \in Transactions : Open(c) /\ tx[c].put.key = k /\ tx[c].deletes

\* DELETE of an expired record, then SELECT ... FOR UPDATE: a live record is replayed
\* or refused, and either way the transaction ends without a write.
Live(k) == idempotency_records[k] # None /\ idempotency_records[k].live

\* SELECT of the resource FOR UPDATE and the If-Match check.
MutantMatchAnything(put) == TRUE
Matches(put) == resources[put.id] # None => put.if_match = Version(put.id)

Read(c, put) ==
    /\ ~Open(c)
    /\ ~KeyLocked(put.key) /\ ~Live(put.key)
    /\ resources[put.id] # None => ~Locked(put.id)
    /\ Matches(put)
    /\ Version(put.id) < MaxVersion
    /\ tx' = [tx EXCEPT ![c] = [put |-> put, version |-> Version(put.id) + 1,
                                deletes |-> idempotency_records[put.key] # None]]
    /\ UNCHANGED <<resources, resource_versions, idempotency_records>>

\* The primary keys of resource_versions and idempotency_records.
MutantNoVersionKey(c) == FALSE
VersionTaken(c) ==
    \E row \in resource_versions : row.id = tx[c].put.id /\ row.version = tx[c].version
MutantNoRecordKey(c) == FALSE
KeyTaken(c) == idempotency_records[tx[c].put.key] # None /\ ~tx[c].deletes

\* INSERT ... ON CONFLICT DO UPDATE, the two INSERTs, COMMIT.
WithVersion(c) ==
    resource_versions \cup {[id |-> tx[c].put.id, version |-> tx[c].version,
                             body |-> tx[c].put.body, key |-> tx[c].put.key,
                             base |-> tx[c].put.if_match]}

Commit(c) ==
    LET put == tx[c].put
    IN /\ Open(c)
       /\ ~VersionTaken(c) /\ ~KeyTaken(c)
       /\ resources' = [resources EXCEPT ![put.id] = [version |-> tx[c].version, body |-> put.body]]
       /\ resource_versions' = WithVersion(c)
       /\ idempotency_records' = [idempotency_records EXCEPT ![put.key] =
                                    [request |-> Hash(put), version |-> tx[c].version, live |-> TRUE]]
       /\ tx' = [tx EXCEPT ![c] = None]

\* A unique violation, a lost connection or a crash rolls everything back.
Abort(c) ==
    /\ Open(c)
    /\ tx' = [tx EXCEPT ![c] = None]
    /\ UNCHANGED <<resources, resource_versions, idempotency_records>>

\* expires_at of a record passes (24 hours after the put).
RecordExpires(k) ==
    /\ Live(k)
    /\ idempotency_records' = [idempotency_records EXCEPT ![k].live = FALSE]
    /\ UNCHANGED <<resources, resource_versions, tx>>

\* A client sends an etag it has seen, or none.
Next ==
    \/ \E c \in Transactions, k \in Keys, r \in Resources, b \in Bodies :
         \E im \in 0 .. Version(r) :
            Read(c, [key |-> k, id |-> r, body |-> b, if_match |-> im])
    \/ \E c \in Transactions : Commit(c) \/ Abort(c)
    \/ \E k \in Keys : RecordExpires(k)

Spec == Init /\ [][Next]_svars

-----------------------------------------------------------------------------
\* Properties

\* Type invariant; no two open transactions hold the lock of one resource row.
TypeOK ==
    /\ resources \in [Resources -> ResourceRows \cup {None}]
    /\ resource_versions \subseteq VersionRows
    /\ idempotency_records \in [Keys -> Records \cup {None}]
    /\ tx \in [Transactions -> OpenPuts \cup {None}]
    /\ \A c, d \in Transactions :
         Open(c) /\ Open(d) /\ c # d /\ tx[c].put.id = tx[d].put.id =>
            tx[c].version = 1 \/ tx[d].version = 1

\* The history of a resource has each version from 1 to the current one exactly once,
\* and the current row is its last entry, although two first puts race past the reads.
HistoryIsComplete ==
    \A r \in Resources :
        /\ \A v \in 1 .. MaxVersion :
             Cardinality({row \in resource_versions : row.id = r /\ row.version = v})
                = (IF v <= Version(r) THEN 1 ELSE 0)
        /\ resources[r] # None =>
             \E row \in resource_versions :
                row.id = r /\ row.version = resources[r].version /\ row.body = resources[r].body

\* No lost update: every version but the first replaced the version its client had
\* named in If-Match, so of two clients with one etag at most one succeeds.
NoLostUpdate ==
    \A row \in resource_versions : row.version > 1 => row.base = row.version - 1

\* A request takes effect at most once, also when it is retried under its key after
\* the record of the first attempt expired.
RequestAppliedOnce ==
    \A row, other \in resource_versions :
        (row.id = other.id /\ row.key = other.key /\ row.body = other.body /\ row.base = other.base)
            => row = other

\* Every put that commits is an atomic compare-and-set: it replaces the version its
\* client named, adds the next one to the history, and takes a key that has no live
\* answer; a read or a rollback changes nothing that other connections see.
Register == INSTANCE ResourceRegister
              WITH register <- resources, history <- resource_versions,
                   records <- idempotency_records, Absent <- None

ImplementsRegister == Register!Spec
=============================================================================
