----------------------------- MODULE AuditChain -----------------------------
(***************************************************************************)
(* The audit log (packages/observability/audit.py) on PostgreSQL: one hash  *)
(* chain per tenant, appended to by every API process.  A record carries    *)
(* the hash of its predecessor; hashes are distinct ids, since a hash       *)
(* covers the record and its predecessor.                                   *)
(***************************************************************************)
EXTENDS Naturals, Sequences

CONSTANTS
    Connections,  \* API handlers, each on its own database connection
    Tenants,
    MaxRecords,   \* bound on the records of one tenant
    None

VARIABLES
    audit_records,  \* tenant -> its records in the order of their sequence number
    appending       \* connection -> its open transaction, or None

vars == <<audit_records, appending>>

GENESIS == 0

Init ==
    /\ audit_records = [t \in Tenants |-> <<>>]
    /\ appending = [c \in Connections |-> None]

LastHash(t) == IF audit_records[t] = <<>> THEN GENESIS
               ELSE audit_records[t][Len(audit_records[t])].record_hash

\* pg_advisory_xact_lock of the tenant, held to the end of the transaction.
MutantNoLock(t) == FALSE
Locked(t) == \E c \in Connections : appending[c] # None /\ appending[c].tenant = t

\* _append_postgres: lock, then read the last record.
ReadLast(c, t) ==
    /\ appending[c] = None
    /\ ~Locked(t)
    /\ Len(audit_records[t]) < MaxRecords
    /\ appending' = [appending EXCEPT ![c] = [tenant |-> t, previous |-> LastHash(t)]]
    /\ UNCHANGED audit_records

\* INSERT (which draws the sequence number) and COMMIT.
Insert(c) ==
    /\ appending[c] # None
    /\ LET t == appending[c].tenant
       IN audit_records' = [audit_records EXCEPT ![t] =
                              Append(@, [previous_hash |-> appending[c].previous,
                                         record_hash |-> Len(@) + 1])]
    /\ appending' = [appending EXCEPT ![c] = None]

\* The connection breaks: the lock goes with the transaction.
Abort(c) ==
    /\ appending[c] # None
    /\ appending' = [appending EXCEPT ![c] = None]
    /\ UNCHANGED audit_records

Next == \E c \in Connections : (\E t \in Tenants : ReadLast(c, t)) \/ Insert(c) \/ Abort(c)

Spec == Init /\ [][Next]_vars

\* verify_tenant, GET /v1/audit/integrity: each record names the hash of the one before.
VerifyTenant(t) ==
    \A i \in DOMAIN audit_records[t] :
        audit_records[t][i].previous_hash =
            (IF i = 1 THEN GENESIS ELSE audit_records[t][i - 1].record_hash)

-----------------------------------------------------------------------------
\* Properties

\* Type invariant of the log and of the open appends.
TypeOK ==
    /\ \A t \in Tenants : audit_records[t] \in
          Seq([previous_hash : 0 .. MaxRecords, record_hash : 1 .. MaxRecords])
    /\ appending \in [Connections -> [tenant : Tenants, previous : 0 .. MaxRecords] \cup {None}]

\* However the appends of several processes interleave or are lost, the chain of every
\* tenant verifies: no two records claim one predecessor (AuditLog.append, verify_tenant).
ChainVerifies == \A t \in Tenants : VerifyTenant(t)
=============================================================================
