--------------------------- MODULE StoredDocuments ---------------------------
(***************************************************************************)
(* The endpoints of apps/api/main.py that do more with a stored resource   *)
(* than one put: tariffs and their publication, rollback of configuration, *)
(* compute snapshots, optimization runs with their explanation, artifacts  *)
(* with their object.  One resource of each kind; a version number stands  *)
(* for the etag and 0 for no If-Match.                                     *)
(*                                                                         *)
(* store.put is one step here; its transaction and its idempotency keys    *)
(* are in ResourceStore.  A put that replays a key writes nothing.         *)
(***************************************************************************)
EXTENDS Naturals, Sequences, Functions

CONSTANTS
    Handlers,
    Tariffs,    \* what a client may post: [periods, charge]
    Contents,   \* of configurations, artifacts and solver results
    MaxVersion, \* bound: versions of a resource
    MaxFleet,   \* bound: states of the compute cluster
    None

VARIABLES
    kind,       \* the collection that a behaviour uses; they share no state
    docs,       \* kind -> its versions, the last one current
    object,     \* the object the artifact's key holds in the object store
    spoilt,     \* ghost: an artifact request wrote its object and stored no version
    fleet,      \* external: the state of the cluster that snapshots observe
    call        \* handler -> its request, or None

vars == <<kind, docs, object, spoilt, fleet, call>>

Kinds == {"tariff", "admin_config", "compute_snapshot", "optimization_run",
          "explanation", "artifact"}

Version(k) == Len(docs[k])
Current(k) == docs[k][Version(k)]

Init ==
    /\ kind \in Kinds \ {"explanation"}
    /\ docs = [k \in Kinds |-> <<>>]
    /\ object = None /\ spoilt = FALSE
    /\ fleet = 0
    /\ call = [h \in Handlers |-> None]

Idle(h) == call[h] = None
At(h, step) == ~Idle(h) /\ call[h].step = step
Enter(h, c) == call' = [call EXCEPT ![h] = c]
Leave(h) == call' = [call EXCEPT ![h] = None]

\* What a handler is about to put.
Putting(k, body, if_match) ==
    [step |-> "put", kind |-> k, body |-> body, if_match |-> if_match]

\* A client sends an etag it has seen, or none.
IfMatches(k) == 0 .. Version(k)

\* store.put: a resource that exists is replaced only over its current etag.
MutantPutAllowed(k, if_match) == TRUE
PutAllowed(k, if_match) == docs[k] # <<>> => if_match = Version(k)

Put(h) ==
    /\ At(h, "put") /\ PutAllowed(call[h].kind, call[h].if_match)
    /\ docs' = [docs EXCEPT ![call[h].kind] = Append(@, call[h].body)]
    /\ IF call[h].kind = "optimization_run"
       THEN Enter(h, Putting("explanation", call[h].body, 0))
       ELSE Leave(h)
    /\ UNCHANGED <<object, spoilt, fleet>>

\* A repeated run request whose result is the stored one: the put replays, and the
\* explanation follows all the same.
ReplayRun(h) ==
    /\ At(h, "put") /\ call[h].kind = "optimization_run"
    /\ call[h].body \in Range(docs["optimization_run"])
    /\ Enter(h, Putting("explanation", call[h].body, 0))
    /\ UNCHANGED <<docs, object, spoilt, fleet>>

\* The put conflicts or replays, or the handler dies: what it did before stays.
End(h) ==
    /\ ~Idle(h)
    /\ spoilt' = (spoilt \/ (At(h, "put") /\ call[h].kind = "artifact"))
    /\ Leave(h)
    /\ UNCHANGED <<docs, object, fleet>>

\* POST /v1/tariffs: a published tariff is refused; the put comes later.
Published == docs["tariff"] # <<>> /\ Current("tariff").status = "published"

CreateTariff(h, tariff, status, if_match) ==
    /\ Idle(h) /\ ~Published
    /\ Enter(h, Putting("tariff", [tariff |-> tariff, status |-> status], if_match))
    /\ UNCHANGED <<docs, object, spoilt, fleet>>

\* POST /v1/tariffs/{id}/publish reads the tariff before its operation starts, requires
\* If-Match to name what it read, and validates it as a TariffPlan.
ValidTariff(t) == t.periods > 0 /\ t.charge >= 0

PublishTariff(h, if_match) ==
    /\ Idle(h) /\ docs["tariff"] # <<>>
    /\ if_match = Version("tariff")
    /\ ValidTariff(Current("tariff").tariff)
    /\ Enter(h, Putting("tariff", [Current("tariff") EXCEPT !.status = "published"], if_match))
    /\ UNCHANGED <<docs, object, spoilt, fleet>>

\* POST of a plain collection: mutate is the put.
CreateConfig(h, content, if_match) ==
    /\ Idle(h)
    /\ Enter(h, Putting("admin_config", content, if_match))
    /\ UNCHANGED <<docs, object, spoilt, fleet>>

\* POST /v1/admin/config/{id}/rollback puts the body of an earlier version again.
RollbackConfig(h, target, if_match) ==
    /\ Idle(h) /\ docs["admin_config"] # <<>>
    /\ if_match = Version("admin_config")
    /\ target \in DOMAIN docs["admin_config"]
    /\ Enter(h, Putting("admin_config", docs["admin_config"][target], if_match))
    /\ UNCHANGED <<docs, object, spoilt, fleet>>

\* POST /v1/connectors/compute/{id}/sync observes the cluster, and only then reads the etag
\* it is going to replace.
ObserveFleet(h) ==
    /\ Idle(h)
    /\ Enter(h, [step |-> "observed", body |-> fleet])
    /\ UNCHANGED <<docs, object, spoilt, fleet>>

ReadSnapshotEtag(h) ==
    /\ At(h, "observed")
    /\ Enter(h, Putting("compute_snapshot", call[h].body, Version("compute_snapshot")))
    /\ UNCHANGED <<docs, object, spoilt, fleet>>

\* POST /v1/optimization-runs: mutate stores the result, and Put goes on to the
\* explanation, which is put without If-Match.
RunOptimization(h, result, if_match) ==
    /\ Idle(h)
    /\ Enter(h, Putting("optimization_run", result, if_match))
    /\ UNCHANGED <<docs, object, spoilt, fleet>>

\* PUT /v1/artifacts/{key}: the object is replaced before the metadata is put, and
\* before anything looks at If-Match.
BeginArtifact(h, content, if_match) ==
    /\ Idle(h)
    /\ Enter(h, [step |-> "upload", body |-> content, if_match |-> if_match])
    /\ UNCHANGED <<docs, object, spoilt, fleet>>

PutObject(h) ==
    /\ At(h, "upload")
    /\ object' = call[h].body
    /\ Enter(h, Putting("artifact", call[h].body, call[h].if_match))
    /\ UNCHANGED <<docs, spoilt, fleet>>

\* GET /v1/artifacts/{key} returns the object if it has the digest of the metadata.
Readable == object = Current("artifact")

\* External: nodes come, go and change.
FleetChanges ==
    /\ kind = "compute_snapshot"
    /\ fleet < MaxFleet /\ fleet' = fleet + 1
    /\ UNCHANGED <<docs, object, spoilt, call>>

Request(h) ==
    /\ Version(kind) < MaxVersion
    /\ \/ /\ kind = "tariff"
          /\ \E im \in IfMatches(kind) :
               \/ \E t \in Tariffs, s \in {"draft", "published"} : CreateTariff(h, t, s, im)
               \/ PublishTariff(h, im)
       \/ /\ kind = "admin_config"
          /\ \E im \in IfMatches(kind) :
               \/ \E c \in Contents : CreateConfig(h, c, im)
               \/ \E v \in IfMatches(kind) : RollbackConfig(h, v, im)
       \/ /\ kind = "optimization_run"
          /\ \E c \in Contents, im \in IfMatches(kind) : RunOptimization(h, c, im)
       \/ /\ kind = "artifact"
          /\ \E c \in Contents, im \in IfMatches(kind) : BeginArtifact(h, c, im)
       \/ kind = "compute_snapshot" /\ ObserveFleet(h)

Step(h) == ReadSnapshotEtag(h) \/ PutObject(h) \/ Put(h) \/ ReplayRun(h) \/ End(h)

Next ==
    /\ (\E h \in Handlers : Request(h) \/ Step(h)) \/ FleetChanges
    /\ UNCHANGED kind

Spec == Init /\ [][Next]_vars

-----------------------------------------------------------------------------
\* Properties

\* Type invariant of the documents and the requests.
TypeOK ==
    /\ \A v \in Range(docs["tariff"]) : v.tariff \in Tariffs /\ v.status \in {"draft", "published"}
    /\ \A k \in {"admin_config", "optimization_run", "explanation", "artifact"} :
          docs[k] \in Seq(Contents)
    /\ docs["compute_snapshot"] \in Seq(0 .. MaxFleet)
    /\ object \in Contents \cup {None} /\ spoilt \in BOOLEAN /\ fleet \in 0 .. MaxFleet
    /\ \A h \in Handlers : ~Idle(h) => call[h].step \in {"put", "observed", "upload"}

\* "published tariff versions are immutable": a version after a published one has its
\* contents and is published too, although the check and the put are two steps.
PublishedIsFrozen ==
    \A i, j \in DOMAIN docs["tariff"] :
        i < j /\ docs["tariff"][i].status = "published" => docs["tariff"][j] = docs["tariff"][i]

\* An explanation explains a result that was stored, if not the latest.
ExplanationsAreBacked ==
    Range(docs["explanation"]) \subseteq Range(docs["optimization_run"])

\* GET /v1/artifacts finds the object its metadata describes, when no put is under way and
\* none wrote its object without a version: two overlapping puts are never both accepted.
ArtifactsAreReadable ==
    docs["artifact"] # <<>> /\ ~spoilt
      /\ (\A h \in Handlers : At(h, "put") => call[h].kind # "artifact")
        => Readable

\* The writes that the endpoints accepted keep their meaning under races and crashes.
AcceptedWritesHold == PublishedIsFrozen /\ ExplanationsAreBacked /\ ArtifactsAreReadable
=============================================================================
