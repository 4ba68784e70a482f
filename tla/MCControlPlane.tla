--------------------------- MODULE MCControlPlane ---------------------------
(***************************************************************************)
(* Small instances, for TLC, of the components that keep their own tables  *)
(* or files and are reached through the API one request at a time: the     *)
(* release gates, quotas, the audit log, the topology, policies, models,   *)
(* telemetry, MPC, simulations, documents and authentication.  They share  *)
(* no state, so a behaviour exercises one of them, chosen at the start,    *)
(* and all of its own interleavings.                                       *)
(***************************************************************************)
EXTENDS MCRelease

CONSTANTS
    Actors,     \* API handlers or their database connections
    Things,     \* tenants or simulations
    Names       \* idempotency keys or certified results

VARIABLES
    which,
    repo, calls, overlapped, acknowledged,
    head, request, evidence, suite, suiteUpsets,
    ledger, reservations, conn, admitted,
    audit_records, appending,
    topology_drafts, topology_versions, drafting, answers, raced,
    policy_versions, publishing,
    model_versions, clock, changing, history,
    raw_events, timeseries_points, offset, breaker, sync, synced,
    controller, cycles, stateKey, handler,
    sessions, snapshots, written, working, accepted,
    kind, docs, object, spoilt, fleet, serving,
    authClock, settings, jwks, seen, entry, call

repositoryVars == <<repo, calls, overlapped, acknowledged>>
suiteVars == <<head, request, evidence, suite, suiteUpsets>>
quotaVars == <<ledger, reservations, conn, admitted>>
auditVars == <<audit_records, appending>>
topologyVars == <<topology_drafts, topology_versions, drafting, answers, raced>>
policyVars == <<policy_versions, publishing>>
modelVars == <<model_versions, clock, changing, history>>
telemetryVars == <<raw_events, timeseries_points, offset, breaker, sync, synced>>
mpcVars == <<controller, cycles, stateKey, handler>>
simulationVars == <<sessions, snapshots, written, working, accepted>>
documentVars == <<kind, docs, object, spoilt, fleet, serving>>
authVars == <<authClock, settings, jwks, seen, entry, call>>
allVars == <<which, vars, repositoryVars, suiteVars, quotaVars, auditVars, topologyVars,
          policyVars, modelVars, telemetryVars, mpcVars, simulationVars,
          documentVars, authVars>>

(***************************************************************************)
(* The certification repository and the gate suite.                        *)
(***************************************************************************)
\* Two results that can be published and one that cannot.
Lifecycle == INSTANCE CertificationRepository WITH
    Processes <- Actors, Results <- Names \cup {"not certified"}, Certified <- Names,
    MaxEvents <- 2

\* Two requests for one commit and one for another.
Suite == INSTANCE GateSuite WITH
    Revisions <- {"c1", "c2"}, MaxUpsets <- 2, upsets <- suiteUpsets,
    RequestRevision <- [q1 |-> "c1", q2 |-> "c1", q3 |-> "c2"]

(***************************************************************************)
(* Workloads, audit, topology, policies, models.                           *)
(***************************************************************************)
\* The key of the first is used again for a larger demand.
AdmissionJob(key, gpus, hours, deadline, sites, online) ==
    [key |-> key, gpus |-> gpus, hours |-> hours, deadline |-> deadline, sites |-> sites,
     online |-> online]
MCJobs ==
    [j1 |-> AdmissionJob(1, 1, 2, 4, {}, FALSE), j2 |-> AdmissionJob(2, 2, 1, 4, {"s1"}, FALSE),
     j3 |-> AdmissionJob(3, 1, 1, 1, {}, TRUE), j4 |-> AdmissionJob(1, 2, 2, 4, {}, FALSE)]

\* A site each, and a state too old to admit anything.  The endpoint builds its snapshot
\* without reservations, so no GPU is protected.
MCSnapshots ==
    {[age |-> 0, nodes |-> {[site |-> "s1", gpus |-> 2]}, protected |-> 0],
     [age |-> 0, nodes |-> {[site |-> "s2", gpus |-> 2]}, protected |-> 0],
     [age |-> 6, nodes |-> {[site |-> "s1", gpus |-> 2]}, protected |-> 0]}

MCQuotas ==
    {[gpus |-> 2, hours |-> 3, jobs |-> 2], [gpus |-> 3, hours |-> 5, jobs |-> 2],
     [gpus |-> 1, hours |-> 1, jobs |-> 1]}

Quota == INSTANCE QuotaLedger WITH
    Connections <- Actors, Jobs <- MCJobs, Snapshots <- MCSnapshots, Quotas <- MCQuotas

Audit == INSTANCE AuditChain WITH
    Connections <- Actors, Tenants <- Things, MaxRecords <- 3

\* A tree, a cycle, a repeated id, too small a parent, a parent without a limit
\* and an unknown child.
Asset(i, c) == [id |-> i, capacity |-> c]
Graph(assets, relationships) == [assets |-> assets, relationships |-> relationships]
Unlimited == Graph(<<Asset("a", 0), Asset("b", 2)>>, <<<<"a", "b">>>>)
MCGraphs ==
    {Graph(<<Asset("a", 2), Asset("b", 1)>>, <<<<"a", "b">>>>),
     Graph(<<Asset("a", 2), Asset("b", 1)>>, <<<<"a", "b">>, <<"b", "a">>>>),
     Graph(<<Asset("a", 2), Asset("a", 1)>>, <<>>),
     Graph(<<Asset("a", 1), Asset("b", 2)>>, <<<<"a", "b">>>>),
     Unlimited,
     Graph(<<Asset("a", 1)>>, <<<<"a", "b">>>>)}

Topology == INSTANCE TopologyRegistry WITH
    Connections <- Actors, Graphs <- MCGraphs,
    InitialDrafts <- {None, [revision |-> 1, graph |-> Unlimited]},
    MaxRevision <- 4, MaxPublished <- 2

Rule(id, version, sites, operator, value, priority, hard) ==
    [id |-> id, version |-> version, sites |-> sites, priority |-> priority, hard |-> hard,
     rule |-> [field |-> "mode", operator |-> operator, value |-> value]]
MCRules ==
    {Rule("p", 1, {"s1"}, "eq", 1, 1, TRUE), Rule("p", 2, {"s1", "s2"}, "eq", 2, 1, TRUE),
     Rule("q", 1, {"s2"}, "eq", 1, 1, FALSE), Rule("q", 1, {"s1", "s2"}, "lte", 1, 1, TRUE),
     Rule("r", 1, {}, "eq", 2, 1, TRUE), Rule("r", 2, {"s1"}, "eq", 2, 2, FALSE)}

Policy == INSTANCE PolicyEngine WITH
    Connections <- Actors, Policies <- MCRules, Sites <- {"s1", "s2"},
    Values <- 0..2, RoleSets <- {{"safety_admin"}, {"operator"}}

Models == INSTANCE ModelRegistry WITH
    Connections <- Actors, Versions <- {"m1", "m2", "m3"}, MaxChanges <- 4

(***************************************************************************)
(* Telemetry, control and simulation.                                      *)
(***************************************************************************)
\* Two readings of one instant that agree, and one id used for two instants.
Interval(id, t, v, unit) == [id |-> id, timestamp |-> t, value |-> v, unit |-> unit]
MCIntervals ==
    {Interval("e1", 0, 1, "kW"), Interval("e2", 0, 1000, "W"), Interval("e2", 1, 1, "kW")}

Telemetry == INSTANCE TelemetryIngestion WITH
    Handlers <- Actors, Intervals <- MCIntervals, Starts <- {0, 1}, MaxEnd <- 2,
    FailureThreshold <- 2

Run(job, slots) == [job |-> job, slots |-> slots]
MCPlans ==
    {{Run("j1", {0, 1}), Run("j2", {2})},
     {Run("j1", {0, 1}), Run("j2", {1, 2}), Run("j3", {2})},
     {Run("j1", {1})}}

Mpc == INSTANCE MpcControl WITH
    Handlers <- Actors, Plans <- MCPlans,
    Requests <- [k1 |-> {0, 1}, k2 |-> {1, 2}, k3 |-> {2}, k4 |-> {}]

Simulation == INSTANCE SimulationSession WITH
    Handlers <- Actors, Sims <- Things, Keys <- Names, Faults <- {"none", "pv"},
    TotalSteps <- 2

(***************************************************************************)
(* Documents and authentication.                                           *)
(***************************************************************************)
\* Two tariffs that can be published and one that cannot.
MCTariffs ==
    {[periods |-> 1, charge |-> 0], [periods |-> 2, charge |-> 1], [periods |-> 0, charge |-> 0]}

Documents == INSTANCE StoredDocuments WITH
    Handlers <- Actors, Tariffs <- MCTariffs, Contents <- Names, MaxVersion <- 3,
    MaxFleet <- 2, call <- serving

\* A production process, a test process, and two that do not start.
Configuration(environment, mode, broken) ==
    [environment |-> environment, auth_mode |-> mode, memory |-> environment = "test",
     writes |-> FALSE, broken |-> broken]
MCConfigurations ==
    {Configuration("production", "oidc", {}),
     Configuration("test", "trusted_headers", {"database tls"}),
     Configuration("production", "trusted_headers", {}),
     Configuration("production", "oidc", {"oidc https"})}

\* One key id is published for two keys in turn.
MCSigningKeys ==
    {[kid |-> 1, alg |-> "RS256"], [kid |-> 2, alg |-> "ES256"], [kid |-> 1, alg |-> "HS256"]}

\* A user, and a service account with a token that expires.
BearerToken(kid, alg, exp, service) ==
    [kid |-> kid, alg |-> alg, signed |-> TRUE, exp |-> exp, claims |-> TRUE,
     service |-> service, bound |-> "cert", tenant |-> "t1", roles |-> {"operator"}]
ApiRequest(token, tenant, endpoint) ==
    [token |-> token, direct |-> None, proxy |-> TRUE, forwarded |-> "cert",
     tenant |-> tenant, roles |-> {"operator"}, kind |-> endpoint]
MCRequests ==
    {ApiRequest(BearerToken(1, "RS256", 9, FALSE), None, "write"),
     ApiRequest(BearerToken(2, "ES256", 1, TRUE), "t1", "execute")}

Auth == INSTANCE Authentication WITH
    Handlers <- Actors, Configurations <- MCConfigurations, SigningKeys <- MCSigningKeys,
    Requests <- MCRequests, Ttl <- 2, MaxTime <- 2, now <- authClock,
    published <- jwks

(***************************************************************************)
(* One component at a time; the others' variables have no value.           *)
(***************************************************************************)
MCInit ==
    /\ which \in {"certification", "repository", "suite", "quota", "audit", "topology", "policy",
                  "models", "telemetry", "mpc", "simulation", "documents", "auth"}
    /\ IF which = "certification" THEN Init
       ELSE /\ now = 0 /\ artifact = 0 /\ upsets = 0 /\ worktree = None
            /\ requests = <<>> /\ files = None /\ generation = None
            /\ evals = {} /\ saved = {} /\ published = {}
    /\ IF which = "repository" THEN Lifecycle!Init
       ELSE repo = None /\ calls = None /\ overlapped = None /\ acknowledged = None
    /\ IF which = "suite" THEN Suite!Init
       ELSE /\ head = None /\ request = None /\ evidence = None /\ suite = None
            /\ suiteUpsets = None
    /\ IF which = "quota" THEN Quota!Init
       ELSE ledger = None /\ reservations = None /\ conn = None /\ admitted = None
    /\ IF which = "audit" THEN Audit!Init
       ELSE audit_records = None /\ appending = None
    /\ IF which = "topology" THEN Topology!Init
       ELSE /\ topology_drafts = None /\ topology_versions = None /\ drafting = None
            /\ answers = None /\ raced = None
    /\ IF which = "policy" THEN Policy!Init
       ELSE policy_versions = None /\ publishing = None
    /\ IF which = "models" THEN Models!Init
       ELSE /\ model_versions = None /\ clock = None /\ changing = None
            /\ history = None
    /\ IF which = "telemetry" THEN Telemetry!Init
       ELSE /\ raw_events = None /\ timeseries_points = None /\ offset = None
            /\ breaker = None /\ sync = None /\ synced = None
    /\ IF which = "mpc" THEN Mpc!Init
       ELSE /\ controller = None /\ cycles = None /\ stateKey = None
            /\ handler = None
    /\ IF which = "simulation" THEN Simulation!Init
       ELSE /\ sessions = None /\ snapshots = None /\ written = None
            /\ working = None /\ accepted = None
    /\ IF which = "documents" THEN Documents!Init
       ELSE /\ kind = None /\ docs = None /\ object = None /\ spoilt = None
            /\ fleet = None /\ serving = None
    /\ IF which = "auth" THEN Auth!Init
       ELSE /\ authClock = None /\ settings = None /\ jwks = None /\ seen = None
            /\ entry = None /\ call = None

Only(c) ==
    /\ which = c /\ UNCHANGED which
    /\ c # "certification" => UNCHANGED vars
    /\ c # "repository" => UNCHANGED repositoryVars
    /\ c # "suite" => UNCHANGED suiteVars
    /\ c # "quota" => UNCHANGED quotaVars
    /\ c # "audit" => UNCHANGED auditVars
    /\ c # "topology" => UNCHANGED topologyVars
    /\ c # "policy" => UNCHANGED policyVars
    /\ c # "models" => UNCHANGED modelVars
    /\ c # "telemetry" => UNCHANGED telemetryVars
    /\ c # "mpc" => UNCHANGED mpcVars
    /\ c # "simulation" => UNCHANGED simulationVars
    /\ c # "documents" => UNCHANGED documentVars
    /\ c # "auth" => UNCHANGED authVars

MCNext ==
    \/ Only("certification") /\ Next
    \/ Only("repository") /\ Lifecycle!Next
    \/ Only("suite") /\ Suite!Next
    \/ Only("quota") /\ Quota!Next
    \/ Only("audit") /\ Audit!Next
    \/ Only("topology") /\ Topology!Next
    \/ Only("policy") /\ Policy!Next
    \/ Only("models") /\ Models!Next
    \/ Only("telemetry") /\ Telemetry!Next
    \/ Only("mpc") /\ Mpc!Next
    \/ Only("simulation") /\ Simulation!Next
    \/ Only("documents") /\ Documents!Next
    \/ Only("auth") /\ Auth!Next

MCSpec == MCInit /\ [][MCNext]_allVars

\* Nothing distinguishes two members of one of these sets; commits, tenants and
\* simulations are the same model values.
MCSymmetries == Permutations(Actors) \cup Permutations(Things) \cup Permutations(Names)

(***************************************************************************)
(* Properties.                                                             *)
(***************************************************************************)
\* The tables, files and requests of every component have their types.
TypesOK ==
    CASE which = "certification" -> TypeOK
      [] which = "repository" -> Lifecycle!TypeOK
      [] which = "suite" -> Suite!TypeOK
      [] which = "quota" -> Quota!TypeOK
      [] which = "audit" -> Audit!TypeOK
      [] which = "topology" -> Topology!TypeOK
      [] which = "policy" -> Policy!TypeOK
      [] which = "models" -> Models!TypeOK
      [] which = "telemetry" -> Telemetry!TypeOK
      [] which = "mpc" -> Mpc!TypeOK
      [] which = "simulation" -> Simulation!TypeOK
      [] which = "documents" -> Documents!TypeOK
      [] which = "auth" -> Auth!TypeOK

\* CertificationRepository: unless two save_run calls overlapped, the saved run, the
\* certificate and the revocation stay what they are, whichever publications and revocations
\* race or die (CertificationRepository.save_run, publish, revoke).
LifecycleIsFinal == [][which = "repository" => Lifecycle!KeepsLifecycle]_allVars

\* GateSuite: a suite that reports PASS saw every gate pass for the one request it started
\* with, though requests rotate and commits change between its steps
\* (run_external_gate_suite, _verified_pass).
SuitePassIsBound == which = "suite" => Suite!SuitePassIsBound

\* QuotaLedger: the used quota is the sum of the open reservations and within the limits,
\* whichever reserves, releases and reconfigurations race (QuotaLedger.reserve, release).
LedgerIsBacked == which = "quota" => Quota!LedgerIsBacked

\* AuditChain: the hash chain of every tenant verifies, however appends of several
\* processes interleave or break off (AuditLog._append_postgres, verify_tenant).
ChainVerifies == which = "audit" => Audit!ChainVerifies

\* TopologyRegistry: what is published is what the publisher had been given, except after
\* two first drafts raced, and has no cycle (create_draft, publish, validate_graph).
PublishedWasReviewed == which = "topology" => Topology!PublishedWasReviewed

\* PolicyEngine: the equality policies that name a site at one priority can all be satisfied,
\* also when two conflicting ones are published at once (_validate_against, publish).
EqualPrioritiesAgree == which = "policy" => Policy!EqualPrioritiesAgree

\* ModelRegistry: a rollback restores the version that was in production before, when the
\* changes took the lock in the order they started (promote, rollback).
RollbackRestores == which = "models" => Models!RollbackRestores

\* TelemetryIngestion: a window the meter answered whole is committed without a hole,
\* although syncs overlap, fail or die (sync_connector, ingest).
SyncedIsStored == which = "telemetry" => Telemetry!SyncedIsStored

\* MpcControl: an interval is executed by one recorded cycle at most, whichever replicas
\* race or die between the two puts (MpcController.cycle, MpcRepository.cycle).
IntervalsExecuteOnce == which = "mpc" => Mpc!IntervalsExecuteOnce

\* SimulationSession: a session is the replay of the operations that were accepted, in
\* order, and a restore returns to a state this simulation was in (operate, _restore).
SessionIsReplay == which = "simulation" => Simulation!SessionIsReplay

\* StoredDocuments: a published tariff keeps its contents, an explanation explains a stored
\* run and an artifact stays readable, whichever requests race or die (publish_tariff,
\* create_optimization_run, put_artifact).
AcceptedWritesHold == which = "documents" => Documents!AcceptedWritesHold

\* Authentication: a withdrawn signing key opens no endpoint after its time to live, and
\* outside test and simulator nothing but a signed token does (JwksCache.get, validate).
WithdrawnKeysExpire == which = "auth" => Auth!WithdrawnKeysExpire
=============================================================================
