--------------------------- MODULE ReleaseEvidence ---------------------------
(***************************************************************************)
(* The evidence a release is certified on: what each gate checks before it *)
(* reports PASS, and how a bundle of signed attestations is judged.  These *)
(* are the pure parts of packages/certification and packages/dr; the files *)
(* they read and write are in ReleaseCertification.                        *)
(*                                                                         *)
(* A digest is represented by what it is the digest of.  A gate that runs  *)
(* probes one after the other and fails on the first that does not hold is *)
(* represented by the set of conditions it insists on.                     *)
(***************************************************************************)
EXTENDS Naturals, FiniteSets

CONSTANTS
    None,           \* no file, no document, no token
    Revisions,      \* immutable Git commits
    Loose           \* the revision of a worktree that is no clean commit

(***************************************************************************)
(* Statuses.                                                               *)
(***************************************************************************)
\* One FAIL fails a report; it passes only when every check passed.
Overall(statuses) ==
    IF "FAIL" \in statuses THEN "FAIL"
    ELSE IF statuses = {"PASS"} THEN "PASS" ELSE "NOT_RUN"

\* A check that is not configured is not run; any condition that does not
\* hold raises, and the check reports FAIL.
CheckStatus(conditions, configured, broken) ==
    IF ~configured THEN "NOT_RUN"
    ELSE IF conditions \cap broken = {} THEN "PASS" ELSE "FAIL"

(***************************************************************************)
(* Requests for external evidence.                                         *)
(***************************************************************************)
\* The external gates whose contracts a request has to carry, each required.
REQUIRED_EXTERNAL_GATES ==
    {"oidc", "kubernetes", "slurm", "meter", "ems", "production_load",
     "penetration_test", "postgres_restore", "object_restore",
     "product_owner", "security_owner", "operations_owner"}

\* A request can be created for these arguments.
RequestAllowed(revision, life, maxLife, required) ==
    /\ revision \in Revisions
    /\ 0 < life /\ life <= maxLife
    /\ REQUIRED_EXTERNAL_GATES \subseteq required

\* The request is in force: its digest is intact by representation.
RequestInForce(request, maxLife, t) ==
    /\ request.issued <= t /\ t < request.expires
    /\ 0 < request.expires - request.issued
    /\ request.expires - request.issued <= maxLife

(***************************************************************************)
(* What the external gates insist on.                                      *)
(***************************************************************************)
OidcConditions ==
    {"oidc https", "oidc discovery", "oidc token", "oidc tenant", "oidc roles"}

ComputeConditions ==
    {"adapter read-only", "adapter credentials", "nodes found", "node tenant"}

MeterConditions ==
    {"meter credentials", "meter samples", "meter tenant"}

EmsConditions ==
    {"ems client pair", "ems target", "ems https", "ems dry run"}

AcceptanceChecks ==
    [oidc |-> OidcConditions, kubernetes |-> ComputeConditions,
     slurm |-> ComputeConditions, meter |-> MeterConditions,
     ems |-> EmsConditions]

\* The report of the acceptance run against the external systems.
AcceptanceStatus(configured, broken) ==
    Overall({CheckStatus(AcceptanceChecks[c], c \in configured, broken) :
                c \in DOMAIN AcceptanceChecks})

\* The restore target is another, empty database of the approved name; dump
\* and restore succeed and the row counts of all tables agree.
PostgresRestoreConditions ==
    {"isolated database", "empty database", "pg tools", "dump", "restore",
     "fingerprint"}

\* The objects go to another, versioned bucket under a fresh prefix, bounded
\* in number, and every one reads back with the digest it was written with.
ObjectRestoreConditions ==
    {"isolated bucket", "buckets exist", "versioning", "object bound",
     "objects exist", "fresh keys", "object digests"}

\* Recovery took no longer than the approved objective.
RecoveryConditions == {"recovery time"}

RestoreChecks ==
    [postgres |-> PostgresRestoreConditions \cup RecoveryConditions,
     object_store |-> ObjectRestoreConditions \cup RecoveryConditions]

RestoreStatus(configured, broken) ==
    Overall({CheckStatus(RestoreChecks[c], c \in configured, broken) :
                c \in DOMAIN RestoreChecks})

\* The targets are the ones the request approved; the run refuses otherwise.
RestoreContractConditions ==
    {"both targets", "source database", "restore database", "buckets and prefixes"}

\* The load contract: the run refuses a target or thresholds it does not cover.
LoadContractConditions ==
    {"approved target", "minimum requests", "minimum concurrency",
     "latency limits", "error limit"}

LoadGateConditions == {"error rate", "p95", "p99", "release named"}

LoadStatus(broken) ==
    IF LoadGateConditions \cap broken = {} THEN "PASS" ELSE "FAIL"

(***************************************************************************)
(* What the local evidence insists on.                                     *)
(***************************************************************************)
\* A build that timed out or could not reach the registry was not run; any
\* other one that did not succeed failed.
ClassifyFailure(timedOut, unreachable) ==
    IF timedOut \/ unreachable THEN "NOT_RUN" ELSE "FAIL"

BuildAttempt(succeeded, timedOut, unreachable) ==
    IF succeeded /\ ~timedOut THEN "PASS" ELSE ClassifyFailure(timedOut, unreachable)

\* The mirror is tried only when the registry could not be reached at all; a
\* build that fails is not tried again.
BuildImages(direct, mirror) == IF direct = "NOT_RUN" THEN mirror ELSE direct

ImageConditions == {"docker daemon", "image id"}

\* The container, started without network and privileges, imports the API as
\* a user other than root.
SmokeConditions ==
    {"container starts", "not root", "api paths", "solver available", "web files"}

ContainerConditions == ImageConditions \cup SmokeConditions

ContractConditions == {"schema catalog", "openapi paths"}

\* Ten scenarios and 150 episodes, none with a hard or an SLA violation.
ScenarioConditions == {"scenario count", "scenario violations"}
EpisodeConditions == {"episode count", "episode violations"}

LocalConditions ==
    [container |-> ContainerConditions, contracts |-> ContractConditions,
     summary |-> ScenarioConditions, episodes |-> EpisodeConditions]

\* The parts of the local evidence that do not pass.
LocalBroken(direct, mirror, broken) ==
    {p \in DOMAIN LocalConditions : LocalConditions[p] \cap broken # {}}
        \cup (IF BuildImages(direct, mirror) = "PASS" THEN {} ELSE {"container"})

\* The file is there, is a JSON object and holds no placeholder.
ConfigConditions ==
    {"config exists", "config parses", "config object", "config placeholders"}

\* An endpoint is https, without credentials, and on no local host or address.
EndpointConditions ==
    {"endpoint placeholders", "endpoint https", "endpoint host", "endpoint address"}

DockerConditions == {"docker cli", "docker probe", "docker daemon"}

PreflightChecks ==
    [immutable_source |-> {"immutable source"}, disk_capacity |-> {"disk reserve"},
     required_tools |-> {"required tools"}, docker_daemon |-> DockerConditions,
     image_pins |-> {"images listed", "image digests"},
     production_configs |-> {"configs listed"} \cup ConfigConditions,
     production_endpoints |-> {"endpoints listed"} \cup EndpointConditions,
     credentials |-> {"credentials listed", "credentials resolve"}]

\* The local prerequisites.  The daemon is probed only when the configuration
\* says so; nothing else is optional, and there is no NOT_RUN.
PreflightStatus(probeDocker, broken) ==
    LET checks == IF probeDocker THEN DOMAIN PreflightChecks
                  ELSE (DOMAIN PreflightChecks) \ {"docker_daemon"}
    IN  Overall({CheckStatus(PreflightChecks[c], TRUE, broken) : c \in checks})

(***************************************************************************)
(* Signed attestations.                                                    *)
(***************************************************************************)
HUMAN_ROLES == {"product_owner", "security_owner", "operations_owner"}
AttestationSlots == HUMAN_ROLES \cup {"penetration_test"}

\* jwt.decode accepts a token this long after it expired.
Leeway == 1

MutantVerifyAttestation(token, kind, request, artifact, approved, t) ==
    IF token = None THEN "NOT_RUN"
    ELSE IF /\ t < token.exp + Leeway
            /\ token.kind = kind
            /\ token.request = request.digest
            /\ token.artifact = artifact
            /\ token.sub \in approved
            /\ kind = "penetration_test" => token.findings = 0
         THEN "PASS" ELSE "FAIL"

\* A token names its request, so it names release, revision and requester too.
\* A vote is signed by the person it records.
VerifyAttestation(token, kind, request, artifact, approved, t) ==
    IF token = None THEN "NOT_RUN"
    ELSE IF /\ t < token.exp + Leeway
            /\ token.kind = kind
            /\ token.request = request.digest
            /\ token.artifact = artifact
            /\ token.sub \in approved
            /\ token.sub # request.requester
            /\ kind = "penetration_test" => token.findings = 0
            /\ kind = "human_acceptance_vote" => token.role \in HUMAN_ROLES
         THEN "PASS" ELSE "FAIL"

\* One vote of every owner role, by different people.
HumanAcceptance(bundle, request, artifact, policy, t) ==
    IF \A r \in HUMAN_ROLES : bundle[r] = None THEN "NOT_RUN"
    ELSE IF /\ \A r \in HUMAN_ROLES :
                /\ VerifyAttestation(bundle[r], "human_acceptance_vote", request,
                                     artifact, policy[r], t) = "PASS"
                /\ bundle[r].role = r
            /\ \A r, s \in HUMAN_ROLES : r # s => bundle[r].sub # bundle[s].sub
         THEN "PASS" ELSE "FAIL"

BundleStatus(bundle, request, artifact, policy, t) ==
    Overall({VerifyAttestation(bundle["penetration_test"], "penetration_test",
                               request, artifact, policy["penetration_test"], t),
             HumanAcceptance(bundle, request, artifact, policy, t)})

\* The embedded material is verified once more when the evidence is judged:
\* the policy must be the one the request names, all four tokens must be
\* there, and none may have expired.
MaterialVerified(material, request, artifact, policies, t) ==
    /\ material.policy = request.policy
    /\ \A s \in AttestationSlots : material.bundle[s] # None
    /\ BundleStatus(material.bundle, request, artifact, policies[material.policy], t) = "PASS"
    /\ \A s \in AttestationSlots : t < material.bundle[s].exp

(***************************************************************************)
(* Gates.                                                                  *)
(***************************************************************************)
MANDATORY_GATES ==
    {"build", "tests", "contracts", "security", "scenarios", "performance",
     "backup_restore", "external_integrations", "acceptance"}

\* The files whose digests a gate puts on the certificate.
GateEvidence ==
    [build |-> {"source", "container"}, tests |-> {"junit", "binding"},
     contracts |-> {"catalog"}, security |-> {"attestations"},
     scenarios |-> {"summary", "episodes"},
     performance |-> {"performance"}, backup_restore |-> {"restore"},
     external_integrations |-> {"external"}, acceptance |-> {"attestations"}]
=============================================================================
