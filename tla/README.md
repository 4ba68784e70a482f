# ComputeWeaver: TLA+ models and proofs

ComputeWeaver is a control plane for AI compute and energy: a FastAPI service, a durable worker
and deterministic planning packages over PostgreSQL. This directory models the parts whose
correctness depends on the order in which requests, workers, transactions, files and crashes
happen.

## The system and its parts

| Part | Code | Modelled by |
| --- | --- | --- |
| Durable job queue and worker | `packages/jobs/queue.py`, `apps/worker/main.py` | `JobQueue`, abstract spec `JobLifecycle` |
| Request idempotency of API operations | `packages/persistence/operations.py`, `audited_operation` in `apps/api/main.py` | `ApiOperations` |
| Authentication, authorisation, settings | `packages/iam/authentication.py`, `config/settings.py`, `read_context` in `apps/api/main.py` | `Authentication` |
| Approval requests and votes | `packages/approval/workflow.py` | `ApprovalWorkflow` |
| Governed plans | `apps/api/main.py` | `PlanGovernance`, which extends `ApprovalWorkflow` |
| Guarded action execution and cancellation | `packages/execution/idempotency.py`, `action_guard.py` | `ActionExecution`, which extends `ApprovalWorkflow` |
| Versioned resources | `PostgresResourceStore.put` in `apps/api/store.py` | `ResourceStore`, abstract spec `ResourceRegister` |
| Tariffs, configuration, snapshots, optimization runs, artifacts | `apps/api/main.py`, `packages/objectstore/s3.py` | `StoredDocuments` |
| Audit chain | `packages/observability/audit.py` | `AuditChain` |
| Quota and admission | `packages/workloads/quota.py`, `packages/admission/service.py` | `QuotaLedger` |
| Topology, policies, forecast models | `packages/topology`, `packages/policy`, `packages/forecasting/registry.py` | `TopologyRegistry`, `PolicyEngine`, `ModelRegistry` |
| Meter synchronisation and ingestion | `packages/connectors`, `packages/ingestion`, `packages/timeseries`, `apps/worker/ingestion.py` | `TelemetryIngestion` |
| Model predictive control | `packages/mpc` | `MpcControl` |
| Simulation sessions | `packages/simulation` | `SimulationSession` |
| What release gates and attestations insist on | `packages/certification`, `packages/dr/rehearsal.py`, `scripts/build_containers.py` | `ReleaseEvidence` |
| How evidence comes about and is judged, up to publication | `packages/certification`, `scripts/*.py` | `ReleaseCertification`, which extends `ReleaseEvidence` |
| Repository of runs, certificates and revocations, release gate | `packages/certification/lifecycle.py`, `packages/execution/external.py` | `CertificationRepository` |
| External gate suite | `packages/certification/suite.py` | `GateSuite`, which extends `ReleaseEvidence` |

A request passes `Authentication`; most API writes run in `audited_operation`, which goes through
`ApiOperations` and appends to the audit chain; plans, sessions, controllers and documents live in
the resource store; approvals gate both the plan and the execution of its actions; a certificate
gates the adapters that write to external systems; background work goes through the job queue.

## How the modules correspond to the code

A database transaction is one action, or two or three where its statements can be separated by
another transaction. A handler that runs several transactions is a thread with a step, so other
handlers and a crash can come between any two of them. Rows are records named after their
columns; `PROJECT.json` gives the source lines of each definition. Digests and etags are
represented by what they are the digest of, or by a version.

* **JobQueue.** `durable_jobs` maps a key to its row; due times and leases are kept relative to
  `now()`, and `Tick` lets a second pass. `EnqueueSelect` and `EnqueueInsert` are the two
  statements of `enqueue`; a unique violation aborts. `Claim`, `Succeed`, `Fail` are the guarded
  UPDATEs. A connection may break before or after a commit, and a worker comes back under its old
  `worker_id`. `Heartbeat` is offered by the queue; the worker in this repository never calls it.
* **ApiOperations.** `Start`, `Effect`, `Audit`, `RecordSuccess`, `RecordFailure` are the steps of
  a call. `overdue`, `owner` and `spoiled` are ghosts. Keys in `Keyed` have an effect that is
  itself deduplicated by the key. The in-memory variant holds one lock throughout and is left out.
* **Authentication.** The handlers of one process share the key cache; a refresh holds its lock
  while it fetches. The identity provider is external: it publishes and withdraws keys at any
  time and may be down. `seen` is a ghost: when a key was last published. The settings are any
  that `validate` accepts; a check of one value alone is a name in `broken`.
* **ApprovalWorkflow.** One action per method. `Durable` separates the variants: on PostgreSQL the
  exception for an expired request rolls back the update to `expired`, in memory it stays.
* **PlanGovernance.** The etag of a plan is its version. Callers of `POST /v1/approvals` are
  assumed not to choose an id of the generated form `approval-<plan>-<version>`.
* **ActionExecution.** The PostgreSQL path of `execute_once` and `cancel`. The guard's checks of
  the request alone (whitelist, state version, age, bounds) are one Boolean. `applied`, `failures`
  and `executed` are ghosts.
* **ResourceStore.** `Read` takes the row locks of `SELECT ... FOR UPDATE`, `Commit` writes unless
  a primary key refuses. A live idempotency record ends the put without a write.
  `ResourceRegister` is what the store promises: a put is one atomic compare-and-set.
* **StoredDocuments.** A put is one step, as in `ResourceRegister`. The endpoints read,
  check or upload before it, so another handler can come in between. One collection per behaviour:
  they share no state.
* **AuditChain.** `ReadLast` takes the advisory lock, `Insert` appends. Hashes are distinct ids.
* **QuotaLedger.** `reserve` is its SELECT, its guarded UPDATE and its INSERT; the last may be
  refused by the primary key and undo the charge. A reservation is kept under its key, and a key
  may be used again by a job with another demand. `Blocking` is the admission decision. The
  endpoint passes no reservations to it, so `PROTECTED_INFERENCE_RESERVATION` cannot differ from
  `GPU_CAPACITY` there.
* **TopologyRegistry.** `ReadRevision` and `WriteDraft` are the statements of `create_draft`;
  without a row there is nothing to lock. `answers`, `reviewed` and `raced` are ghosts.
* **PolicyEngine.** `Validate` takes the advisory lock and compares, `Insert` writes.
* **ModelRegistry.** `Begin` draws the start time that `updated_at` will hold; `Promote` and
  `Rollback` hold the advisory lock. `history` is a ghost.
* **TelemetryIngestion.** Pull, landing, point and watermark are steps of their own; the breaker is
  shared by the handlers of the process. The meter answers a window whole, with a page, or fails.
* **MpcControl.** `Cycle` decides, `PutState` and `PutCycle` are the two transactions; the
  optimiser returns any plan of `Plans` or none. A schedule may be empty: the cycle then executes
  no interval, and still counts. Idempotency records do not expire here; `ResourceStore` has that.
* **SimulationSession.** A session is its configuration and the faults of the steps it took,
  because the generator is seeded and saved. Snapshots are stored under the digest of a session;
  taking one does not change the session, so its put of an equal body is only a new version.
* **ReleaseEvidence** has no state: a gate is the set of conditions it insists on, a bundle of
  attestations is judged as the code judges it.
* **ReleaseCertification.** A sealed evidence file is a document and its digest, written after it.
  `generate_evidence` is a sequence of nine steps (`DocumentStep`, `SidecarStep`): it can be
  interrupted after any of them, and goes on later (`ContinueGeneration`) or never; meanwhile
  other scripts, commits and evaluations happen. One generator runs at a time, and a file written
  in place without a sidecar is one step. An evaluation judges the gates in one step and hashes the
  files in another. `saved` is what was handed to `save_run`; the publish endpoint may load any of
  it. `requests` and the time in `published` are ghosts.
* **CertificationRepository.** A call of `save_run`, `publish` or `revoke` checks, and then writes
  what it has to: every document and every sidecar is a step, and a process can die between any two
  of them. The lock of the repository (`lifecycle.py:41`) is one of a process, while the deployment
  runs three replicas on a shared volume and the command line writes to it as well, so two processes
  interleave at every step. One release is modelled: each has files of its own,
  except for the registry. `overlapped` and `acknowledged` are ghosts.
* **GateSuite.** The suite loads the request once, every command loads it again. The readiness
  report is left out: it reads the same files and writes a summary that nothing consults.

## Runs

| Run | Shows |
| --- | --- |
| `job_queue` | fencing by `leased_by`, idempotent enqueue, final outcomes, refinement of `JobLifecycle` |
| `job_queue_fair` | no attempt runs for ever, no waiting job starves, outcomes belong to the last attempt |
| `job_attempt_limit` | expected violation: `claim` does not compare `attempt` with `max_attempts` |
| `api_operations` | answers are backed by an audited effect, leases exclude, answers agree |
| `api_retries` | expected violation: a late failure overwrites a recorded success |
| `plan_governance` | role separation, approved plans are backed, moves follow `TRANSITIONS` |
| `plan_governance_fair` | a granted approval reaches its plan |
| `stale_approval` | expected violation: the approval of a replaced version approves the new one |
| `action_execution` | no execution without approval or after cancellation, once per attempt, settled |
| `resource_store` | gapless history, no lost update, requests applied once, refinement of `ResourceRegister` |
| `control_plane` | the promises of the thirteen components below |
| `revocation_blocks` | expected violation: a repeated revocation is acknowledged without reaching the gateway |

`MCControlPlane` holds thirteen components that share no state with each other. The initial state
chooses one of them (`which`), and the behaviour is one of that component, so the run is the union
of thirteen instances and not their product. Its properties are:

| Component | Property | Promise |
| --- | --- | --- |
| `ReleaseCertification` | `PublishedOnOneRequest` | the reports hashed into a published certificate answer one request in force for its commit; test report, source binding and images are of that commit |
| | `DutiesAreSeparated` | the requester signed none of the evidence, the owners are three people, no signature had expired |
| `CertificationRepository` | `LifecycleIsFinal` | runs, certificates and revocations never come to name another result, across processes, crashes and repeated calls, unless two saves overlapped |
| `GateSuite` | `SuitePassIsBound` | a suite that reports PASS saw every gate pass for one request |
| `QuotaLedger` | `LedgerIsBacked` | the used quota is the sum of the open reservations and within the limits |
| `AuditChain` | `ChainVerifies` | the hash chain of every tenant verifies |
| `TopologyRegistry` | `PublishedWasReviewed` | what is published has no cycle and is what the publisher was given, unless two first drafts raced |
| `PolicyEngine` | `EqualPrioritiesAgree` | the equality policies of one priority that name a site can be satisfied together |
| `ModelRegistry` | `RollbackRestores` | rollback restores the version before, when changes took the lock in the order they started |
| `TelemetryIngestion` | `SyncedIsStored` | a window the meter answered whole is committed without a hole |
| `MpcControl` | `IntervalsExecuteOnce` | an interval is executed by one recorded cycle at most, and the state counts the cycles it accepted |
| `SimulationSession` | `SessionIsReplay` | a session is the replay of its accepted operations |
| `StoredDocuments` | `AcceptedWritesHold` | published tariffs are frozen, explanations and artifacts are backed |
| `Authentication` | `WithdrawnKeysExpire` | a withdrawn key opens no endpoint after its time to live |

Conditions in a promise mark where the code promises no more:

* Two first topology drafts race: both clients hold revision 1, and publishing names one of them.
* A promotion that waits for the lock writes a start time earlier than its predecessor's, and a
  later rollback orders by it.
* `_validate_against` compares policies of equal priority that share a named site. Policies of
  different priorities, and policies without sites, which apply everywhere, are compared with none,
  while `evaluate` (`engine.py:156-161`) applies every one of them whatever its priority. Two hard
  policies that contradict each other can therefore both be published and then refuse everything;
  B15 `SKILL.md:83` asks that "Conflicting policies are detected before publication."
* Two processes that save a run at once both find none: the later one replaces the run that the
  earlier one returned. The event log can lose an event to such a race too, and of two racing
  revocations, which name the same certificate, the later actor and reason stay.
* The scenario and episode summaries name no commit and the batch manifests are not hashed, so a
  certificate says nothing about which commit they are of.
* A page with a cursor moves the watermark to the end of the window all the same.
* An artifact's object is replaced before If-Match is looked at: after a refused put, or a handler
  that died, the artifact is unreadable until its next version.
* The explanation of a second optimization run is put without If-Match and refused, so the first
  one stays.

### Bounds

Two workers, two callers, two handlers or two connections are enough for every race the code can
have between two actors; a third actor appears where two must have decided already (three API
calls, three approvers). `AttemptCap`, `CrashCap`, `MaxCrashes`, `MaxDrafts`, `MaxTries`,
`MaxVersion`, `AgeCap`, `MaxRecords`, `MaxRevision`, `MaxPublished`, `MaxChanges`, `MaxFleet`,
`MaxTime` and `MaxUpsets` bound the counters. Two drafts are needed for a stale approval, two
failures for a retry of a retry, three versions of a resource for an update of an update, three
versions of a model, promoted one after the other, for a rollback that has two archived ones to
choose from, one upset (a rotated request, another commit, a
gate that does not pass, an interruption) for evidence that does not belong together. The
repository has two processes, two results that may be published and one that may not. The attempts
of a job are bounded, so `PendingIsClaimed` is about a finite number of jobs and attempts ahead of a
waiting one. `control_plane` has about 2.2 million states and takes three minutes. The safety run of
the queue has one key and racing callers, the fairness run two keys and one caller; together they
are too large. The plan's fairness run uses the in-memory stores without crashes, the safety run
PostgreSQL with a crash. The action run has only L2 requests, because actions below L2 skip the
approval and multiply the states. Symmetry is used only in runs without liveness properties;
`LifecycleIsFinal` and `ImplementsRegister` are safety properties, invariant under the permutations.

Deadlock is not checked where all calls are answered, or all drafts, keys, versions or upsets are
used up: such a state only serves reads.

### Fairness

Workers loop in `main()` and are restarted by the Kubernetes deployment, so `RunOnce` and
`Restart` are weakly fair, and so is time. A handler that is not killed runs to its end: `Handle`
and `Settle` are weakly fair (the adapter call has a timeout). Nothing is assumed of clients.
`GrantedPlanMovesOn` and `StartedSettles` promise nothing after a crash, and the code does not
recover there: a plan whose approver's handler died stays pending, and an execution row left
`started` refuses retries and cancellation. The components of `control_plane` only have safety
properties: their handlers answer or break off, and nothing retries by itself.

### Disagreements with the documentation

The four expected violations are listed as findings in `PROJECT.json`, each with the sentence it
contradicts: attempts past the limit (`RUNBOOKS.md`), retries that execute again
(`test_postgres_production_path.py`), stale approvals (B16 `SKILL.md`) and revocations that do not
block the gateway (`RELEASE_ROLLBACK.md`). The last one takes a crash: `revoke` writes the
revocation before the registry the gateway reads, and a repeated call returns as soon as it finds
the revocation.

## Proofs

Eight modules prove properties for every value of the constants: any number of connections,
handlers, workers, keys, tenants and documents, and any bound. Except for the liveness properties
and `TypesOK`, every property of a passing run is a theorem. The theorems about components of
`control_plane` are about the component's own specification; the run checks the same property of
the instance it chose.

| Module | Component | Theorems |
| --- | --- | --- |
| `JobQueueProofs` | `JobQueue` | `TypeCorrect`, `Fencing`, `OutcomeCorrect`, `EnqueueCorrect`, `SettledFinal`, `Refinement` (of `JobLifecycle`) |
| `ResourceStoreProofs` | `ResourceStore`, `SimulationSession` | `TypeCorrect`, `HistoryComplete`, `UpdatesAreNotLost`, `AppliedOnce`, `Refinement` (of `ResourceRegister`), `SessionReplays` |
| `ApiOperationsProofs` | `ApiOperations`, `QuotaLedger` | `AnswersBacked`, `LeaseExclusion`, `Agreement`, `LedgerBacked` |
| `ActionExecutionProofs` | `ActionExecution`, `ApprovalWorkflow` | `ExecutedApproved`, `CancellationHolds`, `AppliedOnce` |
| `PlanGovernanceProofs` | `PlanGovernance`, `ApprovalWorkflow` | `TypeCorrect`, `ApprovedBacked`, `RolesSeparated`, `LegalMoves` |
| `RegistryProofs` | `AuditChain`, `PolicyEngine`, `ModelRegistry`, `TopologyRegistry` | `AuditChainVerifies`, `EqualPrioritiesSatisfiable`, `RollbackGoesBack`, `PublishedReviewed` |
| `ReleaseProofs` | `ReleaseCertification`, `ReleaseEvidence`, `CertificationRepository`, `GateSuite` | `TypeCorrect`, `OneRequest`, `SeparatedDuties`, `FinalLifecycle`, `SuiteBound` |
| `ServiceProofs` | `Authentication`, `MpcControl`, `StoredDocuments`, `TelemetryIngestion` | `KeysExpire`, `ExecutedOnce`, `WritesHold`, `SyncedStored` |

### The inductive invariants

Each component has one (`IInv`, or a name of its own where a module holds several components): it
holds initially, every action preserves it, one lemma per action or kind of action, and it implies
the properties. Action properties and the refinements follow from the invariant and the step. What
the invariants add to the properties is what a handler in the middle of its work relies on:

* **JobQueue**: `BusyOK`. A busy worker writes the attempt and the limit it remembers, so the row
  of its key exists, the attempt was started and the limit is one a caller may ask for. `RowStep`
  summarises what a step does to a row; finality and the refinement of `JobLifecycle` follow.
* **ResourceStore**: an open put that found a row holds its lock, so the version it computed is
  still the next one; an open put that found none would write version 1, which the primary key of
  the history refuses to the second. Hence each version has exactly one row. For the same reason a
  commit, although made from what an earlier step read, is the atomic put of `ResourceRegister`:
  its version is the current one plus one, its If-Match the current one, and the record it replaces
  has expired. Reads and rollbacks are stuttering steps. This is what `MpcControl`,
  `SimulationSession` and `StoredDocuments` assume when they take a put as one step.
* **SimulationSession**: an operation under way was applied to the session it loaded, which is the
  stored one while its etag matches (`OperationHolds`), and every snapshot is a state the accepted
  operations led through (`SnapshotsOK`), so restoring one is an operation like any other. `Replay`
  is a recursive function on a sequence: `ReplayExists` proves that its equation has a solution,
  `ReplayAppend` that an operation more leaves the prefixes alone.
* **QuotaLedger**: a charged connection holds the row, so it is the only one and its job still fits
  (`ChargesFit`); the ledger is the sum of the open reservations (`Backed`). The sum is a fold that
  takes the elements in an order it chooses: `SumExists` proves that it has a value, `SumWithout`
  that any element may be taken first, `SumSame` that the fold over a larger set agrees on its
  subsets. `TotalAdds` follows: one job more or less changes the total by its demand. That the
  refund never meets the floor at 0 in `Minus` is part of the argument.
* **ApiOperations**: where a call in flight is, against the row of its key: a call that is not
  overdue owns the row (`LeaseOK`), and a recorded success is never answered differently
  (`AnswerKept`).
* **ActionExecution**: an approval never leaves `approved`, so the approval a handler read is still
  granted when the adapter runs (`GrantOK`); a handler in flight has the only `started` row of its
  key (`FlightOK`); the count of applications follows the status of the row (`CountOK`).
* **PlanGovernance**: every approval is in order, granted or not (`ApprovalsOK`); at most four puts
  take a draft to its decision, which bounds the version (`VersionOK`); and an etag that a handler
  read and that still matches is one of a pending plan, whose approval is decided (`DecisionOK`).
* **AuditChain, PolicyEngine**: the holder of the advisory lock is alone, so what it read is still
  the last hash, and the policy it validated still conflicts with none. **ModelRegistry**: the
  stages mirror the history, and the time of an archived row is the start of the change after it.
* **TopologyRegistry**: the holder of the row lock writes the next revision, so until two first
  drafts raced a revision names one draft. Acyclicity is about the recursive function `Visited`.
  `Iteration` proves that a function can be iterated, `VisitedSteps` that the recursion therefore
  has the meaning it seems to have, and `VisitedIsAcyclic` takes the first round that visits an
  element of a set: that element has no parent in the set. Each rests on `Least` (a set of
  naturals has a least element), as do the recursions of `SimulationSession` and `QuotaLedger`; the
  library's induction theorems take an operator as a parameter and cannot be used here.
* **ReleaseCertification**: every write of a sealed file or test report gives it a higher serial
  number, so a document that was replaced never comes back. A run carries the documents of these
  files as they are or once were (`Past`); when one of them is written again the run is `Overtaken`,
  and no later hashing can agree with it. So when the certificate of the publish endpoint equals the run, the
  files did not change between the run's hashing and its own, and what was judged in between is what
  is hashed: `Sound` (the gates passed on these documents) holds for the documents of the
  certificate. `OneRequest` and `SeparatedDuties` follow, because every request keeps its digest.
* **CertificationRepository**: `LifecycleInv`. Unless two saves overlapped, only one save can be
  writing, and it writes while there is no run; so the run names one result for good. A call that
  publishes carries the result of the run, hence every certificate names it; a call that revokes
  carries the result of the certificate, and starts after it was placed. A racing call writes the
  same result again. **GateSuite**: every step passed so far was accepted on a document for the
  suite's request.
* **Authentication**: a cached key was in the provider's document when its refresh began, or later.
* **MpcControl**: a replica between its two puts holds the slot and the sequence number that its
  state put won, and one before them follows the state if its etag still matches.
  **StoredDocuments**: until a put was refused or broke off, the object is the current artifact or
  that of an upload under way. **TelemetryIngestion**: what a whole answer holds is stored already
  or still among the events of its sync.

### Assumptions

The `ASSUME`s of `JobQueue`, `ApiOperations`, `ApprovalWorkflow`, `PlanGovernance`,
`ActionExecution`, `ResourceStore` and `ReleaseCertification` give the bounds and thresholds their
types and say that the value standing for "no row" is no row. Components without an `ASSUME` have
it as the hypothesis of their theorem: `NoneIsNoDocument`, `NoneIsNoResult`, `NoneIsNoReport`,
`DocsAssumption` and `None \notin ModelRows` say only that None is no such value. The others add what the code
guarantees:

* `AuthAssumption`: the time to live is positive, as `Settings.validate` insists.
* `MpcAssumption`: a schedule with slots has an earliest one.
* `TelemetryAssumption`: the meter holds finitely many intervals, at times that are naturals.
* `TopologyAssumption`: a graph lists its assets, and the stored draft is a draft.
* `SimAssumption`: the duration of a simulation is a number of steps.
* `QuotaAssumption`: GPUs and hours of a job and the limits are naturals. The set of jobs may be
  infinite: that finitely many hold a reservation is part of the invariant.
* `EqualPrioritiesSatisfiable`: the value of an equality rule is one of the values considered.

`AuditChainVerifies` needs no assumption.

### What is only model-checked

* Liveness under fairness: `NoAttemptIsStuck`, `PendingIsClaimed`, `GrantedPlanMovesOn` and
  `StartedSettles`. The installed provers do not handle `ENABLED`.
* `TypesOK` of the components of `control_plane`; their invariants contain the types they need.
* The expected violations, which are about particular behaviours.

## Not modelled

* Optimisation, scheduling, energy, tariff, carbon and forecasting arithmetic: mixed-integer
  programs and statistics over decimals, without state. Where a component uses their result, the
  model lets it be any result.
* `execution/compensation.py`, `workloads/state_machine.py`, `topology/versioning.py` and the
  `authorize` helper: no endpoint calls them.
* The in-memory variants of stores, ledgers and registries, each one critical section of one
  process; the approval workflow is the exception, since its variants differ in behaviour.
* Connection pool and migrations; vendor clients beyond what they observe; the probes behind the
  release gates; the readiness report, image bundles and other one-shot tools: process, file and
  network I/O.
* The operator shell, schemas, value types and report rendering.

## Plan

1. `MpcControl`, `SimulationSession` and `StoredDocuments` on an instance of `ResourceRegister`, in
   place of a put of their own.
2. Scheduling and quality rules as integer operators against reference definitions.
