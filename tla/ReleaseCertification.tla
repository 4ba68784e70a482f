------------------------- MODULE ReleaseCertification -------------------------
(***************************************************************************)
(* How the evidence for a release comes about and is judged, up to the     *)
(* certificates that are handed over for publication.  Scripts write the   *)
(* evidence files while API replicas and command lines evaluate them; a    *)
(* sealed file is a document and, written after it, its digest sidecar;    *)
(* every process can die between two writes.                               *)
(*                                                                         *)
(* An evaluation reads the evidence twice, once to judge the gates and     *)
(* once to hash the files; the scripts may write in between.  What the     *)
(* repository does with the results is in CertificationRepository; here,   *)
(* any run that was handed to it may be what it loads later.               *)
(***************************************************************************)
EXTENDS ReleaseEvidence, Sequences

CONSTANTS
    Release,        \* the release candidate
    Requester,      \* who asks for external evidence
    Policies,       \* trust policies, by digest: who may sign for which slot
    Owner,          \* who signs for a slot when everything is in order
    Outcomes,       \* what a test run can come to: "pass", "skipped", "fail"
    RequestLives, MAX_LIFE, TokenLife, CertificateLife,
    MaxTime, MaxUpsets

ASSUME ReleaseAssumption ==
    RequestLives \subseteq Nat /\ MaxTime \in Nat /\ MaxUpsets \in Nat

VARIABLES
    now,            \* the clock
    worktree,       \* the Git worktree: commit and clean
    artifact,       \* the version of the signed report on disk
    requests,       \* every evidence request ever created, in order
    files,          \* evidence files
    generation,     \* the generate_evidence run that was interrupted, or None
    evals,          \* evaluations in progress: judged, not yet bound
    saved,          \* the results handed to save_run
    published,      \* certificates handed to publish, with when they were judged
    upsets          \* what has gone wrong so far

vars == <<now, worktree, artifact, requests, files, generation, evals, saved,
          published, upsets>>
resultVars == <<evals, saved, published>>

\* What generate_evidence writes, what the test runs write, and the request
\* with the reports that answer it.
LocalFiles == {"source", "container", "episodes", "catalog", "manifests", "summary"}
TestFiles == {"junit", "binding"}
ExternalFiles == {"request", "attestations", "performance", "restore", "external"}
EvidenceFiles == LocalFiles \cup TestFiles \cup ExternalFiles

\* A document and what its sidecar is the digest of.
Missing == [doc |-> None, sum |-> None]
Sealed(d) == [doc |-> d, sum |-> d]
VerifyEvidence(f) == f.doc # None /\ f.sum = f.doc

Placeholder == [status |-> "NOT_RUN", n |-> 0]

\* What the model bounds: a failing gate, a file written again, a request
\* rotated or for another commit, an edit, an interruption, a crash, two
\* evaluations at once.
Upset(bad) ==
    /\ upsets' = IF bad THEN upsets + 1 ELSE upsets
    /\ upsets' <= MaxUpsets

\* Every write of a sealed file or a test report leaves another document, if
\* only by its timestamp.
Serial(f) == IF files[f].doc = None THEN 1 ELSE files[f].doc.n + 1

\* write_evidence: the document, then its sidecar, with a crash in between.
WriteEvidence(f, d, bad) ==
    \/ files' = [files EXCEPT ![f] = Sealed(d)] /\ Upset(bad \/ Serial(f) > 1)
    \/ files' = [files EXCEPT ![f].doc = d] /\ Upset(TRUE)

LoadVerifiedRequest ==
    IF /\ VerifyEvidence(files["request"])
       /\ RequestInForce(files["request"].doc, MAX_LIFE, now)
    THEN files["request"].doc ELSE None

(***************************************************************************)
(* The worktree and the local evidence.                                    *)
(***************************************************************************)
Tick ==
    /\ now < MaxTime
    /\ now' = now + 1
    /\ UNCHANGED <<worktree, artifact, requests, files, generation, resultVars, upsets>>

\* A commit, or an uncommitted edit.
ChangeSource ==
    /\ \/ \E r \in Revisions \ {worktree.commit} :
            worktree' = [commit |-> r, clean |-> TRUE]
       \/ worktree.clean /\ worktree' = [worktree EXCEPT !.clean = FALSE]
    /\ Upset(TRUE)
    /\ UNCHANGED <<now, artifact, requests, files, generation, resultVars>>

\* The report behind the attestations is replaced after it was signed.
ChangeArtifact ==
    /\ artifact = 0 /\ artifact' = 1
    /\ Upset(TRUE)
    /\ UNCHANGED <<now, worktree, requests, files, generation, resultVars>>

\* source_revision: a dirty worktree has no immutable revision.
SourceRevision == IF worktree.clean THEN worktree.commit ELSE Loose

\* The test suites leave their JUnit reports, which carry no sidecar.
RunTests ==
    /\ \E o \in Outcomes :
        /\ files' = [files EXCEPT !["junit"] =
                        Sealed([outcome |-> o, n |-> Serial("junit")])]
        /\ Upset(o # "pass" \/ Serial("junit") > 1)
    /\ UNCHANGED <<now, worktree, artifact, requests, generation, resultVars>>

\* record_test_run binds the reports on disk to the worktree.
RecordTestRun ==
    /\ files["junit"].doc # None
    /\ WriteEvidence("binding",
           [status |-> IF worktree.clean /\ files["junit"].doc.outcome = "pass"
                       THEN "PASS" ELSE "FAIL",
            revision |-> worktree.commit, clean |-> worktree.clean,
            junit |-> files["junit"].doc, n |-> Serial("binding")], FALSE)
    /\ UNCHANGED <<now, worktree, artifact, requests, generation, resultVars>>

\* At most one of the conditions of a check fails at a time.
AtMostOne(conditions) == {{}} \cup {{c} : c \in conditions}

LocalOutcomes ==
    LET all == UNION {LocalConditions[p] : p \in DOMAIN LocalConditions}
        builds == {BuildAttempt(b.succeeded, b.timedOut, b.unreachable) :
                    b \in [succeeded : BOOLEAN, timedOut : BOOLEAN, unreachable : BOOLEAN]}
    IN  {LocalBroken(o.direct, o.mirror, o.broken) :
            o \in [direct : builds, mirror : builds, broken : AtMostOne(all)]}

\* Skipped tests do not count against the manifests.
TestsPassed == files["junit"].doc # None /\ files["junit"].doc.outcome # "fail"

\* What generate_evidence does, in this order: the document of the source
\* binding, its sidecar, the two of the container images, the episode summary,
\* the schema catalog, some of the batch manifests, the rest of them, the
\* scenario summary.
DocumentStep ==
    [source |-> 1, container |-> 3, episodes |-> 5, catalog |-> 6, manifests |-> 8,
     summary |-> 9]
SidecarStep == [source |-> 2, container |-> 4]
SomeManifests == 7
LastStep == 9

\* Which of the manifests are the new ones does not matter: they have to agree.
Manifests(g, steps) ==
    LET old == files["manifests"].doc
        new == [revision |-> g.revision, tests |-> g.tests]
    IN  IF DocumentStep["manifests"] \in steps THEN {new}
        ELSE IF SomeManifests \in steps /\ old # None THEN old \cup {new} ELSE old

\* The container evidence looks at the worktree again.  The last three carry
\* no timestamp, and the summaries of the simulated scenarios no commit either.
LocalDocument(g, f) ==
    CASE f = "source" -> [revision |-> g.revision, clean |-> g.clean, n |-> Serial(f)]
      [] f = "container" -> [revision |-> SourceRevision, passed |-> "container" \notin g.broken,
                             n |-> Serial(f)]
      [] f = "catalog" -> [revision |-> g.revision, passed |-> "contracts" \notin g.broken]
      [] f \in {"episodes", "summary"} -> [passed |-> f \notin g.broken]

\* The files after generate_evidence g did these of its steps.  With the last
\* manifests a request, a report or a summary that does not exist yet gets a
\* placeholder without a sidecar.
AfterSteps(g, steps) ==
    LET document(f) ==
            IF f = "manifests" THEN Manifests(g, steps)
            ELSE IF f \in LocalFiles /\ DocumentStep[f] \in steps THEN LocalDocument(g, f)
            ELSE IF files[f].doc = None /\ DocumentStep["manifests"] \in steps
            THEN CASE f \in ExternalFiles -> Placeholder
                   [] f = "summary" -> [passed |-> FALSE]
                   [] OTHER -> None
            ELSE files[f].doc
    IN  [f \in EvidenceFiles |->
            [doc |-> document(f),
             sum |-> IF f \in DOMAIN SidecarStep /\ SidecarStep[f] \in steps
                     THEN document(f) ELSE files[f].sum]]

\* It copies the test reports before the catalog, and dies without one.
MayReach(step) == files["junit"].doc # None \/ step < DocumentStep["catalog"]

\* generate_evidence goes on from a step to the end, or is interrupted: then it
\* goes on later, or has died.
Generate(g, from) ==
    \E to \in from..LastStep :
        /\ MayReach(to)
        /\ Upset(to < LastStep \/ (from = 1 /\ (g.broken # {} \/ Serial("source") > 1)))
        /\ files' = AfterSteps(g, from..to)
        /\ generation' = IF to = LastStep THEN None ELSE [g EXCEPT !.next = to + 1]

GenerateEvidence ==
    /\ \E broken \in LocalOutcomes :
        Generate([revision |-> SourceRevision, clean |-> worktree.clean,
                  tests |-> TestsPassed, broken |-> broken, next |-> 1], 1)
    /\ UNCHANGED <<now, worktree, artifact, requests, resultVars>>

ContinueGeneration ==
    /\ generation # None
    /\ Generate(generation, generation.next)
    /\ UNCHANGED <<now, worktree, artifact, requests, resultVars>>

(***************************************************************************)
(* Evidence requests and the external gates.                               *)
(***************************************************************************)
\* create_evidence_request and write_request.
WriteRequest(revision, life, policy) ==
    LET request == [release |-> Release, revision |-> revision,
                    requester |-> Requester, issued |-> now,
                    expires |-> now + life, policy |-> policy,
                    digest |-> Len(requests) + 1]
    IN  /\ RequestAllowed(revision, life, MAX_LIFE, REQUIRED_EXTERNAL_GATES)
        /\ requests' = Append(requests, request)
        /\ \/ /\ files' = [files EXCEPT !["request"] = Sealed(request)]
              /\ Upset(requests # <<>> \/ revision # worktree.commit)
           \/ files' = [files EXCEPT !["request"].doc = request] /\ Upset(TRUE)
        /\ UNCHANGED <<now, worktree, artifact, generation, resultVars>>

\* The API creates the first request only; the command line replaces it.
RequestEvidence ==
    \E r \in Revisions, life \in RequestLives, policy \in DOMAIN Policies :
        /\ files["request"].doc = None
        /\ WriteRequest(r, life, policy)

RotateRequest ==
    \E r \in Revisions, life \in RequestLives, policy \in DOMAIN Policies :
        WriteRequest(r, life, policy)

\* The gate scripts bind their report to the request in force, or refuse.
GateReport(f, status, production) ==
    /\ LoadVerifiedRequest # None
    /\ WriteEvidence(f, [status |-> status, request |-> LoadVerifiedRequest.digest,
                         production |-> production, n |-> Serial(f)],
                     status # "PASS" \/ ~production)
    /\ UNCHANGED <<now, worktree, artifact, requests, generation, resultVars>>

\* What a gate can report.  A run outside the contract of the request writes
\* no report.
LoadOutcomes ==
    {LoadStatus(broken) :
        broken \in {b \in AtMostOne(LoadContractConditions \cup LoadGateConditions) :
                        b \cap LoadContractConditions = {}}}

RestoreOutcomes ==
    LET all == UNION {RestoreChecks[c] : c \in DOMAIN RestoreChecks}
    IN  {RestoreStatus(DOMAIN RestoreChecks, broken) :
            broken \in {b \in AtMostOne(RestoreContractConditions \cup all) :
                            b \cap RestoreContractConditions = {}}}

AcceptanceOutcomes ==
    LET all == UNION {AcceptanceChecks[c] : c \in DOMAIN AcceptanceChecks}
    IN  {AcceptanceStatus((DOMAIN AcceptanceChecks) \ unset, broken) :
            unset \in AtMostOne(DOMAIN AcceptanceChecks), broken \in AtMostOne(all)}

\* A load run against a local target is no production evidence.
RunProductionLoad ==
    \E s \in LoadOutcomes, production \in BOOLEAN : GateReport("performance", s, production)
RunRestoreRehearsal == \E s \in RestoreOutcomes : GateReport("restore", s, TRUE)
RunExternalAcceptance == \E s \in AcceptanceOutcomes : GateReport("external", s, TRUE)

\* A token as issue_attestation signs it for the request in force.
Token(slot, request) ==
    [kind |-> IF slot \in HUMAN_ROLES THEN "human_acceptance_vote" ELSE slot,
     role |-> slot, sub |-> Owner[slot], request |-> request.digest,
     artifact |-> artifact, findings |-> 0, exp |-> now + TokenLife]

\* Bundles in which at most one token is missing or other than it should be:
\* signed by somebody else, in another role, for an earlier request, for an
\* earlier report, with open findings, or expired.
Bundles(request) ==
    LET sound == [s \in AttestationSlots |-> Token(s, request)]
        others == {Requester} \cup {Owner[s] : s \in AttestationSlots}
        odd(s) == {None}
            \cup {[sound[s] EXCEPT !.sub = o] : o \in others}
            \cup {[sound[s] EXCEPT !.role = r] : r \in HUMAN_ROLES}
            \cup {[sound[s] EXCEPT !.request = i] : i \in DOMAIN requests}
            \cup {[sound[s] EXCEPT !.artifact = v] : v \in 0..1}
            \cup {[sound[s] EXCEPT !.findings = 1], [sound[s] EXCEPT !.exp = now]}
    IN  UNION {{[sound EXCEPT ![s] = t] : t \in odd(s)} : s \in AttestationSlots}

\* The attestation report carries the tokens it was judged on.  A report that
\* does not pass is never looked into.
AttestationReports(request) ==
    LET report(b, status) ==
            [status |-> status, request |-> request.digest,
             material |-> IF status # "PASS" THEN None
                          ELSE [bundle |-> b, policy |-> request.policy],
             n |-> Serial("attestations")]
    IN  {report(b, BundleStatus(b, request, artifact, Policies[request.policy], now)) :
            b \in Bundles(request)}

RunAttestations ==
    /\ LoadVerifiedRequest # None
    /\ Serial("attestations") = 1 \/ upsets < MaxUpsets
    /\ \E report \in AttestationReports(LoadVerifiedRequest) :
        WriteEvidence("attestations", report, report.status # "PASS")
    /\ UNCHANGED <<now, worktree, artifact, requests, generation, resultVars>>

(***************************************************************************)
(* Judging the evidence.                                                   *)
(***************************************************************************)
\* All manifests are of the commit.
ManifestsBound(rev) == \A m \in files["manifests"].doc : m.revision = rev

\* The tests passed when they were written.
TestManifests(rev) == ManifestsBound(rev) /\ \A m \in files["manifests"].doc : m.tests

TestsPass(rev) ==
    LET binding == files["binding"].doc
    IN  /\ TestManifests(rev)
        /\ files["junit"].doc # None /\ files["junit"].doc.outcome = "pass"
        /\ VerifyEvidence(files["binding"])
        /\ binding.status = "PASS" /\ binding.revision = rev /\ binding.clean
        /\ binding.junit = files["junit"].doc

BuildPass(rev) ==
    LET container == files["container"]
        source == files["source"]
    IN  /\ VerifyEvidence(container) /\ container.doc.revision = rev /\ container.doc.passed
        /\ rev \in Revisions
        /\ VerifyEvidence(source) /\ source.doc.revision = rev /\ source.doc.clean

ContractsPass(rev) ==
    LET catalog == files["catalog"].doc
    IN  TestManifests(rev) /\ catalog # None /\ catalog.revision = rev /\ catalog.passed

ScenariosPass(rev) ==
    /\ ManifestsBound(rev)
    /\ \A f \in {"summary", "episodes"} : files[f].doc # None /\ files[f].doc.passed

RequestBound(rev) ==
    /\ LoadVerifiedRequest # None
    /\ LoadVerifiedRequest.release = Release
    /\ LoadVerifiedRequest.revision = rev

MutantReportBound(f, rev) ==
    /\ RequestBound(rev)
    /\ VerifyEvidence(files[f])
    /\ files[f].doc.status = "PASS"
    /\ requests[files[f].doc.request].revision = rev

\* A report of the request in force: its digest on the report is compared.
ReportBound(f, rev) ==
    /\ RequestBound(rev)
    /\ VerifyEvidence(files[f])
    /\ files[f].doc.status = "PASS"
    /\ files[f].doc.request = LoadVerifiedRequest.digest

PerformancePass(rev) ==
    ReportBound("performance", rev) /\ files["performance"].doc.production

AttestationsPass(rev) ==
    /\ ReportBound("attestations", rev)
    /\ MaterialVerified(files["attestations"].doc.material, LoadVerifiedRequest,
                        artifact, Policies, now)

EvaluateProductionEvidence(rev) ==
    LET tests == TestsPass(rev)
        attested == AttestationsPass(rev)
    IN  {g \in MANDATORY_GATES :
            CASE g = "build" -> tests /\ BuildPass(rev)
              [] g = "tests" -> tests
              [] g = "contracts" -> ContractsPass(rev)
              [] g = "scenarios" -> ScenariosPass(rev)
              [] g \in {"security", "acceptance"} -> attested
              [] g = "performance" -> PerformancePass(rev)
              [] g = "backup_restore" -> ReportBound("restore", rev)
              [] g = "external_integrations" -> ReportBound("external", rev)}

\* The digests put on a certificate are those of the files now on disk.
CollectGateEvidenceHashes == [f \in EvidenceFiles \ {"request", "manifests"} |-> files[f].doc]

\* certify_release: a gate passes only with evidence that could be hashed.
\* What a certificate that is not CERTIFIED carries is never consulted.
CertifyRelease(rev, generated, allPassed) ==
    LET hashes == CollectGateEvidenceHashes
        certified == /\ allPassed
                     /\ \A g \in MANDATORY_GATES : \A f \in GateEvidence[g] : hashes[f] # None
    IN  [release |-> Release, commit |-> rev, generated |-> generated,
         certified |-> certified, hashes |-> IF certified THEN hashes ELSE None]

(***************************************************************************)
(* Evaluations.                                                            *)
(***************************************************************************)
\* The commit under certification is the one the API is configured with, or the
\* argument of the command; neither looks at the worktree.
Commits == Revisions \cup {Loose}

\* The gates are judged; a missing batch manifest raises.
Judge(purpose, rev, generated, run) ==
    /\ files["manifests"].doc # None
    /\ LET e == [for |-> purpose, revision |-> rev, at |-> now,
                 generated |-> generated, run |-> run,
                 passed |-> EvaluateProductionEvidence(rev) = MANDATORY_GATES]
       IN  /\ evals' = evals \cup {e}
           /\ Upset(evals # {} \/ (purpose = "run" /\ ~e.passed))
    /\ UNCHANGED <<now, worktree, artifact, requests, files, generation, saved, published>>

JudgeForRun == \E rev \in Commits : Judge("run", rev, now, None)

\* The files are hashed and the result is handed to save_run.
SaveRun ==
    /\ \E e \in evals :
        /\ e.for = "run"
        /\ evals' = evals \ {e}
        /\ saved' = saved \cup {CertifyRelease(e.revision, e.generated, e.passed)}
    /\ UNCHANGED <<now, worktree, artifact, requests, files, generation, published, upsets>>

\* The publish endpoint loads a run and judges the gates again.
JudgeForPublish == \E run \in saved : Judge("publish", run.commit, run.generated, run)

\* issue_release_token: only a certificate that is in force is signed.
Signable(c) ==
    /\ c.certified
    /\ now < c.generated + CertificateLife
    /\ c.commit \in Revisions

\* verify_release_token, for a token that names certificate c: only the expiry
\* is left to chance, by the representation of digests.
TokenAccepted(c) ==
    c.certified /\ now < c.generated + CertificateLife + Leeway

\* Nothing changed since the run, every gate passed and the certificate can
\* still be signed.
Publishable(c, run) == c = run /\ Signable(c) /\ TokenAccepted(c)

\* The files are hashed, the certificate is signed and handed to publish.
Publish ==
    /\ \E e \in evals :
        /\ e.for = "publish"
        /\ evals' = evals \ {e}
        /\ LET c == CertifyRelease(e.revision, e.generated, e.passed)
           IN  published' = IF Publishable(c, e.run)
                            THEN published \cup {[certificate |-> c, judged |-> e.at]}
                            ELSE published
    /\ UNCHANGED <<now, worktree, artifact, requests, files, generation, saved, upsets>>

(***************************************************************************)
(* The specification.                                                      *)
(***************************************************************************)
Init ==
    /\ now = 0 /\ artifact = 0 /\ upsets = 0
    /\ \E r \in Revisions : worktree = [commit |-> r, clean |-> TRUE]
    /\ requests = <<>>
    /\ files = [f \in EvidenceFiles |-> Missing]
    /\ generation = None
    /\ evals = {} /\ saved = {} /\ published = {}

Next ==
    \/ Tick \/ ChangeSource \/ ChangeArtifact
    \/ RunTests \/ RecordTestRun \/ GenerateEvidence \/ ContinueGeneration
    \/ RequestEvidence \/ RotateRequest
    \/ RunProductionLoad \/ RunRestoreRehearsal \/ RunExternalAcceptance
    \/ RunAttestations
    \/ JudgeForRun \/ SaveRun \/ JudgeForPublish \/ Publish

Spec == Init /\ [][Next]_vars

(***************************************************************************)
(* Properties.                                                             *)
(***************************************************************************)
\* Every variable stays in its type.
TypeOK ==
    /\ now \in 0..MaxTime /\ artifact \in 0..1 /\ upsets \in 0..MaxUpsets
    /\ worktree \in [commit : Revisions, clean : BOOLEAN]
    /\ Len(requests) <= MaxUpsets + 1
    /\ DOMAIN files = EvidenceFiles
    /\ generation # None => generation.next \in 2..LastStep
    /\ \A e \in evals : e.for \in {"run", "publish"}

\* A published certificate rests on evidence that belongs together: the four
\* external reports whose digests it carries passed and answer one request,
\* for its release and commit, that was in force when the evidence was judged
\* for publication; the load report is of production; the test report it
\* carries is the one bound to that commit; the source binding and the
\* container images are of that commit.  The digests are read after the gates
\* were judged, so this depends on the second evaluation in the publish
\* endpoint.  Nothing is said of the scenario and episode summaries, which
\* name no commit, nor of the batch manifests, which are not hashed.
PublishedOnOneRequest ==
    \A p \in published :
        LET c == p.certificate
        IN  /\ \E i \in DOMAIN requests :
                /\ requests[i].release = c.release /\ requests[i].revision = c.commit
                /\ p.judged < requests[i].expires
                /\ \A f \in {"attestations", "performance", "restore", "external"} :
                    /\ c.hashes[f].status = "PASS"
                    /\ c.hashes[f].request = i
            /\ c.hashes["performance"].production
            /\ \A f \in {"source", "container", "binding"} :
                c.hashes[f].revision = c.commit
            /\ c.hashes["binding"].junit = c.hashes["junit"]
            /\ c.hashes["junit"].outcome = "pass"

\* Whoever asked for the evidence signed none of it, the three owners who
\* accepted a published release are three people, and no signature had
\* expired when the evidence was judged for publication.
DutiesAreSeparated ==
    \A p \in published :
        LET attested == p.certificate.hashes["attestations"]
            b == attested.material.bundle
            req == requests[attested.request]
        IN  /\ \A s \in AttestationSlots :
                b[s].sub \in Policies[req.policy][s] /\ b[s].sub # req.requester
                /\ p.judged < b[s].exp
            /\ \A r, s \in HUMAN_ROLES : r # s => b[r].sub # b[s].sub
            /\ b["penetration_test"].findings = 0
=============================================================================
