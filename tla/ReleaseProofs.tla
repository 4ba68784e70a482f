---------------------------- MODULE ReleaseProofs ----------------------------
(***************************************************************************)
(* Proofs about ReleaseCertification: a published certificate rests on     *)
(* evidence that belongs together and was signed by the right people;      *)
(* about CertificationRepository: unless two saves overlapped, what was    *)
(* saved, published or revoked keeps its result; and about GateSuite: a    *)
(* suite passes for one request.                                           *)
(*                                                                         *)
(* An evaluation judges the files and hashes them later, so the first      *)
(* argument is one about serial numbers: every write of a numbered file    *)
(* leaves a document with a higher one, so files whose digests are those   *)
(* of the saved run both before and after the judgement were judged in     *)
(* that very state.                                                        *)
(***************************************************************************)
EXTENDS ReleaseCertification, TLAPS

\* The files of which no two documents are equal.
Numbered == {"source", "container"} \cup TestFiles \cup (ExternalFiles \ {"request"})
Reports == {"attestations", "performance", "restore", "external"}

\* None is no document: documents have a serial number, None has no such field.
NoneIsNoDocument == "n" \notin DOMAIN None

EvidenceRequests ==
    [release : {Release}, revision : Revisions, requester : {Requester}, issued : Nat,
     expires : Nat, policy : DOMAIN Policies, digest : Nat]

\* Requests are kept under their number, which stands for their digest.
RequestsOK ==
    /\ now \in Nat
    /\ requests \in Seq(EvidenceRequests)
    /\ \A i \in DOMAIN requests : requests[i].digest = i

\* Every evidence file is a document and a sidecar; the sidecar of the request is that of
\* a request that was made.
FilesOK ==
    /\ files = [f \in EvidenceFiles |-> [doc |-> files[f].doc, sum |-> files[f].sum]]
    /\ \A f \in Numbered : files[f].doc # None => files[f].doc.n \in Nat
    /\ files["request"].sum # None =>
         \E i \in DOMAIN requests : files["request"].sum = requests[i]

\* Some documents of the numbered files, of now or of before: a file that still has the
\* serial number still has the document.
Past(hashes) ==
    \A f \in Numbered :
        /\ files[f].doc # None /\ hashes[f].n \in Nat /\ hashes[f].n <= files[f].doc.n
        /\ hashes[f].n = files[f].doc.n => hashes[f] = files[f].doc

\* A file was written since it had the document in hashes.
Overtaken(hashes) == \E f \in Numbered : hashes[f].n < files[f].doc.n

\* What the two properties say of the evidence of a certificate for a commit.
OnOneRequest(hashes, commit, at) ==
    /\ \E i \in DOMAIN requests :
         /\ requests[i].release = Release /\ requests[i].revision = commit
         /\ at < requests[i].expires
         /\ \A f \in Reports : hashes[f].status = "PASS" /\ hashes[f].request = i
    /\ hashes["performance"].production
    /\ \A f \in {"source", "container", "binding"} : hashes[f].revision = commit
    /\ hashes["binding"].junit = hashes["junit"]
    /\ hashes["junit"].outcome = "pass"

Separated(hashes, at) ==
    LET b == hashes["attestations"].material.bundle
        i == hashes["attestations"].request
    IN  /\ i \in DOMAIN requests
        /\ \A s \in AttestationSlots :
             /\ b[s].sub \in Policies[requests[i].policy][s] /\ b[s].sub # requests[i].requester
             /\ at < b[s].exp
        /\ \A r, s \in HUMAN_ROLES : r # s => b[r].sub # b[s].sub
        /\ b["penetration_test"].findings = 0

Sound(hashes, commit, at) == OnOneRequest(hashes, commit, at) /\ Separated(hashes, at)

\* The saved runs and the evaluations for publication carry documents of the files; an
\* evaluation that passed was of these documents, unless a file was written meanwhile.
RunOK(run) == run.certified => Past(run.hashes)

EvalOK(e) ==
    e.for = "publish" /\ e.run.certified =>
        /\ Past(e.run.hashes)
        /\ e.passed => Sound(e.run.hashes, e.revision, e.at) \/ Overtaken(e.run.hashes)

CertificateOK(p) ==
    p.certificate.release = Release /\ Sound(p.certificate.hashes, p.certificate.commit, p.judged)

ResultsOK ==
    /\ \A run \in saved : RunOK(run)
    /\ \A e \in evals : EvalOK(e)
    /\ \A p \in published : CertificateOK(p)

IInv == RequestsOK /\ FilesOK /\ ResultsOK

(***************************************************************************)
(* The scripts that write evidence.                                        *)
(***************************************************************************)
\* A file is left alone or gets a document with a higher serial number.
Advances ==
    \A f \in Numbered :
        \/ files'[f].doc = files[f].doc
        \/ /\ files'[f].doc # None /\ files'[f].doc.n \in Nat
           /\ files[f].doc # None => files[f].doc.n < files'[f].doc.n

\* Requests are only ever added.
Extends ==
    \A i \in DOMAIN requests : i \in DOMAIN requests' /\ requests'[i] = requests[i]

\* Evidence may be written while a certificate is judged: documents of the past stay in
\* the past, and what was overtaken stays overtaken.
LEMMA EvidenceStep ==
    ASSUME IInv, RequestsOK', FilesOK', Advances, Extends,
           UNCHANGED resultVars
    PROVE  IInv'
<1>1. ASSUME NEW h, Past(h) PROVE Past(h)'
  <2> SUFFICES ASSUME NEW f \in Numbered
               PROVE  /\ files'[f].doc # None /\ h[f].n \in Nat /\ h[f].n <= files'[f].doc.n
                      /\ h[f].n = files'[f].doc.n => h[f] = files'[f].doc
    BY DEF Past
  <2>1. /\ files[f].doc # None /\ h[f].n \in Nat /\ h[f].n <= files[f].doc.n
        /\ h[f].n = files[f].doc.n => h[f] = files[f].doc
        /\ files[f].doc.n \in Nat
    BY <1>1, Zenon DEF Past, IInv, FilesOK
  <2>2. CASE files'[f].doc = files[f].doc
    BY <2>1, <2>2
  <2>3. CASE files'[f].doc # files[f].doc
    <3>1. /\ files'[f].doc # None /\ files'[f].doc.n \in Nat
          /\ files[f].doc.n < files'[f].doc.n
      BY <2>1, <2>3 DEF Advances
    <3> QED
      BY <2>1, <3>1
  <2> QED
    BY <2>2, <2>3
<1>2. ASSUME NEW h, Past(h), Overtaken(h) PROVE Overtaken(h)'
  <2>1. PICK f \in Numbered : h[f].n < files[f].doc.n
    BY <1>2 DEF Overtaken
  <2>2. files[f].doc # None /\ files[f].doc.n \in Nat /\ h[f].n \in Nat
    BY <1>2, Zenon DEF Past, IInv, FilesOK
  <2>3. h[f].n < files'[f].doc.n
    <3>1. CASE files'[f].doc = files[f].doc
      BY <2>1, <3>1
    <3>2. CASE files'[f].doc # files[f].doc
      <4>1. files'[f].doc.n \in Nat /\ files[f].doc.n < files'[f].doc.n
        BY <2>2, <3>2 DEF Advances
      <4> QED
        BY <2>1, <2>2, <4>1
    <3> QED
      BY <3>1, <3>2
  <2> QED
    BY <2>3 DEF Overtaken
<1>3. ASSUME NEW h, NEW commit, NEW at, Sound(h, commit, at) PROVE Sound(h, commit, at)'
  <2>1. OnOneRequest(h, commit, at)'
    BY <1>3 DEF Sound, OnOneRequest, Extends
  <2>2. Separated(h, at)'
    BY <1>3 DEF Sound, Separated, Extends
  <2> QED
    BY <2>1, <2>2 DEF Sound
<1>4. \A run \in saved' : RunOK(run)'
  BY <1>1 DEF IInv, ResultsOK, RunOK, resultVars
<1>5. \A e \in evals' : EvalOK(e)'
  BY <1>1, <1>2, <1>3 DEF IInv, ResultsOK, EvalOK, resultVars
<1>6. \A p \in published' : CertificateOK(p)'
  BY <1>3 DEF IInv, ResultsOK, CertificateOK, resultVars
<1> QED
  BY <1>4, <1>5, <1>6 DEF IInv, ResultsOK

\* Document f is written, with its sidecar or without.
Written(f, d) ==
    files' = [files EXCEPT ![f] = Sealed(d)] \/ files' = [files EXCEPT ![f].doc = d]

\* write_evidence of a document with the next serial number, also when the process dies
\* before the sidecar is written.
LEMMA WriteFacts ==
    ASSUME NoneIsNoDocument, IInv, NEW f \in Numbered, NEW d,
           "n" \in DOMAIN d, d.n = Serial(f), Written(f, d),
           UNCHANGED <<now, requests, resultVars>>
    PROVE  IInv'
<1>1. d # None /\ d.n \in Nat /\ (files[f].doc # None => files[f].doc.n < d.n)
  BY DEF NoneIsNoDocument, IInv, FilesOK, Serial
<1>2. /\ files' = [g \in EvidenceFiles |-> [doc |-> files'[g].doc, sum |-> files'[g].sum]]
      /\ files'[f].doc = d
      /\ \A g \in EvidenceFiles \ {f} : files'[g] = files[g]
  <2>1. f \in EvidenceFiles /\ files = [g \in EvidenceFiles |-> [doc |-> files[g].doc, sum |-> files[g].sum]]
    BY DEF IInv, FilesOK, Numbered, EvidenceFiles, LocalFiles
  <2>2. PICK s : files' = [files EXCEPT ![f] = [doc |-> d, sum |-> s]]
    <3>1. CASE files' = [files EXCEPT ![f] = Sealed(d)]
      BY <3>1, Zenon DEF Sealed
    <3>2. CASE files' = [files EXCEPT ![f].doc = d]
      <4>1. [files[f] EXCEPT !.doc = d] = [doc |-> d, sum |-> files[f].sum]
        BY <2>1
      <4> QED
        BY <3>2, <4>1, Zenon
    <3> QED
      BY <3>1, <3>2 DEF Written
  <2>3. \A g \in EvidenceFiles : files'[g] =
           IF g = f THEN [doc |-> d, sum |-> s] ELSE [doc |-> files[g].doc, sum |-> files[g].sum]
    BY <2>1, <2>2
  <2> QED
    BY <2>1, <2>2, <2>3
<1>3. Advances
  BY <1>1, <1>2 DEF Advances, Numbered, EvidenceFiles, LocalFiles
<1>4. RequestsOK' /\ Extends
  BY DEF IInv, RequestsOK, Extends
<1>5. files'["request"] = files["request"]
  BY <1>2 DEF Numbered, EvidenceFiles, LocalFiles, TestFiles, ExternalFiles
<1>6. \A g \in Numbered : files'[g].doc # None => files'[g].doc.n \in Nat
  BY <1>1, <1>2 DEF IInv, FilesOK, Numbered, EvidenceFiles, LocalFiles
<1>7. FilesOK'
  BY <1>2, <1>5, <1>6, Zenon DEF IInv, FilesOK
<1> QED
  BY <1>3, <1>4, <1>7, EvidenceStep

\* The test suites, record_test_run and the gate scripts.
LEMMA ScriptStep ==
    ASSUME NoneIsNoDocument, IInv,
           \/ RunTests \/ RecordTestRun \/ RunAttestations
           \/ RunProductionLoad \/ RunRestoreRehearsal \/ RunExternalAcceptance
    PROVE  IInv'
<1>1. CASE RunTests
  <2>1. PICK o \in Outcomes :
           files' = [files EXCEPT !["junit"] = Sealed([outcome |-> o, n |-> Serial("junit")])]
    BY <1>1, Zenon DEF RunTests
  <2> DEFINE d == [outcome |-> o, n |-> Serial("junit")]
  <2>2. "n" \in DOMAIN d /\ d.n = Serial("junit")
    OBVIOUS
  <2>3. /\ UNCHANGED <<now, requests, resultVars>>
        /\ Written("junit", d)
    BY <1>1, <2>1, Zenon DEF RunTests, Written
  <2> HIDE DEF d
  <2>4. "junit" \in Numbered
    BY DEF Numbered, TestFiles, ExternalFiles
  <2> QED
    BY <2>2, <2>3, <2>4, WriteFacts
<1>2. CASE RecordTestRun
  <2> DEFINE d == [status |-> IF worktree.clean /\ files["junit"].doc.outcome = "pass"
                              THEN "PASS" ELSE "FAIL",
                   revision |-> worktree.commit, clean |-> worktree.clean,
                   junit |-> files["junit"].doc, n |-> Serial("binding")]
  <2>1. "n" \in DOMAIN d /\ d.n = Serial("binding")
    OBVIOUS
  <2>2. Written("binding", d) /\ UNCHANGED <<now, requests, resultVars>>
    BY <1>2, Zenon DEF RecordTestRun, WriteEvidence, Written
  <2> HIDE DEF d
  <2>3. "binding" \in Numbered
    BY DEF Numbered, TestFiles, ExternalFiles
  <2> QED
    BY <2>1, <2>2, <2>3, WriteFacts
<1>3. ASSUME NEW f \in {"performance", "restore", "external"}, NEW status, NEW production,
             GateReport(f, status, production)
      PROVE  IInv'
  <2> DEFINE d == [status |-> status, request |-> LoadVerifiedRequest.digest,
                   production |-> production, n |-> Serial(f)]
  <2>1. "n" \in DOMAIN d /\ d.n = Serial(f)
    OBVIOUS
  <2>2. Written(f, d) /\ UNCHANGED <<now, requests, resultVars>>
    BY <1>3, Zenon DEF GateReport, WriteEvidence, Written
  <2> HIDE DEF d
  <2>3. f \in Numbered
    BY DEF Numbered, TestFiles, ExternalFiles
  <2> QED
    BY <2>1, <2>2, <2>3, WriteFacts
<1>4. CASE RunAttestations
  <2>1. PICK d \in AttestationReports(LoadVerifiedRequest) :
           Written("attestations", d)
    BY <1>4, Zenon DEF RunAttestations, WriteEvidence, Written
  <2>2. "n" \in DOMAIN d /\ d.n = Serial("attestations")
    BY <2>1 DEF AttestationReports
  <2>3. "attestations" \in Numbered
    BY DEF Numbered, TestFiles, ExternalFiles
  <2>4. UNCHANGED <<now, requests, resultVars>>
    BY <1>4 DEF RunAttestations
  <2> QED
    BY <2>1, <2>2, <2>3, <2>4, WriteFacts
<1> QED
  BY <1>1, <1>2, <1>3, <1>4 DEF RunProductionLoad, RunRestoreRehearsal, RunExternalAcceptance

\* The clock, the worktree and the signed report are not part of the argument.
LEMMA SourceStep ==
    ASSUME IInv, Tick \/ ChangeSource \/ ChangeArtifact
    PROVE  IInv'
<1>1. now' \in Nat /\ UNCHANGED <<requests, files, resultVars>>
  <2>1. CASE Tick
    BY <2>1 DEF IInv, RequestsOK, Tick
  <2>2. CASE ChangeSource \/ ChangeArtifact
    <3>1. UNCHANGED <<now, requests, files, resultVars>>
      BY <2>2, Zenon DEF ChangeSource, ChangeArtifact
    <3> QED
      BY <3>1 DEF IInv, RequestsOK
  <2> QED
    BY <2>1, <2>2
<1>2. RequestsOK' /\ Extends
  BY <1>1 DEF IInv, RequestsOK, Extends
<1>3. FilesOK' /\ Advances
  BY <1>1 DEF IInv, FilesOK, Advances
<1> QED
  BY <1>1, <1>2, <1>3, EvidenceStep

\* generate_evidence: a numbered file is left alone, is a local document with the next
\* serial number, or gets a placeholder where there was none; the sidecar of the request
\* stays.
LEMMA StepFacts ==
    ASSUME NEW g, NEW steps, files' = AfterSteps(g, steps)
    PROVE  /\ files' = [f \in EvidenceFiles |-> [doc |-> files'[f].doc, sum |-> files'[f].sum]]
           /\ files'["request"].sum = files["request"].sum
           /\ \A f \in Numbered :
                \/ files'[f].doc = files[f].doc
                \/ "n" \in DOMAIN files'[f].doc /\ files'[f].doc.n = Serial(f)
                \/ files[f].doc = None /\ files'[f].doc = Placeholder
<1> DEFINE document(f) ==
              IF f = "manifests" THEN Manifests(g, steps)
              ELSE IF f \in LocalFiles /\ DocumentStep[f] \in steps THEN LocalDocument(g, f)
              ELSE IF files[f].doc = None /\ DocumentStep["manifests"] \in steps
              THEN CASE f \in ExternalFiles -> Placeholder
                     [] f = "summary" -> [passed |-> FALSE]
                     [] OTHER -> None
              ELSE files[f].doc
           sum(f) == IF f \in DOMAIN SidecarStep /\ SidecarStep[f] \in steps
                     THEN document(f) ELSE files[f].sum
<1>1. files' = [f \in EvidenceFiles |-> [doc |-> document(f), sum |-> sum(f)]]
  BY DEF AfterSteps
<1>2. \A f \in {"source", "container"} :
         "n" \in DOMAIN LocalDocument(g, f) /\ LocalDocument(g, f).n = Serial(f)
  BY DEF LocalDocument
<1>3. \A f \in Numbered :
         /\ f \in EvidenceFiles /\ f # "manifests"
         /\ f \in {"source", "container"} \/ (f \notin LocalFiles /\ f # "summary")
         /\ f \in {"source", "container"} => f \in LocalFiles /\ f \notin ExternalFiles /\ f # "summary"
  BY DEF Numbered, EvidenceFiles, LocalFiles, TestFiles, ExternalFiles
<1>4. \A f \in Numbered :
         \/ document(f) = files[f].doc
         \/ "n" \in DOMAIN document(f) /\ document(f).n = Serial(f)
         \/ files[f].doc = None /\ document(f) = Placeholder
  <2> HIDE DEF Manifests
  <2> TAKE f \in Numbered
  <2>1. CASE f \in LocalFiles /\ DocumentStep[f] \in steps
    BY <1>2, <1>3, <2>1
  <2>2. CASE ~(f \in LocalFiles /\ DocumentStep[f] \in steps) /\ f \in ExternalFiles
    BY <1>3, <2>2
  <2>3. CASE ~(f \in LocalFiles /\ DocumentStep[f] \in steps) /\ f \notin ExternalFiles
    BY <1>3, <2>3
  <2> QED
    BY <2>1, <2>2, <2>3
<1>5. "request" \in EvidenceFiles /\ sum("request") = files["request"].sum
  BY DEF EvidenceFiles, ExternalFiles, SidecarStep
<1> HIDE DEF document, sum
<1>6. \A f \in EvidenceFiles : files'[f].doc = document(f) /\ files'[f].sum = sum(f)
  BY <1>1
<1>7. files' = [f \in EvidenceFiles |-> [doc |-> files'[f].doc, sum |-> files'[f].sum]]
  BY <1>1, <1>6
<1> QED
  BY <1>3, <1>4, <1>5, <1>6, <1>7

\* generate_evidence, from its start or after an interruption.
LEMMA GenerateStep ==
    ASSUME NoneIsNoDocument, IInv, GenerateEvidence \/ ContinueGeneration
    PROVE  IInv'
<1>1. UNCHANGED <<now, requests, resultVars>>
  BY DEF GenerateEvidence, ContinueGeneration
<1>2. \E g, steps : files' = AfterSteps(g, steps)
  BY Zenon DEF GenerateEvidence, ContinueGeneration, Generate
<1>3. /\ files' = [f \in EvidenceFiles |-> [doc |-> files'[f].doc, sum |-> files'[f].sum]]
      /\ files'["request"].sum = files["request"].sum
      /\ \A f \in Numbered :
           \/ files'[f].doc = files[f].doc
           \/ "n" \in DOMAIN files'[f].doc /\ files'[f].doc.n = Serial(f)
           \/ files[f].doc = None /\ files'[f].doc = Placeholder
  BY <1>2, StepFacts
<1>4. "n" \in DOMAIN Placeholder /\ Placeholder.n = 0 /\ Placeholder # None
  BY DEF Placeholder, NoneIsNoDocument
<1>5. \A f \in Numbered :
         Serial(f) \in Nat /\ (files[f].doc # None => files[f].doc.n < Serial(f))
  BY DEF IInv, FilesOK, Serial
<1>6. Advances
  BY <1>3, <1>4, <1>5 DEF Advances, NoneIsNoDocument
<1>7. RequestsOK' /\ Extends
  BY <1>1 DEF IInv, RequestsOK, Extends
<1>8. \A f \in Numbered : files'[f].doc # None => files'[f].doc.n \in Nat
  BY <1>6 DEF Advances, IInv, FilesOK
<1>9. FilesOK'
  BY <1>1, <1>3, <1>8 DEF IInv, FilesOK
<1> QED
  BY <1>1, <1>6, <1>7, <1>9, EvidenceStep

\* create_evidence_request and write_request: a new request is the last of the list.
LEMMA RequestStep ==
    ASSUME IInv, NEW revision \in Revisions, NEW life \in RequestLives,
           NEW policy \in DOMAIN Policies, WriteRequest(revision, life, policy)
    PROVE  IInv'
<1> PICK request : request = [release |-> Release, revision |-> revision,
                    requester |-> Requester, issued |-> now,
                    expires |-> now + life, policy |-> policy,
                    digest |-> Len(requests) + 1]
  BY Zenon
<1>1. /\ request \in EvidenceRequests /\ request.digest = Len(requests) + 1
      /\ requests \in Seq(EvidenceRequests)
  BY ReleaseAssumption DEF IInv, RequestsOK, EvidenceRequests
<1>2. /\ requests' = Append(requests, request)
      /\ Written("request", request)
      /\ UNCHANGED <<now, resultVars>>
  BY Zenon DEF WriteRequest, Written
<1>3. RequestsOK' /\ Extends /\ request = requests'[Len(requests')] /\ Len(requests') \in DOMAIN requests'
  BY <1>1, <1>2 DEF IInv, RequestsOK, Extends
<1>4. /\ files' = [g \in EvidenceFiles |-> [doc |-> files'[g].doc, sum |-> files'[g].sum]]
      /\ files'["request"].sum \in {request, files["request"].sum}
      /\ \A g \in EvidenceFiles \ {"request"} : files'[g] = files[g]
  <2>1. files = [g \in EvidenceFiles |-> [doc |-> files[g].doc, sum |-> files[g].sum]]
        /\ "request" \in EvidenceFiles
    BY DEF IInv, FilesOK, EvidenceFiles, ExternalFiles
  <2>2. PICK s \in {request, files["request"].sum} :
           files' = [files EXCEPT !["request"] = [doc |-> request, sum |-> s]]
    <3>1. CASE files' = [files EXCEPT !["request"] = Sealed(request)]
      BY <3>1 DEF Sealed
    <3>2. CASE files' = [files EXCEPT !["request"].doc = request]
      <4>1. [files["request"] EXCEPT !.doc = request] = [doc |-> request, sum |-> files["request"].sum]
        BY <2>1
      <4> QED
        BY <3>2, <4>1, Zenon
    <3> QED
      BY <1>2, <3>1, <3>2 DEF Written
  <2>3. \A g \in EvidenceFiles : files'[g] =
           IF g = "request" THEN [doc |-> request, sum |-> s]
           ELSE [doc |-> files[g].doc, sum |-> files[g].sum]
    BY <2>1, <2>2
  <2> QED
    BY <2>1, <2>2, <2>3
<1>5. Advances
  BY <1>4 DEF Advances, Numbered, EvidenceFiles, LocalFiles, TestFiles
<1>6. FilesOK'
  <2>1. \A g \in Numbered : files'[g] = files[g]
    BY <1>4 DEF Numbered, EvidenceFiles, LocalFiles, TestFiles
  <2>2. files'["request"].sum # None =>
           \E i \in DOMAIN requests' : files'["request"].sum = requests'[i]
    BY <1>3, <1>4 DEF IInv, FilesOK, Extends
  <2> QED
    BY <1>4, <2>1, <2>2, Zenon DEF IInv, FilesOK
<1> QED
  BY <1>2, <1>3, <1>5, <1>6, EvidenceStep

(***************************************************************************)
(* Judging the evidence.                                                   *)
(***************************************************************************)
\* The request in force is one that was made, and its digest is its number.
LEMMA RequestInForceFacts ==
    ASSUME IInv, NEW rev, RequestBound(rev)
    PROVE  \E i \in DOMAIN requests :
              /\ LoadVerifiedRequest = requests[i] /\ LoadVerifiedRequest.digest = i
              /\ requests[i].release = Release /\ requests[i].revision = rev
              /\ now < requests[i].expires
<1>1. /\ VerifyEvidence(files["request"]) /\ RequestInForce(files["request"].doc, MAX_LIFE, now)
      /\ LoadVerifiedRequest = files["request"].doc
  BY DEF RequestBound, LoadVerifiedRequest
<1>2. PICK i \in DOMAIN requests : files["request"].doc = requests[i]
  BY <1>1 DEF VerifyEvidence, IInv, FilesOK
<1>3. requests[i].digest = i
  BY DEF IInv, RequestsOK
<1> QED
  BY <1>1, <1>2, <1>3 DEF RequestBound, RequestInForce

\* A report passes only if each of its two parts does.
LEMMA OverallPass ==
    ASSUME NEW a, NEW b, Overall({a, b}) = "PASS"
    PROVE  a = "PASS" /\ b = "PASS"
BY DEF Overall

\* verify_attestation accepts a token only from an approved person other than the requester.
LEMMA AttestationPass ==
    ASSUME NEW token, NEW kind, NEW request, NEW report, NEW approved, NEW t,
           VerifyAttestation(token, kind, request, report, approved, t) = "PASS"
    PROVE  /\ token.sub \in approved /\ token.sub # request.requester
           /\ kind = "penetration_test" => token.findings = 0
BY DEF VerifyAttestation

\* What the verification of the embedded material establishes about the signatures.
LEMMA MaterialFacts ==
    ASSUME NEW material, NEW request, NEW report, NEW t,
           MaterialVerified(material, request, report, Policies, t)
    PROVE  LET b == material.bundle
           IN  /\ \A s \in AttestationSlots :
                    /\ b[s].sub \in Policies[request.policy][s] /\ b[s].sub # request.requester
                    /\ t < b[s].exp
               /\ \A r, s \in HUMAN_ROLES : r # s => b[r].sub # b[s].sub
               /\ b["penetration_test"].findings = 0
<1> PICK b : b = material.bundle
  OBVIOUS
<1> PICK policy : policy = Policies[material.policy]
  OBVIOUS
<1>1. /\ material.policy = request.policy
      /\ BundleStatus(b, request, report, policy, t) = "PASS"
      /\ \A s \in AttestationSlots : t < b[s].exp
  BY DEF MaterialVerified
<1>2. /\ VerifyAttestation(b["penetration_test"], "penetration_test", request, report,
                           policy["penetration_test"], t) = "PASS"
      /\ HumanAcceptance(b, request, report, policy, t) = "PASS"
  BY <1>1, OverallPass DEF BundleStatus
<1>3. /\ \A r \in HUMAN_ROLES : VerifyAttestation(b[r], "human_acceptance_vote", request,
                                                  report, policy[r], t) = "PASS"
      /\ \A r, s \in HUMAN_ROLES : r # s => b[r].sub # b[s].sub
  BY <1>2, Zenon DEF HumanAcceptance
<1>4. \A r \in HUMAN_ROLES : b[r].sub \in policy[r] /\ b[r].sub # request.requester
  BY <1>3, AttestationPass
<1>5. /\ b["penetration_test"].sub \in policy["penetration_test"]
      /\ b["penetration_test"].sub # request.requester
      /\ b["penetration_test"].findings = 0
  BY <1>2, AttestationPass
<1> QED
  BY <1>1, <1>3, <1>4, <1>5 DEF AttestationSlots

\* The digests are those of the numbered files on disk.
LEMMA HashedNow ==
    \A f \in Numbered : CollectGateEvidenceHashes[f] = files[f].doc
BY DEF CollectGateEvidenceHashes, Numbered, EvidenceFiles, LocalFiles, TestFiles, ExternalFiles

\* evaluate_production_evidence: if every gate passes, the documents now on disk are sound.
LEMMA PassedIsSound ==
    ASSUME IInv, NEW rev, EvaluateProductionEvidence(rev) = MANDATORY_GATES
    PROVE  Sound(CollectGateEvidenceHashes, rev, now)
<1> PICK h : h = CollectGateEvidenceHashes
  OBVIOUS
<1> USE DEF Numbered, TestFiles, ExternalFiles
<1>1. \A f \in Numbered : h[f] = files[f].doc
  BY HashedNow
<1>2. /\ TestsPass(rev) /\ BuildPass(rev) /\ AttestationsPass(rev) /\ PerformancePass(rev)
      /\ ReportBound("restore", rev) /\ ReportBound("external", rev)
  <2> USE DEF EvaluateProductionEvidence, MANDATORY_GATES
  <2>1. "build" \in MANDATORY_GATES => TestsPass(rev) /\ BuildPass(rev)
    BY Zenon
  <2>2. "security" \in MANDATORY_GATES => AttestationsPass(rev)
    BY Zenon
  <2>3. "performance" \in MANDATORY_GATES => PerformancePass(rev)
    BY Zenon
  <2>4. "backup_restore" \in MANDATORY_GATES => ReportBound("restore", rev)
    BY Zenon
  <2>5. "external_integrations" \in MANDATORY_GATES => ReportBound("external", rev)
    BY Zenon
  <2> HIDE DEF EvaluateProductionEvidence
  <2> QED
    BY <2>1, <2>2, <2>3, <2>4, <2>5
<1>3. \A f \in Reports : ReportBound(f, rev)
  BY <1>2 DEF AttestationsPass, PerformancePass, Reports
<1>4. RequestBound(rev)
  BY <1>2 DEF AttestationsPass, ReportBound
<1>5. PICK i \in DOMAIN requests :
         /\ LoadVerifiedRequest = requests[i] /\ LoadVerifiedRequest.digest = i
         /\ requests[i].release = Release /\ requests[i].revision = rev
         /\ now < requests[i].expires
  BY <1>4, RequestInForceFacts
<1>6. \A f \in Reports : h[f].status = "PASS" /\ h[f].request = i
  BY <1>1, <1>3, <1>5 DEF ReportBound, Reports
<1>7. h["performance"].production
  BY <1>1, <1>2 DEF PerformancePass
<1>8. h["source"].revision = rev /\ h["container"].revision = rev
  BY <1>1, <1>2 DEF BuildPass
<1>9. /\ h["binding"].junit = h["junit"] /\ h["binding"].revision = rev
      /\ h["junit"].outcome = "pass"
  BY <1>1, <1>2 DEF TestsPass
<1>10. OnOneRequest(h, rev, now)
  BY <1>5, <1>6, <1>7, <1>8, <1>9 DEF OnOneRequest
<1>11. Separated(h, now)
  <2>1. h["attestations"].request = i /\ h["attestations"] = files["attestations"].doc
    BY <1>1, <1>6 DEF Reports
  <2>2. MaterialVerified(h["attestations"].material, requests[i], artifact, Policies, now)
    BY <1>2, <1>5, <2>1 DEF AttestationsPass
  <2> QED
    BY <2>1, <2>2, MaterialFacts DEF Separated
<1> QED
  BY <1>10, <1>11 DEF Sound
\* What certify_release puts on a certificate that is CERTIFIED.
LEMMA CertifiedFacts ==
    ASSUME NEW rev, NEW generated, NEW passed, NEW c,
           c = CertifyRelease(rev, generated, passed), c.certified
    PROVE  /\ c.release = Release /\ c.commit = rev /\ passed
           /\ \A f \in Numbered : files[f].doc # None /\ c.hashes[f] = files[f].doc
<1> DEFINE whole == \A g \in MANDATORY_GATES : \A f \in GateEvidence[g] :
                       CollectGateEvidenceHashes[f] # None
<1>1. c.release = Release /\ c.commit = rev /\ (passed /\ whole)
      /\ c.hashes = CollectGateEvidenceHashes
  BY DEF CertifyRelease
<1>3. \A f \in Numbered : \E g \in MANDATORY_GATES : f \in GateEvidence[g]
  BY DEF Numbered, TestFiles, ExternalFiles, MANDATORY_GATES, GateEvidence
<1>4. \A f \in Numbered : CollectGateEvidenceHashes[f] # None
  <2>1. whole
    BY <1>1
  <2> QED
    BY <1>3, <2>1
<1> HIDE DEF whole
<1> QED
  BY <1>1, <1>4, HashedNow, Zenon

\* Soundness is about the documents of the files.
LEMMA SoundPointwise ==
    ASSUME NEW g, NEW h, \A f \in Numbered : g[f] = h[f], NEW commit, NEW at, Sound(g, commit, at)
    PROVE  Sound(h, commit, at)
<1>1. /\ \A f \in {"source", "container", "binding"} : g[f] = h[f]
      /\ g["binding"] = h["binding"] /\ g["junit"] = h["junit"]
      /\ g["attestations"] = h["attestations"] /\ g["performance"] = h["performance"]
      /\ \A f \in Reports : g[f] = h[f]
  BY DEF Numbered, TestFiles, ExternalFiles, Reports
<1>2. OnOneRequest(h, commit, at)
  BY <1>1 DEF Sound, OnOneRequest
<1>3. Separated(h, at)
  BY <1>1 DEF Sound, Separated
<1> QED
  BY <1>2, <1>3 DEF Sound

(***************************************************************************)
(* The evaluations: judging, saving, publishing.                           *)
(***************************************************************************)
\* What stays true while no evidence is written.
LEMMA Frozen ==
    ASSUME IInv, UNCHANGED <<now, requests, files>>
    PROVE  /\ RequestsOK' /\ FilesOK'
           /\ \A run : RunOK(run) => RunOK(run)'
           /\ \A e : EvalOK(e) => EvalOK(e)'
           /\ \A p : CertificateOK(p) => CertificateOK(p)'
<1>1. RequestsOK' /\ FilesOK'
  BY Zenon DEF IInv, RequestsOK, FilesOK
<1>2. ASSUME NEW h, NEW commit, NEW at
      PROVE  /\ Past(h) => Past(h)'
             /\ Overtaken(h) => Overtaken(h)'
             /\ Sound(h, commit, at) => Sound(h, commit, at)'
  BY DEF Past, Overtaken, Sound, OnOneRequest, Separated
<1>3. \A run : RunOK(run) => RunOK(run)'
  BY <1>2 DEF RunOK
<1>4. \A e : EvalOK(e) => EvalOK(e)'
  BY <1>2 DEF EvalOK
<1>5. \A p : CertificateOK(p) => CertificateOK(p)'
  BY <1>2 DEF CertificateOK
<1> QED
  BY <1>1, <1>3, <1>4, <1>5

\* The endpoint judges the files as they are; if none was written since the run was
\* saved, they are the files of the run.
LEMMA JudgedIsSound ==
    ASSUME IInv, NEW run, run.certified, RunOK(run), ~Overtaken(run.hashes),
           EvaluateProductionEvidence(run.commit) = MANDATORY_GATES
    PROVE  Sound(run.hashes, run.commit, now)
<1>1. Sound(CollectGateEvidenceHashes, run.commit, now)
  BY PassedIsSound
<1>2. \A f \in Numbered : CollectGateEvidenceHashes[f] = run.hashes[f]
  <2> TAKE f \in Numbered
  <2>1. files[f].doc.n \in Nat /\ run.hashes[f].n \in Nat
        /\ run.hashes[f].n <= files[f].doc.n /\ ~(run.hashes[f].n < files[f].doc.n)
    BY Zenon DEF RunOK, Past, Overtaken, IInv, FilesOK
  <2>2. run.hashes[f] = files[f].doc
    BY <2>1 DEF RunOK, Past
  <2> QED
    BY <2>2, HashedNow
<1> QED
  BY <1>1, <1>2, SoundPointwise

LEMMA JudgeStep ==
    ASSUME IInv, JudgeForRun \/ JudgeForPublish
    PROVE  IInv'
<1>1. UNCHANGED <<now, requests, files, saved, published>>
  BY DEF JudgeForRun, JudgeForPublish, Judge
<1>2. PICK e : evals' = evals \cup {e} /\ EvalOK(e)
  <2>1. CASE JudgeForRun
    <3>1. PICK rev \in Commits : Judge("run", rev, now, None)
      BY <2>1 DEF JudgeForRun
    <3> DEFINE e == [for |-> "run", revision |-> rev, at |-> now, generated |-> now,
                     run |-> None,
                     passed |-> EvaluateProductionEvidence(rev) = MANDATORY_GATES]
    <3>2. evals' = evals \cup {e}
      BY <3>1, Zenon DEF Judge
    <3>3. e.for = "run"
      OBVIOUS
    <3> HIDE DEF e
    <3> QED
      BY <3>2, <3>3 DEF EvalOK
  <2>2. CASE JudgeForPublish
    <3>1. PICK run \in saved : Judge("publish", run.commit, run.generated, run)
      BY <2>2 DEF JudgeForPublish
    <3> DEFINE passed == EvaluateProductionEvidence(run.commit) = MANDATORY_GATES
               e == [for |-> "publish", revision |-> run.commit, at |-> now,
                     generated |-> run.generated, run |-> run, passed |-> passed]
    <3>2. evals' = evals \cup {e}
      BY <3>1, Zenon DEF Judge
    <3>3. RunOK(run)
      BY DEF IInv, ResultsOK
    <3>4. run.certified /\ passed => Sound(run.hashes, run.commit, now) \/ Overtaken(run.hashes)
      BY <3>3, JudgedIsSound
    <3> HIDE DEF passed
    <3>5. /\ e.run = run /\ e.revision = run.commit /\ e.at = now /\ e.passed = passed
      OBVIOUS
    <3> HIDE DEF e
    <3> QED
      BY <3>2, <3>3, <3>4, <3>5 DEF EvalOK, RunOK
  <2> QED
    BY <2>1, <2>2
<1> QED
  BY <1>1, <1>2, Frozen DEF IInv, ResultsOK

\* The run that is saved carries the documents now on disk.
LEMMA SaveRunStep ==
    ASSUME IInv, SaveRun
    PROVE  IInv'
<1>1. UNCHANGED <<now, requests, files, published>>
  BY DEF SaveRun
<1>2. PICK e \in evals : /\ evals' = evals \ {e}
                         /\ saved' = saved \cup {CertifyRelease(e.revision, e.generated, e.passed)}
  BY DEF SaveRun
<1> PICK c : c = CertifyRelease(e.revision, e.generated, e.passed)
  OBVIOUS
<1>3. RunOK(c)
  <2> SUFFICES ASSUME c.certified PROVE Past(c.hashes)
    BY DEF RunOK
  <2>1. \A f \in Numbered : files[f].doc # None /\ c.hashes[f] = files[f].doc
    BY CertifiedFacts
  <2>2. \A f \in Numbered : files[f].doc.n \in Nat
    BY <2>1 DEF IInv, FilesOK
  <2> QED
    BY <2>1, <2>2 DEF Past
<1> QED
  BY <1>1, <1>2, <1>3, Frozen DEF IInv, ResultsOK

\* A certificate is published only if it equals the run, so no file was written between
\* the hashing of the run and the hashing after the judgement: the files were judged.
LEMMA PublishStep ==
    ASSUME IInv, Publish
    PROVE  IInv'
<1>1. UNCHANGED <<now, requests, files, saved>>
  BY DEF Publish
<1>2. PICK e \in evals :
        LET c == CertifyRelease(e.revision, e.generated, e.passed)
        IN  /\ e.for = "publish"
            /\ evals' = evals \ {e}
            /\ published' = IF Publishable(c, e.run)
                            THEN published \cup {[certificate |-> c, judged |-> e.at]}
                            ELSE published
  BY Zenon DEF Publish
<1> PICK c : c = CertifyRelease(e.revision, e.generated, e.passed)
  OBVIOUS
<1>3. ASSUME Publishable(c, e.run) PROVE CertificateOK([certificate |-> c, judged |-> e.at])
  <2>1. c = e.run /\ c.certified
    BY <1>3 DEF Publishable, Signable
  <2>2. /\ c.release = Release /\ c.commit = e.revision /\ e.passed
        /\ \A f \in Numbered : c.hashes[f] = files[f].doc
    <3>1. PICK rev, generated, passed :
             rev = e.revision /\ generated = e.generated /\ passed = e.passed
      OBVIOUS
    <3>2. c = CertifyRelease(rev, generated, passed)
      BY <3>1
    <3>3. /\ c.release = Release /\ c.commit = rev
          /\ \A f \in Numbered : c.hashes[f] = files[f].doc
      BY <2>1, <3>2, CertifiedFacts
    <3>4. passed
      BY <2>1, <3>2, CertifiedFacts
    <3> QED
      BY <3>1, <3>3, <3>4
  <2>3. Sound(c.hashes, c.commit, e.at) \/ Overtaken(c.hashes)
    BY <1>2, <2>1, <2>2 DEF IInv, ResultsOK, EvalOK
  <2>4. ~Overtaken(c.hashes)
    <3> SUFFICES ASSUME NEW f \in Numbered, c.hashes[f].n < files[f].doc.n PROVE FALSE
      BY DEF Overtaken
    <3>1. c.hashes[f] = files[f].doc /\ c.hashes[f].n \in Nat
      BY <1>2, <2>1, <2>2 DEF IInv, ResultsOK, EvalOK, Past
    <3> QED
      BY <3>1
  <2> QED
    BY <2>2, <2>3, <2>4 DEF CertificateOK
<1>4. \A p \in published' : CertificateOK(p)
  BY <1>2, <1>3 DEF IInv, ResultsOK
<1> QED
  BY <1>1, <1>2, <1>4, Frozen DEF IInv, ResultsOK
(***************************************************************************)
(* The theorems.                                                           *)
(***************************************************************************)
LEMMA InitIInv ==
    Init => IInv
<1> SUFFICES ASSUME Init PROVE IInv
  OBVIOUS
<1>1. RequestsOK
  BY DEF Init, RequestsOK
<1>2. FilesOK
  BY DEF Init, FilesOK, Missing, Numbered, EvidenceFiles, LocalFiles, TestFiles, ExternalFiles
<1>3. ResultsOK
  BY DEF Init, ResultsOK
<1> QED
  BY <1>1, <1>2, <1>3 DEF IInv

LEMMA NextIInv ==
    ASSUME NoneIsNoDocument, IInv, [Next]_vars
    PROVE  IInv'
<1>1. CASE Tick \/ ChangeSource \/ ChangeArtifact
  BY <1>1, SourceStep
<1>2. CASE \/ RunTests \/ RecordTestRun \/ RunAttestations
           \/ RunProductionLoad \/ RunRestoreRehearsal \/ RunExternalAcceptance
  BY <1>2, ScriptStep
<1>3. CASE GenerateEvidence \/ ContinueGeneration
  BY <1>3, GenerateStep
<1>4. CASE RequestEvidence \/ RotateRequest
  <2>1. PICK r \in Revisions, life \in RequestLives, policy \in DOMAIN Policies :
           WriteRequest(r, life, policy)
    BY <1>4 DEF RequestEvidence, RotateRequest
  <2> QED
    BY <2>1, RequestStep
<1>5. CASE JudgeForRun \/ JudgeForPublish
  BY <1>5, JudgeStep
<1>6. CASE SaveRun \/ Publish
  BY <1>6, SaveRunStep, PublishStep
<1>7. CASE UNCHANGED vars
  <2>1. UNCHANGED <<now, requests, files, evals, saved, published>>
    BY <1>7 DEF vars
  <2> QED
    BY <2>1, Frozen DEF IInv, ResultsOK
<1> QED
  BY <1>1, <1>2, <1>3, <1>4, <1>5, <1>6, <1>7 DEF Next

\* The inductive invariant holds of every behaviour, for any people, policies, revisions,
\* lifetimes and bounds.
THEOREM Invariance ==
    ASSUME NoneIsNoDocument
    PROVE  Spec => []IInv
<1>1. IInv /\ [Next]_vars => IInv'
  BY NextIInv
<1> QED
  BY InitIInv, <1>1, PTL DEF Spec

\* The publish endpoint: a certificate is published only if the external reports it carries
\* answer one request in force when they were judged, the load report is of production, and
\* the test reports, the source binding and the images are of its commit, although the files
\* are judged first and hashed later and generate_evidence can stop between any two writes.
THEOREM OneRequest ==
    ASSUME NoneIsNoDocument
    PROVE  Spec => []PublishedOnOneRequest
<1>1. IInv => PublishedOnOneRequest
  BY DEF IInv, ResultsOK, CertificateOK, Sound, OnOneRequest, Reports, PublishedOnOneRequest
<1> QED
  BY <1>1, Invariance, PTL

\* verify_attestation and verify_human_acceptance: whoever asked for the evidence of a
\* published release signed none of it, and its owners are different people.
THEOREM SeparatedDuties ==
    ASSUME NoneIsNoDocument
    PROVE  Spec => []DutiesAreSeparated
<1>1. IInv => DutiesAreSeparated
  BY Zenon DEF IInv, ResultsOK, CertificateOK, Sound, Separated, DutiesAreSeparated
<1> QED
  BY <1>1, Invariance, PTL

\* Every request but the first is counted as an upset, which bounds their number.
TypeInv ==
    /\ TypeOK
    /\ Len(requests) <= upsets + 1
    /\ generation # None => "next" \in DOMAIN generation

\* An upset is counted or not, within the bound.
LEMMA UpsetFacts ==
    ASSUME TypeInv, NEW bad, Upset(bad)
    PROVE  /\ upsets' \in 0 .. MaxUpsets /\ upsets <= upsets'
           /\ bad => upsets' = upsets + 1
BY ReleaseAssumption DEF TypeInv, TypeOK, Upset

\* An interrupted generate_evidence has steps left.
LEMMA GenerationStep ==
    ASSUME GenerateEvidence \/ ContinueGeneration, TypeInv
    PROVE  generation' # None => generation'.next \in 2 .. LastStep /\ "next" \in DOMAIN generation'
<1>1. ASSUME NEW g, "next" \in DOMAIN g, NEW from \in 1 .. LastStep, Generate(g, from)
      PROVE  generation' # None =>
                generation'.next \in 2 .. LastStep /\ "next" \in DOMAIN generation'
  <2>1. PICK to \in from .. LastStep :
           generation' = IF to = LastStep THEN None ELSE [g EXCEPT !.next = to + 1]
    BY <1>1 DEF Generate
  <2>2. [g EXCEPT !.next = to + 1].next = to + 1 /\ "next" \in DOMAIN [g EXCEPT !.next = to + 1]
    BY <1>1
  <2>3. to # LastStep => to + 1 \in 2 .. LastStep
    BY DEF LastStep
  <2> QED
    BY <2>1, <2>2, <2>3
<1>2. CASE GenerateEvidence
  <2>1. PICK broken \in LocalOutcomes :
           Generate([revision |-> SourceRevision, clean |-> worktree.clean,
                     tests |-> TestsPassed, broken |-> broken, next |-> 1], 1)
    BY <1>2, Zenon DEF GenerateEvidence
  <2>2. "next" \in DOMAIN [revision |-> SourceRevision, clean |-> worktree.clean,
                           tests |-> TestsPassed, broken |-> broken, next |-> 1]
    OBVIOUS
  <2>3. 1 \in 1 .. LastStep
    BY DEF LastStep
  <2> QED
    BY <1>1, <2>1, <2>2, <2>3, Zenon
<1>3. CASE ContinueGeneration
  <2>1. /\ Generate(generation, generation.next) /\ "next" \in DOMAIN generation
        /\ generation.next \in 2 .. LastStep
    BY <1>3 DEF ContinueGeneration, TypeInv, TypeOK
  <2>2. generation.next \in 1 .. LastStep
    BY <2>1
  <2> QED
    BY <1>1, <2>1, <2>2, Zenon
<1> QED
  BY <1>2, <1>3

LEMMA TypeNext ==
    ASSUME NoneIsNoDocument, IInv, TypeInv, [Next]_vars
    PROVE  TypeInv'
<1>1. DOMAIN files' = EvidenceFiles
  BY NextIInv DEF IInv, FilesOK
<1>2. requests \in Seq(EvidenceRequests) /\ now \in Nat
  BY DEF IInv, RequestsOK
<1>3. ASSUME upsets' \in 0 .. MaxUpsets, upsets <= upsets', UNCHANGED requests,
             now' \in 0 .. MaxTime, artifact' \in 0 .. 1,
             worktree' \in [commit : Revisions, clean : BOOLEAN],
             \/ UNCHANGED generation
             \/ generation' # None =>
                  generation'.next \in 2 .. LastStep /\ "next" \in DOMAIN generation',
             \A e \in evals' : e \in evals \/ e.for \in {"run", "publish"}
      PROVE  TypeInv'
  BY <1>1, <1>2, <1>3, ReleaseAssumption DEF TypeInv, TypeOK
<1>4. /\ upsets \in 0 .. MaxUpsets /\ now \in 0 .. MaxTime /\ artifact \in 0 .. 1
      /\ worktree \in [commit : Revisions, clean : BOOLEAN]
  BY DEF TypeInv, TypeOK
<1>5. CASE Tick
  BY <1>3, <1>4, <1>5, ReleaseAssumption DEF Tick, resultVars
<1>6. CASE ChangeSource \/ ChangeArtifact
  <2>1. upsets' \in 0 .. MaxUpsets /\ upsets <= upsets'
    BY <1>6, UpsetFacts, Zenon DEF ChangeSource, ChangeArtifact
  <2>2. UNCHANGED <<now, requests, generation, evals>> /\ artifact' \in 0 .. 1
    <3>1. CASE ChangeSource
      BY <1>4, <3>1 DEF ChangeSource, resultVars
    <3>2. CASE ChangeArtifact
      <4>1. artifact' = 1
        BY <3>2 DEF ChangeArtifact
      <4> QED
        BY <3>2, <4>1 DEF ChangeArtifact, resultVars
    <3> QED
      BY <1>6, <3>1, <3>2
  <2>3. worktree' \in [commit : Revisions, clean : BOOLEAN]
    <3>1. CASE UNCHANGED worktree
      BY <1>4, <3>1
    <3>2. CASE \E r \in Revisions : worktree' = [commit |-> r, clean |-> TRUE]
      BY <3>2
    <3>3. CASE worktree' = [worktree EXCEPT !.clean = FALSE]
      BY <1>4, <3>3, Zenon
    <3> QED
      BY <1>6, <3>1, <3>2, <3>3, Zenon DEF ChangeSource, ChangeArtifact
  <2> QED
    BY <1>3, <1>4, <2>1, <2>2, <2>3
<1>7. CASE \/ RunTests \/ RecordTestRun \/ RunAttestations
           \/ RunProductionLoad \/ RunRestoreRehearsal \/ RunExternalAcceptance
  <2>1. \E bad : Upset(bad)
    BY <1>7, Zenon DEF RunTests, RecordTestRun, RunAttestations, RunProductionLoad,
                RunRestoreRehearsal, RunExternalAcceptance, GateReport, WriteEvidence
  <2>2. UNCHANGED <<now, worktree, artifact, requests, generation, resultVars>>
    BY <1>7, Zenon DEF RunTests, RecordTestRun, RunAttestations, RunProductionLoad,
                RunRestoreRehearsal, RunExternalAcceptance, GateReport
  <2> QED
    BY <1>3, <1>4, <2>1, <2>2, UpsetFacts DEF resultVars
<1>8. CASE GenerateEvidence \/ ContinueGeneration
  <2>1. \E bad : Upset(bad)
    BY <1>8, Zenon DEF GenerateEvidence, ContinueGeneration, Generate
  <2>2. UNCHANGED <<now, worktree, artifact, requests, resultVars>>
    BY <1>8, Zenon DEF GenerateEvidence, ContinueGeneration
  <2> QED
    BY <1>3, <1>4, <1>8, <2>1, <2>2, UpsetFacts, GenerationStep DEF resultVars
<1>9. CASE RequestEvidence \/ RotateRequest
  <2>1. PICK r \in Revisions, life \in RequestLives, policy \in DOMAIN Policies :
           WriteRequest(r, life, policy)
    BY <1>9 DEF RequestEvidence, RotateRequest
  <2>2. /\ UNCHANGED <<now, worktree, artifact, generation, resultVars>>
        /\ \E request : requests' = Append(requests, request)
        /\ Upset(requests # <<>> \/ r # worktree.commit) \/ Upset(TRUE)
    BY <2>1, Zenon DEF WriteRequest
  <2>3. Len(requests') = Len(requests) + 1
    BY <1>2, <2>2
  <2>4. upsets' \in 0 .. MaxUpsets /\ upsets <= upsets'
    BY <2>2, UpsetFacts, Zenon
  <2>5. requests = <<>> \/ upsets' = upsets + 1
    BY <2>2, UpsetFacts, Zenon
  <2>6. Len(requests') <= upsets' + 1
    <3>1. Len(requests) \in Nat /\ Len(requests) <= upsets + 1
      BY <1>2 DEF TypeInv
    <3>2. requests = <<>> => Len(requests) = 0
      OBVIOUS
    <3> QED
      BY <1>4, <2>3, <2>4, <2>5, <3>1, <3>2
  <2>7. Len(requests') <= MaxUpsets + 1
    BY <2>3, <2>4, <2>6, <1>2, ReleaseAssumption
  <2> QED
    BY <1>1, <1>4, <2>2, <2>4, <2>6, <2>7 DEF TypeInv, TypeOK, resultVars
<1>10. CASE JudgeForRun \/ JudgeForPublish
  <2>1. PICK purpose \in {"run", "publish"} :
           \E rev, generated, run : Judge(purpose, rev, generated, run)
    BY <1>10, Zenon DEF JudgeForRun, JudgeForPublish
  <2>2. /\ UNCHANGED <<now, worktree, artifact, requests, generation>>
        /\ \E bad : Upset(bad)
        /\ \E e : e.for = purpose /\ evals' = evals \cup {e}
    BY <2>1 DEF Judge
  <2>3. upsets' \in 0 .. MaxUpsets /\ upsets <= upsets'
    BY <2>2, UpsetFacts
  <2> QED
    BY <1>3, <1>4, <2>2, <2>3
<1>11. CASE SaveRun \/ Publish
  <2>1. /\ UNCHANGED <<now, worktree, artifact, requests, generation, upsets>>
        /\ evals' \subseteq evals
    BY <1>11 DEF SaveRun, Publish
  <2> QED
    BY <1>3, <1>4, <2>1
<1>12. CASE UNCHANGED vars
  BY <1>3, <1>4, <1>12 DEF vars
<1> QED
  BY <1>5, <1>6, <1>7, <1>8, <1>9, <1>10, <1>11, <1>12 DEF Next

\* The variables keep their types, and the bound on upsets bounds the requests.
THEOREM TypeCorrect ==
    ASSUME NoneIsNoDocument
    PROVE  Spec => []TypeOK
<1>1. Init => TypeInv
  <2> SUFFICES ASSUME Init PROVE TypeInv
    OBVIOUS
  <2>1. worktree \in [commit : Revisions, clean : BOOLEAN]
    BY DEF Init
  <2>2. DOMAIN files = EvidenceFiles
    BY InitIInv DEF IInv, FilesOK
  <2>3. Len(requests) = 0
    BY DEF Init
  <2>4. /\ now \in 0 .. MaxTime /\ artifact \in 0 .. 1 /\ upsets \in 0 .. MaxUpsets
        /\ generation = None /\ evals = {} /\ upsets = 0
    BY ReleaseAssumption DEF Init
  <2> QED
    BY <2>1, <2>2, <2>3, <2>4, ReleaseAssumption DEF TypeInv, TypeOK
<1>2. IInv /\ TypeInv /\ [Next]_vars => TypeInv'
  BY TypeNext
<1>3. TypeInv => TypeOK
  BY DEF TypeInv
<1> QED
  BY <1>1, <1>2, <1>3, Invariance, PTL DEF Spec
(***************************************************************************)
(* The repository.  While no two saves overlap, whoever is about to write  *)
(* a document agrees with the one on disk, if there is one: the run is     *)
(* fixed by the only save, the certificate by the run, the revocation by   *)
(* the certificate.                                                        *)
(***************************************************************************)
CONSTANTS Processes, Results, Certified, MaxEvents
VARIABLES repo, calls, overlapped, acknowledged

Lifecycle == INSTANCE CertificationRepository

\* None is no result document.
NoneIsNoResult == None \notin [result : Results, by : Processes]

Lasting == {"run", "certificate", "revocation"}

RepoOK ==
    /\ repo = [f \in Lifecycle!RepoFiles |-> [doc |-> repo[f].doc, sum |-> repo[f].sum]]
    /\ \A f \in Lasting :
         repo[f].doc # None => repo[f].doc \in [result : Results, by : Processes]

\* What each kind of call writes; of the lasting files, only its own.
Target == [save |-> "run", publish |-> "certificate", revoke |-> "revocation"]
Entries ==
    [save |-> {"CertificationStarted", "GateFailed", "run"},
     publish |-> {"certificate", "ReleaseCertified"},
     revoke |-> {"revocation", "CertificationRevoked", "registry"}]
Ops == {"save", "publish", "revoke"}

WritingOK(p, op, result, w) ==
    /\ w.file \in Lifecycle!RepoFiles
    /\ w.file \in Lasting => w.file = Target[op] /\ w.doc = [result |-> result, by |-> p]

CallOK(p, call) ==
    /\ DOMAIN call = {"op", "result", "checked", "todo", "writing", "placed"}
    /\ call.op \in Ops /\ call.result \in Results
    /\ call.todo \in Seq(Entries[call.op])
    /\ call.writing # None =>
         call.todo # <<>> /\ WritingOK(p, call.op, call.result, call.writing)
    /\ call.placed => call.writing # None

CallsOK ==
    /\ calls = [p \in Processes |-> calls[p]]
    /\ \A p \in Processes : calls[p] # None => CallOK(p, calls[p])

\* File f has a document of this result.
Names(f, result) == repo[f].doc # None /\ repo[f].doc.result = result

\* What a call relies on when it comes to writing.
Agrees(op, result) ==
    /\ op = "save" => repo["run"].doc = None \/ repo["run"].doc.result = result
    /\ op = "publish" => Names("run", result)
    /\ op = "revoke" => Names("certificate", result)

Chained ==
    /\ repo["certificate"].doc # None => Names("run", repo["certificate"].doc.result)
    /\ repo["revocation"].doc # None => Names("certificate", repo["revocation"].doc.result)

NotOverlapped ==
    /\ Chained
    /\ \A p \in Processes : calls[p] # None => Agrees(calls[p].op, calls[p].result)
    /\ \A p, q \in Processes : Lifecycle!Saving(p) /\ Lifecycle!Saving(q) => p = q

LifecycleInv == RepoOK /\ CallsOK /\ (~overlapped => NotOverlapped)

\* A step that writes no document: process p gets another call, or none.
LEMMA CallStep ==
    ASSUME LifecycleInv, NEW p \in Processes, NEW call,
           repo' = repo \/ (RepoOK' /\ \A f \in Lasting : repo'[f].doc = repo[f].doc),
           calls' = [calls EXCEPT ![p] = call],
           overlapped => overlapped',
           call # None => CallOK(p, call),
           call # None /\ ~overlapped' => Agrees(call.op, call.result),
           call # None /\ call.op = "save" /\ ~overlapped' =>
               Lifecycle!Saving(p) \/ \A q \in Processes : ~Lifecycle!Saving(q)
    PROVE  LifecycleInv' /\ Lifecycle!KeepsLifecycle
<1>1. RepoOK' /\ \A f \in Lasting : repo'[f].doc = repo[f].doc
  BY DEF LifecycleInv, RepoOK
<1>2. /\ calls' = [q \in Processes |-> calls'[q]]
      /\ \A q \in Processes : calls'[q] = IF q = p THEN call ELSE calls[q]
  <2>1. calls = [q \in Processes |-> calls[q]]
    BY DEF LifecycleInv, CallsOK
  <2> QED
    BY <2>1
<1>3. CallsOK'
  <2>1. \A q \in Processes : calls'[q] # None => CallOK(q, calls'[q])
    BY <1>2 DEF LifecycleInv, CallsOK
  <2> QED
    BY <1>2, <2>1 DEF CallsOK, CallOK, WritingOK
<1>4. ASSUME ~overlapped' PROVE Chained /\ Chained' /\ NotOverlapped'
  <2>1. NotOverlapped
    BY <1>4 DEF LifecycleInv
  <2>2. Chained'
    BY <1>1, <2>1 DEF NotOverlapped, Chained, Names, Lasting
  <2>3. \A q \in Processes : (calls[q] # None => Agrees(calls[q].op, calls[q].result))'
    <3> SUFFICES ASSUME NEW q \in Processes, calls'[q] # None
                 PROVE  Agrees(calls[q].op, calls[q].result)'
      OBVIOUS
    <3>1. PICK op, result : op = calls'[q].op /\ result = calls'[q].result
      OBVIOUS
    <3>2. Agrees(op, result)
      BY <1>2, <1>4, <2>1, <3>1 DEF NotOverlapped
    <3>3. Agrees(op, result)'
      BY <1>1, <3>2 DEF Agrees, Names, Lasting
    <3> QED
      BY <3>1, <3>3 DEF Agrees
  <2>4. \A q, r \in Processes : Lifecycle!Saving(q)' /\ Lifecycle!Saving(r)' => q = r
    BY <1>2, <1>4, <2>1 DEF NotOverlapped, Lifecycle!Saving
  <2> QED
    BY <2>1, <2>2, <2>3, <2>4 DEF NotOverlapped
<1>5. Lifecycle!KeepsLifecycle
  BY <1>1, <1>4 DEF Lifecycle!KeepsLifecycle, Lifecycle!Exists, Chained, Names, Lasting
<1> QED
  BY <1>1, <1>3, <1>4, <1>5 DEF LifecycleInv
\* A call that goes on is well-formed and still of its kind: when it has composed a
\* document, when it has placed it or its sidecar, when its check let it write.
Composing(call, w) == [call EXCEPT !.writing = w]

LEMMA CallComposes ==
    ASSUME NEW p, NEW call, CallOK(p, call), call.todo # <<>>, call.writing = None,
           NEW w, WritingOK(p, call.op, call.result, w),
           NEW next, next = Composing(call, w)
    PROVE  CallOK(p, next) /\ next.op = call.op /\ next.result = call.result
<1>1. /\ DOMAIN next = DOMAIN call /\ next.writing = w
      /\ \A k \in DOMAIN call \ {"writing"} : next[k] = call[k]
  BY DEF CallOK, Composing
<1>2. /\ next.op = call.op /\ next.result = call.result /\ next.todo = call.todo
      /\ next.placed = call.placed
  BY <1>1 DEF CallOK
<1> QED
  BY <1>1, <1>2 DEF CallOK

LEMMA CallGoesOn ==
    ASSUME NEW p, NEW call, CallOK(p, call)
    PROVE  /\ call.writing # None =>
                LET next == [call EXCEPT !.placed = TRUE]
                IN  CallOK(p, next) /\ next.op = call.op /\ next.result = call.result
           /\ call.writing # None =>
                LET next == Lifecycle!Written(call)
                IN  CallOK(p, next) /\ next.op = call.op /\ next.result = call.result
           /\ \A todo \in Seq(Entries[call.op]) : todo # <<>> =>
                LET next == Lifecycle!Writes(call, todo)
                IN  CallOK(p, next) /\ next.op = call.op /\ next.result = call.result
<1>1. ASSUME call.writing # None
      PROVE  LET next == [call EXCEPT !.placed = TRUE]
             IN  CallOK(p, next) /\ next.op = call.op /\ next.result = call.result
  <2>1. PICK next : next = [call EXCEPT !.placed = TRUE]
    OBVIOUS
  <2>2. /\ DOMAIN next = DOMAIN call
        /\ \A k \in DOMAIN call \ {"placed"} : next[k] = call[k]
    BY <2>1 DEF CallOK
  <2>3. /\ next.op = call.op /\ next.result = call.result /\ next.todo = call.todo
        /\ next.writing = call.writing
    BY <2>2 DEF CallOK
  <2>4. CallOK(p, next)
    BY <1>1, <2>2, <2>3 DEF CallOK
  <2> QED
    BY <2>1, <2>3, <2>4
<1>2. ASSUME call.writing # None
      PROVE  LET next == Lifecycle!Written(call)
             IN  CallOK(p, next) /\ next.op = call.op /\ next.result = call.result
  <2>1. PICK next : next = Lifecycle!Written(call)
    OBVIOUS
  <2>2. /\ DOMAIN next = DOMAIN call /\ next.todo = Tail(call.todo) /\ next.writing = None
        /\ next.placed = FALSE /\ next.op = call.op /\ next.result = call.result
    BY <2>1 DEF CallOK, Lifecycle!Written
  <2>3. Tail(call.todo) \in Seq(Entries[call.op])
    BY <1>2 DEF CallOK
  <2>4. CallOK(p, next)
    BY <2>2, <2>3 DEF CallOK
  <2> QED
    BY <2>1, <2>2, <2>4
<1>3. ASSUME NEW todo \in Seq(Entries[call.op]), todo # <<>>
      PROVE  LET next == Lifecycle!Writes(call, todo)
             IN  CallOK(p, next) /\ next.op = call.op /\ next.result = call.result
  <2>1. PICK next : next = Lifecycle!Writes(call, todo)
    OBVIOUS
  <2>2. /\ DOMAIN next = DOMAIN call /\ next.todo = todo /\ next.writing = call.writing
        /\ next.placed = call.placed /\ next.op = call.op /\ next.result = call.result
    BY <2>1 DEF CallOK, Lifecycle!Writes
  <2>3. CallOK(p, next)
    BY <1>3, <2>2 DEF CallOK
  <2> QED
    BY <2>1, <2>2, <2>3
<1> QED
  BY <1>1, <1>2, <1>3, Zenon

\* A new call is well-formed.
LEMMA NewCallOK ==
    ASSUME NEW p, NEW op \in Ops, NEW result \in Results, NEW call,
           call = Lifecycle!NewCall(op, result)
    PROVE  CallOK(p, call) /\ call.op = op /\ call.result = result
<1>1. /\ DOMAIN call = {"op", "result", "checked", "todo", "writing", "placed"}
      /\ call.op = op /\ call.result = result /\ call.todo = <<>> /\ call.writing = None
      /\ call.placed = FALSE
  BY DEF Lifecycle!NewCall
<1>2. <<>> \in Seq(Entries[op])
  OBVIOUS
<1> QED
  BY <1>1, <1>2 DEF CallOK
\* A document of a result is placed over none or over one of the same result.
LEMMA LastingStep ==
    ASSUME NoneIsNoResult, LifecycleInv, NEW p \in Processes, NEW call, CallOK(p, call),
           calls[p] # None, call.op = calls[p].op, call.result = calls[p].result,
           calls' = [calls EXCEPT ![p] = call], overlapped' = overlapped,
           RepoOK',
           LET f == Target[call.op]
           IN  /\ repo'[f].doc = [result |-> call.result, by |-> p]
               /\ \A g \in Lasting \ {f} : repo'[g].doc = repo[g].doc
    PROVE  LifecycleInv' /\ Lifecycle!KeepsLifecycle
<1> PICK f : f = Target[call.op]
  OBVIOUS
<1>1. /\ f \in Lasting
      /\ \/ call.op = "save" /\ f = "run"
         \/ call.op = "publish" /\ f = "certificate"
         \/ call.op = "revoke" /\ f = "revocation"
  BY DEF CallOK, Ops, Target, Lasting
<1>2. repo'[f].doc # None /\ repo'[f].doc.result = call.result
  BY DEF CallOK, NoneIsNoResult
<1>3. /\ calls' = [q \in Processes |-> calls'[q]]
      /\ \A q \in Processes : calls'[q] = IF q = p THEN call ELSE calls[q]
  <2>1. calls = [q \in Processes |-> calls[q]]
    BY DEF LifecycleInv, CallsOK
  <2> QED
    BY <2>1
<1>4. CallsOK'
  <2>1. \A q \in Processes : calls'[q] # None => CallOK(q, calls'[q])
    BY <1>3 DEF LifecycleInv, CallsOK
  <2> QED
    BY <1>3, <2>1 DEF CallsOK, CallOK, WritingOK
<1>5. ASSUME ~overlapped
      PROVE  NotOverlapped' /\ Lifecycle!KeepsLifecycle
  <2>1. NotOverlapped /\ Chained /\ Agrees(call.op, call.result)
    BY <1>5 DEF LifecycleInv, NotOverlapped
  <2>2. \A g \in Lasting : \A result : Names(g, result) => Names(g, result)'
    <3>1. repo[f].doc # None => repo[f].doc.result = call.result
      BY <1>1, <2>1 DEF Agrees, Chained, Names
    <3> QED
      BY <1>2, <3>1 DEF Names
  <2>3. Chained'
    <3>1. repo'["certificate"].doc # None => Names("run", repo["certificate"].doc.result)'
      <4>1. CASE f = "certificate"
        BY <1>1, <1>2, <2>1, <2>2, <4>1 DEF Agrees, Lasting, Names
      <4>2. CASE f # "certificate"
        BY <2>1, <2>2, <4>2 DEF Chained, Lasting, Names
      <4> QED
        BY <4>1, <4>2
    <3>2. repo'["revocation"].doc # None => Names("certificate", repo["revocation"].doc.result)'
      <4>1. CASE f = "revocation"
        BY <1>1, <1>2, <2>1, <2>2, <4>1 DEF Agrees, Lasting, Names
      <4>2. CASE f # "revocation"
        BY <2>1, <2>2, <4>2 DEF Chained, Lasting, Names
      <4> QED
        BY <4>1, <4>2
    <3> QED
      BY <3>1, <3>2 DEF Chained
  <2>4. \A q \in Processes : (calls[q] # None => Agrees(calls[q].op, calls[q].result))'
    <3> SUFFICES ASSUME NEW q \in Processes, calls'[q] # None
                 PROVE  Agrees(calls[q].op, calls[q].result)'
      OBVIOUS
    <3>1. PICK op, result : op = calls'[q].op /\ result = calls'[q].result
      OBVIOUS
    <3>2. calls[q] # None /\ op = calls[q].op /\ result = calls[q].result
      BY <1>3, <3>1
    <3>3. Agrees(op, result)
      BY <2>1, <3>2 DEF NotOverlapped
    <3>4. op = "save" => repo'["run"].doc = None \/ repo'["run"].doc.result = result
      <4>1. CASE f = "run"
        <5>1. op = "save" => q = p
          BY <1>1, <2>1, <3>2, <4>1 DEF NotOverlapped, Lifecycle!Saving
        <5> QED
          BY <1>2, <3>2, <4>1, <5>1
      <4>2. CASE f # "run"
        BY <3>3, <4>2 DEF Agrees, Lasting
      <4> QED
        BY <4>1, <4>2
    <3>5. Agrees(op, result)'
      BY <2>2, <3>3, <3>4 DEF Agrees, Lasting
    <3> QED
      BY <3>1, <3>5 DEF Agrees
  <2>5. \A q, r \in Processes : Lifecycle!Saving(q)' /\ Lifecycle!Saving(r)' => q = r
    BY <1>3, <2>1 DEF NotOverlapped, Lifecycle!Saving
  <2>6. Lifecycle!KeepsLifecycle
    <3>1. \A g \in Lasting : repo[g].doc # None =>
             repo'[g].doc # None /\ repo'[g].doc.result = repo[g].doc.result
      BY <2>2 DEF Names
    <3>2. repo'["revocation"].doc # None =>
             /\ repo["certificate"].doc # None
             /\ repo'["revocation"].doc.result = repo["certificate"].doc.result
      <4>1. CASE f = "revocation"
        BY <1>1, <1>2, <2>1, <4>1 DEF Agrees, Names
      <4>2. CASE f # "revocation"
        BY <2>1, <4>2 DEF Chained, Names, Lasting
      <4> QED
        BY <4>1, <4>2
    <3> QED
      BY <3>1, <3>2 DEF Lifecycle!KeepsLifecycle, Lifecycle!Exists, Lasting
  <2> QED
    BY <2>3, <2>4, <2>5, <2>6 DEF NotOverlapped
<1>6. overlapped => Lifecycle!KeepsLifecycle
  BY DEF Lifecycle!KeepsLifecycle
<1> QED
  BY <1>4, <1>5, <1>6 DEF LifecycleInv
\* The calls that start, or end, and the checks that precede the writes.
LEMMA CheckStep ==
    ASSUME LifecycleInv, NEW p \in Processes,
           \/ \E c \in Results : Lifecycle!SaveRun(p, c)
           \/ Lifecycle!LoadRun(p) \/ Lifecycle!LoadCertificate(p)
           \/ Lifecycle!Publish(p) \/ Lifecycle!Revoke(p)
           \/ Lifecycle!Return(p) \/ Lifecycle!Die(p)
    PROVE  LifecycleInv' /\ Lifecycle!KeepsLifecycle
<1>1. ASSUME Lifecycle!Answer(p), UNCHANGED <<repo, overlapped>>
      PROVE  LifecycleInv' /\ Lifecycle!KeepsLifecycle
  BY <1>1, CallStep DEF Lifecycle!Answer
<1>2. ASSUME calls[p] # None, NEW todo \in Seq(Entries[calls[p].op]), todo # <<>>,
             calls' = [calls EXCEPT ![p] = Lifecycle!Writes(@, todo)],
             UNCHANGED <<repo, overlapped>>
      PROVE  LifecycleInv' /\ Lifecycle!KeepsLifecycle
  <2>1. PICK call : call = Lifecycle!Writes(calls[p], todo)
    OBVIOUS
  <2>2. CallOK(p, call) /\ call.op = calls[p].op /\ call.result = calls[p].result
    BY <1>2, <2>1, CallGoesOn DEF LifecycleInv, CallsOK
  <2>3. ~overlapped => Agrees(call.op, call.result)
    BY <1>2, <2>2 DEF LifecycleInv, NotOverlapped
  <2> QED
    BY <1>2, <2>1, <2>2, <2>3, CallStep DEF Lifecycle!Saving
<1>3. ASSUME NEW op \in {"publish", "revoke"}, NEW result \in Results,
             calls' = [calls EXCEPT ![p] = Lifecycle!NewCall(op, result)],
             ~overlapped => Agrees(op, result),
             UNCHANGED <<repo, overlapped>>
      PROVE  LifecycleInv' /\ Lifecycle!KeepsLifecycle
  <2>1. PICK call : call = Lifecycle!NewCall(op, result)
    OBVIOUS
  <2>2. CallOK(p, call) /\ call.op = op /\ call.result = result
    BY <2>1, NewCallOK DEF Ops
  <2> QED
    BY <1>3, <2>1, <2>2, CallStep
<1>4. ASSUME NEW c \in Results, Lifecycle!SaveRun(p, c)
      PROVE  LifecycleInv' /\ Lifecycle!KeepsLifecycle
  <2>1. PICK todo \in Seq(Entries["save"]) :
           /\ todo # <<>>
           /\ calls' = [calls EXCEPT ![p] = Lifecycle!Writes(Lifecycle!NewCall("save", c), todo)]
    <3>1. /\ <<"CertificationStarted", "run">> \in Seq(Entries["save"])
          /\ <<"CertificationStarted", "GateFailed", "run">> \in Seq(Entries["save"])
          /\ <<"CertificationStarted", "run">> # <<>>
          /\ <<"CertificationStarted", "GateFailed", "run">> # <<>>
      BY DEF Entries
    <3>2. PICK todo \in {<<"CertificationStarted", "run">>,
                         <<"CertificationStarted", "GateFailed", "run">>} :
             calls' = [calls EXCEPT ![p] = Lifecycle!Writes(Lifecycle!NewCall("save", c), todo)]
      BY <1>4, Zenon DEF Lifecycle!SaveRun
    <3> QED
      BY <3>1, <3>2
  <2>2. PICK new : new = Lifecycle!NewCall("save", c)
    OBVIOUS
  <2>3. PICK call : call = Lifecycle!Writes(new, todo)
    OBVIOUS
  <2>4. CallOK(p, new) /\ new.op = "save" /\ new.result = c
    BY <2>2, NewCallOK DEF Ops
  <2>5. CallOK(p, call) /\ call.op = "save" /\ call.result = c
    BY <2>1, <2>3, <2>4, CallGoesOn
  <2>6. repo["run"].doc = None /\ repo' = repo
        /\ overlapped' = (overlapped \/ \E q \in Processes : Lifecycle!Saving(q))
    BY <1>4, Zenon DEF Lifecycle!SaveRun, Lifecycle!RunExists, Lifecycle!Exists
  <2>7. Agrees("save", c)
    BY <2>6 DEF Agrees
  <2> QED
    BY <2>1, <2>2, <2>3, <2>5, <2>6, <2>7, CallStep
<1>5. CASE Lifecycle!LoadRun(p)
  <2>1. /\ repo["run"].doc # None /\ UNCHANGED <<repo, overlapped>>
        /\ calls' = [calls EXCEPT ![p] = Lifecycle!NewCall("publish", repo["run"].doc.result)]
    BY <1>5 DEF Lifecycle!LoadRun, Lifecycle!VerifyEvidence
  <2>2. repo["run"].doc.result \in Results
    BY <2>1 DEF LifecycleInv, RepoOK, Lasting
  <2>3. Agrees("publish", repo["run"].doc.result)
    BY <2>1 DEF Agrees, Names
  <2> QED
    BY <1>3, <2>1, <2>2, <2>3
<1>6. CASE Lifecycle!LoadCertificate(p)
  <2>1. /\ repo["certificate"].doc # None /\ UNCHANGED <<repo, overlapped>>
        /\ calls' = [calls EXCEPT ![p] = Lifecycle!NewCall("revoke", repo["certificate"].doc.result)]
    BY <1>6 DEF Lifecycle!LoadCertificate, Lifecycle!VerifyEvidence
  <2>2. repo["certificate"].doc.result \in Results
    BY <2>1 DEF LifecycleInv, RepoOK, Lasting
  <2>3. Agrees("revoke", repo["certificate"].doc.result)
    BY <2>1 DEF Agrees, Names
  <2> QED
    BY <1>3, <2>1, <2>2, <2>3
<1>7. CASE Lifecycle!Publish(p)
  <2>1. calls[p] # None /\ calls[p].op = "publish" /\ UNCHANGED <<repo, overlapped>>
    BY <1>7 DEF Lifecycle!Publish, Lifecycle!Checking
  <2>2. <<"certificate", "ReleaseCertified">> \in Seq(Entries["publish"])
    BY DEF Entries
  <2>3. \/ Lifecycle!Answer(p)
        \/ calls' = [calls EXCEPT ![p] = Lifecycle!Writes(@, <<"certificate", "ReleaseCertified">>)]
    BY <1>7, Zenon DEF Lifecycle!Publish
  <2> QED
    BY <1>1, <1>2, <2>1, <2>2, <2>3
<1>8. CASE Lifecycle!Revoke(p)
  <2>1. calls[p] # None /\ calls[p].op = "revoke" /\ UNCHANGED <<repo, overlapped>>
    BY <1>8 DEF Lifecycle!Revoke, Lifecycle!Checking
  <2>2. <<"revocation", "CertificationRevoked", "registry">> \in Seq(Entries["revoke"])
    BY DEF Entries
  <2>3. \/ Lifecycle!Answer(p)
        \/ calls' = [calls EXCEPT ![p] =
                        Lifecycle!Writes(@, <<"revocation", "CertificationRevoked", "registry">>)]
    BY <1>8, Zenon DEF Lifecycle!Revoke
  <2> QED
    BY <1>1, <1>2, <2>1, <2>2, <2>3
<1>9. CASE Lifecycle!Return(p) \/ Lifecycle!Die(p)
  BY <1>1, <1>9 DEF Lifecycle!Return, Lifecycle!Die
<1> QED
  BY <1>4, <1>5, <1>6, <1>7, <1>8, <1>9
\* The document a call composes for a lasting file is one of its result.
LEMMA ComposedOK ==
    ASSUME NEW p, NEW op \in Ops, NEW entry \in Entries[op], NEW doc,
           entry \in Lasting => doc = [result |-> calls[p].result, by |-> p]
    PROVE  WritingOK(p, op, calls[p].result, [file |-> Lifecycle!FileOf(entry), doc |-> doc])
<1>1. Lifecycle!FileOf(entry) \in Lifecycle!RepoFiles
  BY DEF Lifecycle!FileOf, Lifecycle!RepoFiles
<1>2. Lifecycle!FileOf(entry) \in Lasting => entry = Lifecycle!FileOf(entry)
  BY DEF Lifecycle!FileOf, Lifecycle!RepoFiles, Lasting
<1>3. entry \in Lasting => entry = Target[op]
  BY DEF Entries, Ops, Target, Lasting
<1> QED
  BY <1>1, <1>2, <1>3 DEF WritingOK

LEMMA ComposeStep ==
    ASSUME LifecycleInv, NEW p \in Processes, Lifecycle!Compose(p)
    PROVE  LifecycleInv' /\ Lifecycle!KeepsLifecycle
<1>1. calls[p] # None /\ calls[p].todo # <<>> /\ calls[p].writing = None
      /\ UNCHANGED <<repo, overlapped>>
  BY DEF Lifecycle!Compose
<1>2. CallOK(p, calls[p])
  BY <1>1 DEF LifecycleInv, CallsOK
<1> PICK entry : entry = Head(calls[p].todo)
  OBVIOUS
<1>3. entry \in Entries[calls[p].op] /\ calls[p].op \in Ops
  BY <1>1, <1>2 DEF CallOK
<1>4. CASE Lifecycle!Answer(p)
  BY <1>1, <1>4, CallStep DEF Lifecycle!Answer
<1>5. CASE calls' = [calls EXCEPT ![p].writing = [file |-> Lifecycle!FileOf(entry),
                                                  doc |-> Lifecycle!Document(p, entry)]]
  <2>1. entry \in Lasting => Lifecycle!Document(p, entry) = [result |-> calls[p].result, by |-> p]
    BY DEF Lasting, Lifecycle!Document, Lifecycle!FileOf, Lifecycle!RepoFiles
  <2>2. PICK w : w = [file |-> Lifecycle!FileOf(entry), doc |-> Lifecycle!Document(p, entry)]
    OBVIOUS
  <2>3. WritingOK(p, calls[p].op, calls[p].result, w)
    BY <1>3, <2>1, <2>2, ComposedOK
  <2>4. PICK call : call = Composing(calls[p], w)
    OBVIOUS
  <2>5. CallOK(p, call) /\ call.op = calls[p].op /\ call.result = calls[p].result
    <3>1. PICK old : old = calls[p]
      OBVIOUS
    <3>2. /\ CallOK(p, old) /\ old.todo # <<>> /\ old.writing = None
          /\ WritingOK(p, old.op, old.result, w) /\ call = Composing(old, w)
      BY <1>1, <1>2, <1>3, <2>3, <2>4, <3>1
    <3> QED
      BY <3>1, <3>2, CallComposes
  <2>6. calls' = [calls EXCEPT ![p] = call]
    BY <1>5, <2>2, <2>4, Zenon DEF Composing
  <2>7. ~overlapped => Agrees(call.op, call.result)
    BY <1>1, <2>5 DEF LifecycleInv, NotOverlapped
  <2> QED
    BY <1>1, <2>5, <2>6, <2>7, CallStep DEF Lifecycle!Saving
<1> QED
  BY <1>4, <1>5, Zenon DEF Lifecycle!Compose

\* What placing a document or a sidecar does to the files.
Placed(f, k, d) == repo' = [repo EXCEPT ![f] = [repo[f] EXCEPT ![k] = d]]

LEMMA PlaceFacts ==
    ASSUME RepoOK, NEW f \in Lifecycle!RepoFiles, NEW k \in {"doc", "sum"}, NEW d,
           Placed(f, k, d)
    PROVE  /\ repo' = [g \in Lifecycle!RepoFiles |-> [doc |-> repo'[g].doc, sum |-> repo'[g].sum]]
           /\ \A g \in Lifecycle!RepoFiles :
                repo'[g].doc = IF g = f /\ k = "doc" THEN d ELSE repo[g].doc
<1>1. /\ repo = [g \in Lifecycle!RepoFiles |-> repo[g]]
      /\ \A g \in Lifecycle!RepoFiles : repo[g] = [doc |-> repo[g].doc, sum |-> repo[g].sum]
  <2> PICK R : R = Lifecycle!RepoFiles
    OBVIOUS
  <2> QED
    BY DEF RepoOK
<1>2. PICK x, y : /\ [repo[f] EXCEPT ![k] = d] = [doc |-> x, sum |-> y]
                  /\ x = IF k = "doc" THEN d ELSE repo[f].doc
  <2>1. PICK r : r = repo[f] /\ r = [doc |-> r.doc, sum |-> r.sum]
    BY <1>1
  <2>2. CASE k = "doc"
    <3>1. [r EXCEPT !["doc"] = d] = [doc |-> d, sum |-> r.sum]
      BY <2>1
    <3> QED
      BY <2>1, <2>2, <3>1
  <2>3. CASE k = "sum"
    <3>1. [r EXCEPT !["sum"] = d] = [doc |-> r.doc, sum |-> d]
      BY <2>1
    <3> QED
      BY <2>1, <2>3, <3>1
  <2> QED
    BY <2>2, <2>3
<1>3. /\ repo' = [g \in Lifecycle!RepoFiles |-> repo'[g]]
      /\ \A g \in Lifecycle!RepoFiles : repo'[g] = IF g = f THEN [doc |-> x, sum |-> y] ELSE repo[g]
  BY <1>1, <1>2 DEF Placed
<1>4. \A g \in Lifecycle!RepoFiles :
         /\ repo'[g] = [doc |-> repo'[g].doc, sum |-> repo'[g].sum]
         /\ repo'[g].doc = IF g = f /\ k = "doc" THEN d ELSE repo[g].doc
  BY <1>1, <1>2, <1>3
<1> QED
  BY <1>3, <1>4

LEMMA PlaceStep ==
    ASSUME NoneIsNoResult, LifecycleInv, NEW p \in Processes,
           Lifecycle!PlaceDocument(p) \/ Lifecycle!PlaceSidecar(p)
    PROVE  LifecycleInv' /\ Lifecycle!KeepsLifecycle
<1>1. calls[p] # None /\ calls[p].writing # None /\ overlapped' = overlapped
  BY DEF Lifecycle!PlaceDocument, Lifecycle!PlaceSidecar, LifecycleInv, CallsOK, CallOK
<1>2. CallOK(p, calls[p])
  BY <1>1 DEF LifecycleInv, CallsOK
<1> PICK w : w = calls[p].writing
  OBVIOUS
<1>3. WritingOK(p, calls[p].op, calls[p].result, w)
  BY <1>1, <1>2 DEF CallOK
<1>4. PICK call : /\ calls' = [calls EXCEPT ![p] = call] /\ CallOK(p, call)
                  /\ call.op = calls[p].op /\ call.result = calls[p].result
  <2>1. CASE Lifecycle!PlaceDocument(p)
    <3>1. PICK call : call = [calls[p] EXCEPT !.placed = TRUE]
      OBVIOUS
    <3>2. calls' = [calls EXCEPT ![p] = call]
      BY <2>1, <3>1, Zenon DEF Lifecycle!PlaceDocument
    <3> QED
      BY <1>1, <1>2, <3>1, <3>2, CallGoesOn
  <2>2. CASE Lifecycle!PlaceSidecar(p)
    <3>1. PICK call : call = Lifecycle!Written(calls[p])
      OBVIOUS
    <3>2. calls' = [calls EXCEPT ![p] = call]
      BY <2>2, <3>1, Zenon DEF Lifecycle!PlaceSidecar
    <3> QED
      BY <1>1, <1>2, <3>1, <3>2, CallGoesOn
  <2> QED
    BY <2>1, <2>2
<1>5. ~overlapped => Agrees(call.op, call.result)
  BY <1>1, <1>4 DEF LifecycleInv, NotOverlapped
<1>6. PICK k \in {"doc", "sum"} : Placed(w.file, k, w.doc)
  BY Zenon DEF Placed, Lifecycle!PlaceDocument, Lifecycle!PlaceSidecar
<1>7. /\ repo' = [g \in Lifecycle!RepoFiles |-> [doc |-> repo'[g].doc, sum |-> repo'[g].sum]]
      /\ \A g \in Lifecycle!RepoFiles :
           repo'[g].doc = IF g = w.file /\ k = "doc" THEN w.doc ELSE repo[g].doc
  <2>1. PICK f, d : f = w.file /\ d = w.doc
    OBVIOUS
  <2>2. /\ RepoOK /\ f \in Lifecycle!RepoFiles
        /\ Placed(f, k, d)
    BY <1>3, <1>6, <2>1 DEF LifecycleInv, WritingOK
  <2> QED
    BY <2>1, <2>2, PlaceFacts
<1>8. Lasting \subseteq Lifecycle!RepoFiles
  BY DEF Lasting, Lifecycle!RepoFiles
<1>9. RepoOK'
  <2>1. w.file \in Lasting => w.doc \in [result : Results, by : Processes]
    BY <1>2, <1>3 DEF WritingOK, CallOK
  <2>2. \A g \in Lasting : repo'[g].doc # None => repo'[g].doc \in [result : Results, by : Processes]
    BY <1>7, <1>8, <2>1 DEF LifecycleInv, RepoOK
  <2> QED
    BY <1>7, <2>2 DEF RepoOK
<1>10. CASE k = "doc" /\ w.file \in Lasting
  <2>1. w.file = Target[call.op] /\ w.doc = [result |-> call.result, by |-> p]
    BY <1>3, <1>4, <1>10 DEF WritingOK
  <2>2. LET f == Target[call.op]
        IN  /\ repo'[f].doc = [result |-> call.result, by |-> p]
            /\ \A g \in Lasting \ {f} : repo'[g].doc = repo[g].doc
    BY <1>7, <1>8, <1>10, <2>1
  <2> QED
    BY <1>1, <1>4, <1>9, <2>2, LastingStep
<1>11. CASE ~(k = "doc" /\ w.file \in Lasting)
  <2>1. \A g \in Lasting : repo'[g].doc = repo[g].doc
    BY <1>7, <1>8, <1>11
  <2> QED
    BY <1>1, <1>4, <1>5, <1>9, <2>1, CallStep DEF Lifecycle!Saving
<1> QED
  BY <1>10, <1>11

\* save_run, publish and revoke, of several processes that share the repository: unless two
\* saves overlapped, the saved run, the certificate and the revocation keep their result,
\* and a revocation names the certificate that was there, wherever a process dies.
THEOREM FinalLifecycle ==
    ASSUME NoneIsNoResult
    PROVE  Lifecycle!Spec => Lifecycle!LifecycleIsFinal
<1>1. Lifecycle!Init => LifecycleInv
  <2> SUFFICES ASSUME Lifecycle!Init PROVE LifecycleInv
    OBVIOUS
  <2>1. PICK registry \in {Lifecycle!Missing, Lifecycle!Sealed({})} :
           repo = [f \in Lifecycle!RepoFiles |-> IF f = "registry" THEN registry
                                                 ELSE Lifecycle!Missing]
    BY DEF Lifecycle!Init
  <2>2. registry = [doc |-> registry.doc, sum |-> registry.sum]
    BY DEF Lifecycle!Missing, Lifecycle!Sealed
  <2>3. /\ \A f \in Lasting : repo[f].doc = None
        /\ \A f \in Lifecycle!RepoFiles : repo[f] = [doc |-> repo[f].doc, sum |-> repo[f].sum]
    BY <2>1, <2>2 DEF Lasting, Lifecycle!RepoFiles, Lifecycle!Missing
  <2>4. RepoOK
    BY <2>1, <2>3 DEF RepoOK
  <2>5. CallsOK /\ \A p \in Processes : calls[p] = None
    BY DEF Lifecycle!Init, CallsOK
  <2>6. NotOverlapped
    BY <2>3, <2>5 DEF NotOverlapped, Chained, Lasting, Lifecycle!Saving
  <2> QED
    BY <2>4, <2>5, <2>6 DEF LifecycleInv
<1>2. LifecycleInv /\ [Lifecycle!Next]_Lifecycle!vars =>
         LifecycleInv' /\ [Lifecycle!KeepsLifecycle]_Lifecycle!vars
  <2> SUFFICES ASSUME LifecycleInv, [Lifecycle!Next]_Lifecycle!vars
               PROVE  LifecycleInv' /\ [Lifecycle!KeepsLifecycle]_Lifecycle!vars
    OBVIOUS
  <2>1. CASE Lifecycle!Next
    BY <2>1, CheckStep, ComposeStep, PlaceStep DEF Lifecycle!Next
  <2>2. CASE UNCHANGED Lifecycle!vars
    <3>1. RepoOK' /\ CallsOK' /\ (overlapped' = overlapped)
      BY <2>2 DEF LifecycleInv, RepoOK, CallsOK, CallOK, WritingOK, Lifecycle!vars
    <3>2. ~overlapped => NotOverlapped'
      BY <2>2 DEF LifecycleInv, NotOverlapped, Chained, Names, Agrees, Lifecycle!Saving,
                  Lifecycle!vars
    <3> QED
      BY <2>2, <3>1, <3>2 DEF LifecycleInv
  <2> QED
    BY <2>1, <2>2
<1> QED
  BY <1>1, <1>2, PTL DEF Lifecycle!Spec, Lifecycle!LifecycleIsFinal
(***************************************************************************)
(* The gate suite.  Every step that passed was accepted on a document for  *)
(* the request that the suite was started with.                            *)
(***************************************************************************)
CONSTANT RequestRevision
VARIABLES head, request, evidence, suite, suiteUpsets

Suite == INSTANCE GateSuite WITH upsets <- suiteUpsets

\* None is no gate's document.
NoneIsNoReport ==
    \A s, v, r, b : None # [status |-> s, revision |-> v, request |-> r, sealed |-> b]

Steps == Suite!Definitions
Accepted(d, g) ==
    /\ d # None /\ d.sealed /\ d.status = "PASS"
    /\ d.revision = RequestRevision[suite.request]
    /\ Suite!RequestBoundStep(g) => d.request = suite.request

SuiteOK ==
    /\ suite = [state |-> suite.state, request |-> suite.request, steps |-> suite.steps,
                seen |-> suite.seen]
    /\ suite.steps \in Seq({"PASS", "FAIL", "NOT_RUN"})
    /\ \E S : suite.seen \in Seq(S)
    /\ Len(suite.seen) = Len(suite.steps)
    /\ suite.state \in {"idle", "launch", "verify"} => Len(suite.steps) < 5
    /\ \A i \in 1 .. Len(suite.steps) : suite.steps[i] = "PASS" => Accepted(suite.seen[i], Steps[i])
    /\ suite.state = "PASS" =>
         Len(suite.steps) = 5 /\ \A i \in 1 .. 5 : suite.steps[i] = "PASS"

EvidenceOK ==
    /\ evidence = [g \in Suite!Gates |-> evidence[g]]
    /\ suite.state = "verify" => evidence[Suite!Gate] # None

SuiteInv == SuiteOK /\ EvidenceOK

LEMMA FiveSteps ==
    /\ DOMAIN Steps = 1 .. 5 /\ Len(Steps) = 5
    /\ Suite!Gates = {Steps[i] : i \in 1 .. 5}
    /\ \A i \in 1 .. 5 : Steps[i] \in Suite!Gates
    /\ Steps[1] = "production_preflight"
    /\ \A i \in 2 .. 5 : Steps[i] # "production_preflight"
<1>1. DOMAIN Steps = 1 .. 5 /\ Len(Steps) = 5
  BY DEF Steps, Suite!Definitions
<1>2. Suite!Gates = {Steps[i] : i \in 1 .. 5}
  BY <1>1 DEF Suite!Gates, Steps
<1>3. Steps[1] = "production_preflight" /\ \A i \in 2 .. 5 : Steps[i] # "production_preflight"
  BY DEF Steps, Suite!Definitions
<1> QED
  BY <1>1, <1>2, <1>3

\* A run leaves a document, whoever tears it.
LEMMA RunsLeaveDocuments ==
    ASSUME NoneIsNoReport, NEW g, NEW d \in Suite!Runs(g)
    PROVE  d # None /\ \A sealed : [d EXCEPT !.sealed = sealed] # None
<1>1. PICK s, v, r, b : d = [status |-> s, revision |-> v, request |-> r, sealed |-> b]
  BY Zenon DEF Suite!Runs, Suite!Documents
<1> QED
  BY <1>1 DEF NoneIsNoReport

\* The step of the suite is recorded.
LEMMA RecordStep ==
    ASSUME SuiteInv, suite.state \in {"launch", "verify"},
           NEW status \in {"PASS", "FAIL", "NOT_RUN"}, NEW d,
           status = "PASS" => Accepted(d, Suite!Gate),
           Suite!Record(status, d)
    PROVE  SuiteOK' /\ suite'.state # "verify"
<1>1. PICK n, S : n = Len(suite.steps) /\ suite.seen \in Seq(S)
  BY Zenon DEF SuiteInv, SuiteOK
<1>2. PICK steps, seen : steps = Append(suite.steps, status) /\ seen = Append(suite.seen, d)
  BY Zenon
<1>3. n \in Nat /\ n < 5 /\ Len(suite.seen) = n
  BY <1>1 DEF SuiteInv, SuiteOK
<1>4. /\ steps \in Seq({"PASS", "FAIL", "NOT_RUN"}) /\ Len(steps) = n + 1
      /\ steps[n + 1] = status /\ \A i \in 1 .. n : steps[i] = suite.steps[i]
  BY <1>1, <1>2 DEF SuiteInv, SuiteOK
<1>5. /\ seen \in Seq(S \cup {d}) /\ Len(seen) = n + 1
      /\ seen[n + 1] = d /\ \A i \in 1 .. n : seen[i] = suite.seen[i]
  <2>1. suite.seen \in Seq(S \cup {d})
    BY <1>1
  <2> QED
    BY <1>2, <1>3, <2>1
<1>6. PICK state :
        /\ suite' = [state |-> state, request |-> suite.request, steps |-> steps, seen |-> seen]
        /\ n + 1 # 5 => state = "launch"
        /\ n + 1 = 5 => state = Suite!Overall({steps[i] : i \in DOMAIN steps})
  <2>1. Len(steps) = Len(Suite!Definitions) <=> n + 1 = 5
    BY <1>4, FiveSteps DEF Steps
  <2>2. PICK t : t = IF Len(steps) = Len(Suite!Definitions)
                     THEN Suite!Overall({steps[i] : i \in DOMAIN steps}) ELSE "launch"
    BY Zenon
  <2>3. suite' = [suite EXCEPT !.steps = steps, !.seen = seen, !.state = t]
    BY <1>2, <2>2 DEF Suite!Record
  <2>4. suite = [state |-> suite.state, request |-> suite.request, steps |-> suite.steps,
                 seen |-> suite.seen]
    BY DEF SuiteInv, SuiteOK
  <2>5. suite' = [state |-> t, request |-> suite.request, steps |-> steps, seen |-> seen]
    BY <2>3, <2>4, Zenon
  <2> QED
    BY <2>1, <2>2, <2>5, Zenon
<1>7. /\ suite'.state = state /\ suite'.request = suite.request
      /\ suite'.steps = steps /\ suite'.seen = seen
  BY <1>6
<1>8. state \in {"launch", "PASS", "FAIL", "NOT_RUN"} /\ (state = "launch" => n + 1 < 5)
  BY <1>3, <1>6 DEF Suite!Overall
<1>9. state = "PASS" => n + 1 = 5 /\ \A i \in 1 .. 5 : steps[i] = "PASS"
  <2> SUFFICES ASSUME state = "PASS" PROVE n + 1 = 5 /\ \A i \in 1 .. 5 : steps[i] = "PASS"
    OBVIOUS
  <2>1. n + 1 = 5 /\ {steps[i] : i \in DOMAIN steps} = {"PASS"}
    BY <1>3, <1>6 DEF Suite!Overall
  <2>2. DOMAIN steps = 1 .. 5
    BY <1>4, <2>1
  <2> QED
    BY <2>1, <2>2
<1>10. \A e, g : Accepted(e, g) => Accepted(e, g)'
  BY <1>7 DEF Accepted, Suite!RequestBoundStep
<1>11. \A i \in 1 .. n + 1 : steps[i] = "PASS" => Accepted(seen[i], Steps[i])
  <2> SUFFICES ASSUME NEW i \in 1 .. n + 1, steps[i] = "PASS" PROVE Accepted(seen[i], Steps[i])
    OBVIOUS
  <2>1. CASE i = n + 1
    <3>1. Suite!Gate = Steps[n + 1]
      BY <1>1 DEF Suite!Gate, Steps
    <3> QED
      BY <1>4, <1>5, <2>1, <3>1
  <2>2. CASE i \in 1 .. n
    BY <1>1, <1>4, <1>5, <2>2 DEF SuiteInv, SuiteOK
  <2> QED
    BY <1>3, <2>1, <2>2
<1>12. \A i \in 1 .. n + 1 : steps[i] = "PASS" => Accepted(suite.seen[i], Steps[i])'
  <2> SUFFICES ASSUME NEW i \in 1 .. n + 1, NEW e, NEW g, e = seen[i], g = Steps[i], steps[i] = "PASS"
               PROVE  Accepted(e, g)'
    BY <1>7 DEF Accepted, Steps
  <2> QED
    BY <1>10, <1>11
<1> QED
  BY <1>4, <1>5, <1>6, <1>7, <1>8, <1>9, <1>12 DEF SuiteOK

LEMMA SuiteInit ==
    ASSUME Suite!Init
    PROVE  SuiteInv
<1>1. /\ suite = [state |-> "idle", request |-> None, steps |-> <<>>, seen |-> <<>>]
      /\ evidence = [g \in Suite!Gates |-> None]
  BY DEF Suite!Init, Suite!Idle
<1>2. /\ suite.state = "idle" /\ suite.request = None /\ suite.steps = <<>> /\ suite.seen = <<>>
  BY <1>1
<1>3. suite.seen \in Seq({}) /\ suite.steps \in Seq({"PASS", "FAIL", "NOT_RUN"})
  BY <1>2
<1>4. SuiteOK
  BY <1>1, <1>2, <1>3 DEF SuiteOK
<1> QED
  BY <1>1, <1>2, <1>4 DEF SuiteInv, EvidenceOK

\* The suite stands still, or starts, refuses or launches a gate: what it accepted it still has.
LEMMA SuiteKeeps ==
    ASSUME SuiteOK, NEW state, NEW req,
           suite' = [state |-> state, request |-> req, steps |-> suite.steps, seen |-> suite.seen],
           \/ state = suite.state /\ req = suite.request
           \/ state \in {"launch", "verify"} /\ suite.state = "launch" /\ req = suite.request
           \/ state \in {"launch", "FAIL", "NOT_RUN"} /\ suite.steps = <<>>
    PROVE  SuiteOK'
<1>1. /\ suite'.state = state /\ suite'.request = req
      /\ suite'.steps = suite.steps /\ suite'.seen = suite.seen
  OBVIOUS
<1>2. \A i \in 1 .. Len(suite.steps) : suite.steps[i] = "PASS" => Accepted(suite.seen[i], Steps[i])'
  <2>1. CASE req = suite.request
    <3>1. \A e, g : Accepted(e, g) => Accepted(e, g)'
      BY <1>1, <2>1 DEF Accepted, Suite!RequestBoundStep
    <3> SUFFICES ASSUME NEW i \in 1 .. Len(suite.steps), NEW e, NEW g, e = suite.seen[i],
                        g = Steps[i], suite.steps[i] = "PASS"
                 PROVE  Accepted(e, g)'
      BY <1>1 DEF Accepted, Steps
    <3> QED
      BY <3>1 DEF SuiteOK
  <2>2. CASE suite.steps = <<>>
    BY <2>2
  <2> QED
    BY <2>1, <2>2
<1>3. state = "PASS" => suite.state = "PASS"
  OBVIOUS
<1>4. state \in {"idle", "launch", "verify"} => Len(suite.steps) < 5
  BY DEF SuiteOK
<1> QED
  BY <1>1, <1>2, <1>3, <1>4 DEF SuiteOK

LEMMA SuiteNext ==
    ASSUME NoneIsNoReport, SuiteInv, [Suite!Next]_Suite!vars
    PROVE  SuiteInv'
<1>1. suite = [state |-> suite.state, request |-> suite.request, steps |-> suite.steps,
               seen |-> suite.seen]
  BY DEF SuiteInv, SuiteOK
<1>2. ASSUME NEW g, NEW d, d # None, evidence' = [evidence EXCEPT ![g] = d] \/ evidence' = evidence
      PROVE  /\ evidence' = [f \in Suite!Gates |-> evidence'[f]]
             /\ \A f \in Suite!Gates : evidence[f] # None => evidence'[f] # None
  BY <1>2 DEF SuiteInv, EvidenceOK
<1>3. Suite!Gates' = Suite!Gates
  BY DEF Suite!Gates, Suite!Definitions
<1>4. suite.state = "verify" => Suite!Gate \in Suite!Gates
  <2> SUFFICES ASSUME suite.state = "verify" PROVE Suite!Gate \in Suite!Gates
    OBVIOUS
  <2>1. Len(suite.steps) + 1 \in 1 .. 5
    BY DEF SuiteInv, SuiteOK
  <2> QED
    BY <2>1, FiveSteps DEF Suite!Gate, Steps
<1>5. ASSUME suite.state = "launch" PROVE Suite!Gate \in Suite!Gates
  <2>1. Len(suite.steps) + 1 \in 1 .. 5
    BY <1>5 DEF SuiteInv, SuiteOK
  <2> QED
    BY <2>1, FiveSteps DEF Suite!Gate, Steps
<1>6. ASSUME UNCHANGED suite, \A f \in Suite!Gates : evidence[f] # None => evidence'[f] # None,
             evidence' = [f \in Suite!Gates |-> evidence'[f]]
      PROVE  SuiteInv'
  <2>1. SuiteOK'
    BY <1>1, <1>6, SuiteKeeps DEF SuiteInv
  <2>2. Suite!Gate' = Suite!Gate
    BY <1>6 DEF Suite!Gate, Suite!Definitions
  <2> QED
    BY <1>3, <1>4, <1>6, <2>1, <2>2 DEF SuiteInv, EvidenceOK
<1>7. ASSUME SuiteOK', suite'.state # "verify", evidence' = [f \in Suite!Gates |-> evidence'[f]]
      PROVE  SuiteInv'
  BY <1>3, <1>7 DEF SuiteInv, EvidenceOK
<1>8. evidence = [f \in Suite!Gates |-> evidence[f]]
  BY DEF SuiteInv, EvidenceOK
<1>9. CASE Suite!RotateRequest \/ Suite!Checkout \/ UNCHANGED Suite!vars
  BY <1>6, <1>8, <1>9 DEF Suite!RotateRequest, Suite!Checkout, Suite!vars
<1>10. CASE Suite!RunByHand
  <2>0. PICK g \in Suite!Gates : \E d \in Suite!Runs(g), sealed \in BOOLEAN :
          evidence' = [evidence EXCEPT ![g] = [d EXCEPT !.sealed = sealed]]
    BY <1>10, Zenon DEF Suite!RunByHand
  <2>1. PICK d \in Suite!Runs(g), sealed \in BOOLEAN :
          evidence' = [evidence EXCEPT ![g] = [d EXCEPT !.sealed = sealed]]
    BY <2>0, Zenon
  <2>2. [d EXCEPT !.sealed = sealed] # None
    BY RunsLeaveDocuments
  <2> QED
    BY <1>2, <1>6, <1>10, <2>1, <2>2, Zenon DEF Suite!RunByHand
<1>11. CASE Suite!StartSuite
  <2>1. suite' = [state |-> "launch", request |-> request, steps |-> suite.steps, seen |-> suite.seen]
    BY <1>1, <1>11, Zenon DEF Suite!StartSuite
  <2>2. suite.steps = <<>>
    BY <1>11 DEF Suite!StartSuite, Suite!Idle
  <2>3. SuiteOK' /\ suite'.state # "verify"
    BY <2>1, <2>2, SuiteKeeps DEF SuiteInv
  <2> QED
    BY <1>7, <1>8, <1>11, <2>3 DEF Suite!StartSuite
<1>12. CASE Suite!RefuseSuite
  <2>1. PICK report \in {"NOT_RUN", "FAIL"} :
           suite' = [state |-> report, request |-> suite.request, steps |-> suite.steps,
                     seen |-> suite.seen]
    BY <1>1, <1>12, Zenon DEF Suite!RefuseSuite
  <2>2. suite.steps = <<>>
    BY <1>12 DEF Suite!RefuseSuite, Suite!Idle
  <2>3. SuiteOK' /\ suite'.state # "verify"
    BY <2>1, <2>2, SuiteKeeps DEF SuiteInv
  <2> QED
    BY <1>7, <1>8, <1>12, <2>3 DEF Suite!RefuseSuite
<1>13. CASE Suite!SkipStep
  <2>1. SuiteOK' /\ suite'.state # "verify"
    BY <1>13, RecordStep DEF Suite!SkipStep
  <2> QED
    BY <1>7, <1>8, <1>13, <2>1 DEF Suite!SkipStep
<1>14. CASE Suite!TimeOutStep
  <2>1. SuiteOK' /\ suite'.state # "verify"
    BY <1>14, RecordStep DEF Suite!TimeOutStep
  <2>2. evidence' = [f \in Suite!Gates |-> evidence'[f]]
    BY <1>8, <1>14 DEF Suite!TimeOutStep
  <2> QED
    BY <1>7, <2>1, <2>2
<1>15. CASE Suite!RunStep
  <2>1. PICK d \in Suite!Runs(Suite!Gate) :
          /\ evidence' = [evidence EXCEPT ![Suite!Gate] = d]
          /\ \/ suite' = [suite EXCEPT !.state = "verify"]
             \/ Suite!Record("FAIL", None)
    BY <1>15, Zenon DEF Suite!RunStep
  <2>2. suite.state = "launch"
    BY <1>15 DEF Suite!RunStep
  <2>3. evidence' = [f \in Suite!Gates |-> evidence'[f]] /\ evidence'[Suite!Gate] = d /\ d # None
    BY <1>5, <1>8, <2>1, <2>2, RunsLeaveDocuments
  <2>4. CASE suite' = [suite EXCEPT !.state = "verify"]
    <3>1. suite' = [state |-> "verify", request |-> suite.request, steps |-> suite.steps,
                    seen |-> suite.seen]
      BY <1>1, <2>4
    <3>2. SuiteOK'
      BY <2>2, <3>1, SuiteKeeps DEF SuiteInv
    <3>3. Suite!Gate' = Suite!Gate
      BY <3>1 DEF Suite!Gate, Suite!Definitions
    <3> QED
      BY <1>3, <2>3, <3>2, <3>3 DEF SuiteInv, EvidenceOK
  <2>5. CASE Suite!Record("FAIL", None)
    <3>1. SuiteOK' /\ suite'.state # "verify"
      BY <2>2, <2>5, RecordStep
    <3> QED
      BY <1>7, <2>3, <3>1
  <2> QED
    BY <2>1, <2>4, <2>5
<1>16. CASE Suite!VerifyStep
  <2>1. PICK d : d = evidence[Suite!Gate]
    OBVIOUS
  <2>2. d # None /\ suite.state = "verify"
    BY <1>16, <2>1 DEF Suite!VerifyStep, SuiteInv, EvidenceOK
  <2>3. \/ Accepted(d, Suite!Gate) /\ Suite!Record("PASS", d)
        \/ Suite!Record("FAIL", None)
    BY <1>16, <2>1, <2>2 DEF Suite!VerifyStep, Suite!VerifiedPass, Accepted
  <2>4. SuiteOK' /\ suite'.state # "verify"
    BY <2>2, <2>3, RecordStep
  <2> QED
    BY <1>7, <1>8, <1>16, <2>4 DEF Suite!VerifyStep
<1> QED
  BY <1>9, <1>10, <1>11, <1>12, <1>13, <1>14, <1>15, <1>16 DEF Suite!Next

\* run_external_gate_suite: the suite passes only on five documents that it accepted for the
\* commit and the request it was started with, whatever was rotated, checked out or run by
\* hand meanwhile.
THEOREM SuiteBound ==
    ASSUME NoneIsNoReport
    PROVE  Suite!Spec => []Suite!SuitePassIsBound
<1>1. SuiteInv => Suite!SuitePassIsBound
  <2> SUFFICES ASSUME SuiteInv, suite.state = "PASS" PROVE Suite!SuitePassIsBound
    BY DEF Suite!SuitePassIsBound
  <2>1. \A i \in 1 .. 5 : Accepted(suite.seen[i], Steps[i])
    BY DEF SuiteInv, SuiteOK
  <2> QED
    BY <2>1, FiveSteps DEF Suite!SuitePassIsBound, Accepted, Steps
<1>2. Suite!Init => SuiteInv
  BY SuiteInit
<1>3. SuiteInv /\ [Suite!Next]_Suite!vars => SuiteInv'
  BY SuiteNext
<1> QED
  BY <1>1, <1>2, <1>3, PTL DEF Suite!Spec
=============================================================================
