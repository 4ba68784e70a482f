------------------------------ MODULE GateSuite ------------------------------
(***************************************************************************)
(* The suite that runs the external gates one after the other, each as a   *)
(* command of its own.  The suite loads the evidence request once; every   *)
(* command loads it again when its turn comes.  Meanwhile the request may  *)
(* be rotated, another commit checked out, and a gate run again by hand.   *)
(*                                                                         *)
(* How a gate comes to its status, and how requests and tokens expire, is  *)
(* in ReleaseEvidence and ReleaseCertification.                            *)
(***************************************************************************)
EXTENDS ReleaseEvidence, Sequences

CONSTANTS
    RequestRevision,    \* evidence requests, each with the commit it is for
    MaxUpsets           \* how often others write, or a gate does not pass

VARIABLES
    head,       \* the commit that is checked out
    request,    \* the evidence request on disk
    evidence,   \* the gates' documents
    suite,      \* the suite that runs or has run
    upsets

vars == <<head, request, evidence, suite, upsets>>

Requests == DOMAIN RequestRevision

\* The steps in the order of the list the suite builds.
Definitions == <<"production_preflight", "external_integrations", "production_load",
                 "backup_restore", "security_and_acceptance">>
Gates == {Definitions[i] : i \in DOMAIN Definitions}

RequestBoundStep(g) == g # "production_preflight"

\* Documents with one of the statuses, with their sidecars; a document is sealed when its
\* sidecar is there and matches.
Documents(statuses, revision, req) ==
    [status : statuses, revision : {revision}, request : {req}, sealed : {TRUE}]

\* A preflight finds everything in order or one condition broken.
PreflightOutcomes ==
    {PreflightStatus(probeDocker, broken) :
        probeDocker \in BOOLEAN,
        broken \in {{}} \cup {{c} : c \in UNION {PreflightChecks[k] : k \in DOMAIN PreflightChecks}}}

\* The documents a run of gate g can leave when it ends by itself: a preflight
\* names the commit it found, the others the request they loaded.  To the
\* suite NOT_RUN and FAIL of a gate are the same.
Runs(g) ==
    IF g = "production_preflight" THEN Documents(PreflightOutcomes, head, None)
    ELSE Documents({"PASS", "FAIL"}, RequestRevision[request], request)

Idle == [state |-> "idle", request |-> None, steps |-> <<>>, seen |-> <<>>]

Init ==
    /\ request \in Requests
    /\ head = RequestRevision[request]
    /\ evidence = [g \in Gates |-> None]
    /\ suite = Idle
    /\ upsets = 0

(***************************************************************************)
(* The others.                                                             *)
(***************************************************************************)
Upset == upsets < MaxUpsets /\ upsets' = upsets + 1

RotateRequest ==
    /\ Upset
    /\ request' \in Requests \ {request}
    /\ UNCHANGED <<head, evidence, suite>>

Checkout ==
    /\ Upset
    /\ head' \in Revisions \ {head}
    /\ UNCHANGED <<request, evidence, suite>>

\* A gate run by hand may die between its document and the sidecar.
RunByHand ==
    /\ Upset
    /\ \E g \in Gates : \E d \in Runs(g), sealed \in BOOLEAN :
        evidence' = [evidence EXCEPT ![g] = [d EXCEPT !.sealed = sealed]]
    /\ UNCHANGED <<head, request, suite>>

(***************************************************************************)
(* run_external_gate_suite.                                                *)
(***************************************************************************)
StartSuite ==
    /\ suite = Idle
    /\ suite' = [suite EXCEPT !.state = "launch", !.request = request]
    /\ UNCHANGED <<head, request, evidence, upsets>>

\* The request is not configured or missing, or it cannot be loaded: it is
\* torn, invalid or has expired.
RefuseSuite ==
    /\ suite = Idle
    /\ Upset
    /\ \E report \in {"NOT_RUN", "FAIL"} : suite' = [suite EXCEPT !.state = report]
    /\ UNCHANGED <<head, request, evidence>>

Gate == Definitions[Len(suite.steps) + 1]

\* The step is over, with the document it was accepted on; after the last one
\* the report is made of the steps.
Record(status, document) ==
    LET steps == Append(suite.steps, status)
        done == Len(steps) = Len(Definitions)
    IN  suite' = [suite EXCEPT
                    !.steps = steps, !.seen = Append(@, document),
                    !.state = IF done THEN Overall({steps[i] : i \in DOMAIN steps})
                              ELSE "launch"]

\* The gate is not configured, or its input is missing.
SkipStep ==
    /\ suite.state = "launch"
    /\ Upset
    /\ Record("NOT_RUN", None)
    /\ UNCHANGED <<head, request, evidence>>

\* The command is killed at its time-out, which can tear its document.
TimeOutStep ==
    /\ suite.state = "launch"
    /\ Upset
    /\ Record("FAIL", None)
    /\ \/ evidence' = evidence
       \/ \E d \in Runs(Gate) :
            evidence' = [evidence EXCEPT ![Gate] = [d EXCEPT !.sealed = FALSE]]
    /\ UNCHANGED <<head, request>>

\* The command writes its document; it exits zero only with PASS.
RunStep ==
    /\ suite.state = "launch"
    /\ \E d \in Runs(Gate) :
        /\ evidence' = [evidence EXCEPT ![Gate] = d]
        /\ IF d.status = "PASS"
           THEN suite' = [suite EXCEPT !.state = "verify"] /\ UNCHANGED upsets
           ELSE Record("FAIL", None) /\ Upset
    /\ UNCHANGED <<head, request>>

MutantVerifiedPass(d, req, bound) ==
    d.sealed /\ d.status = "PASS" /\ d.revision = RequestRevision[req]

\* The digest of the request covers its release as well.
VerifiedPass(d, req, bound) ==
    /\ d.sealed
    /\ d.status = "PASS"
    /\ d.revision = RequestRevision[req]
    /\ bound => d.request = req

\* The document is read after the command ended.
VerifyStep ==
    /\ suite.state = "verify"
    /\ LET d == evidence[Gate]
       IN  IF VerifiedPass(d, suite.request, RequestBoundStep(Gate))
           THEN Record("PASS", d) ELSE Record("FAIL", None)
    /\ UNCHANGED <<head, request, evidence, upsets>>

Next ==
    \/ RotateRequest \/ Checkout \/ RunByHand
    \/ StartSuite \/ RefuseSuite \/ SkipStep \/ TimeOutStep \/ RunStep \/ VerifyStep

Spec == Init /\ [][Next]_vars

(***************************************************************************)
(* Properties.                                                             *)
(***************************************************************************)
TypeOK ==
    /\ head \in Revisions /\ request \in Requests /\ upsets \in 0..MaxUpsets
    /\ suite.state \in {"idle", "launch", "verify", "PASS", "FAIL", "NOT_RUN"}
    /\ suite.request \in Requests \cup {None}
    /\ Len(suite.steps) <= Len(Definitions)

\* A suite reports PASS only if every gate passed for the one request the
\* suite was started with, even if the request on disk was rotated between
\* two gates, another commit checked out or a gate run again by hand between
\* the end of its command and the check (run_external_gate_suite,
\* _verified_pass).
SuitePassIsBound ==
    suite.state = "PASS" =>
        \A i \in DOMAIN Definitions :
            /\ suite.seen[i].status = "PASS"
            /\ suite.seen[i].revision = RequestRevision[suite.request]
            /\ RequestBoundStep(Definitions[i]) => suite.seen[i].request = suite.request
=============================================================================
