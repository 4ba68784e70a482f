----------------------- MODULE CertificationRepository -----------------------
(***************************************************************************)
(* The certification repository (packages/certification/lifecycle.py) of   *)
(* one release: its run, certificate, revocation, event log and the        *)
(* revocation registry, files on a volume that every API replica and the   *)
(* command line write to.  The lock of the repository is a lock of one     *)
(* process: the checks of a call and its writes interleave with those of   *)
(* the others, document by document and sidecar by sidecar.                *)
(*                                                                         *)
(* The results a call is given are those of ReleaseCertification.  The     *)
(* threads of one process interleave less than two processes do.           *)
(***************************************************************************)
EXTENDS Naturals, Sequences

CONSTANTS
    Processes,    \* API replicas and command lines
    Results,      \* certification results, by certificate hash
    Certified,    \* those whose gates all passed
    MaxEvents,    \* no run is started with that many events in the log
    None

VARIABLES
    repo,         \* file -> its document and what its sidecar is the digest of
    calls,        \* process -> the call it executes, or None
    overlapped,   \* ghost: two save_run calls were under way at once
    acknowledged  \* ghost: the results whose revocation a call returned

vars == <<repo, calls, overlapped, acknowledged>>

RepoFiles == {"events", "run", "certificate", "revocation", "registry"}

Missing == [doc |-> None, sum |-> None]
Sealed(d) == [doc |-> d, sum |-> d]
VerifyEvidence(f) == repo[f].doc # None /\ repo[f].sum = repo[f].doc
Exists(f) == repo[f].doc # None

\* The registry may be missing or left by earlier releases.
Init ==
    /\ \E registry \in {Missing, Sealed({})} :
        repo = [f \in RepoFiles |-> IF f = "registry" THEN registry ELSE Missing]
    /\ calls = [p \in Processes |-> None]
    /\ overlapped = FALSE
    /\ acknowledged = {}

(***************************************************************************)
(* Calls.  A call checks, under the lock of its process, and then writes   *)
(* what it has to do: events by their type, other documents by their file. *)
(***************************************************************************)
NewCall(op, result) ==
    [op |-> op, result |-> result, checked |-> FALSE, todo |-> <<>>,
     writing |-> None, placed |-> FALSE]

Writes(call, todo) == [call EXCEPT !.checked = TRUE, !.todo = todo]

Checking(p, op) == calls[p] # None /\ calls[p].op = op /\ ~calls[p].checked

Answer(p) == calls' = [calls EXCEPT ![p] = None]

Saving(p) == calls[p] # None /\ calls[p].op = "save"

MutantRunExists == Exists("certificate")
RunExists == Exists("certificate") \/ Exists("run")

\* A log is known by its length and who wrote it.
LogLength == IF Exists("events") THEN repo["events"].doc.length ELSE 0

\* save_run: a run that exists is returned or refused.  The GateFailed events
\* of one run are taken as one.
SaveRun(p, c) ==
    /\ calls[p] = None
    /\ ~RunExists
    /\ LogLength < MaxEvents
    /\ calls' = [calls EXCEPT ![p] = Writes(NewCall("save", c),
           IF c \in Certified THEN <<"CertificationStarted", "run">>
           ELSE <<"CertificationStarted", "GateFailed", "run">>)]
    /\ overlapped' = (overlapped \/ \E q \in Processes : Saving(q))
    /\ UNCHANGED <<repo, acknowledged>>

\* The publish endpoint loads the run, and goes on when it is the certified
\* result of the evidence on disk.
LoadRun(p) ==
    /\ calls[p] = None
    /\ VerifyEvidence("run")
    /\ repo["run"].doc.result \in Certified
    /\ calls' = [calls EXCEPT ![p] = NewCall("publish", repo["run"].doc.result)]
    /\ UNCHANGED <<repo, overlapped, acknowledged>>

\* publish: the run is still the one that was evaluated, nothing is revoked.
\* A certificate that exists is returned or refused.
MayPublish(c) ==
    /\ VerifyEvidence("run") /\ repo["run"].doc.result = c
    /\ ~Exists("revocation")
    /\ ~Exists("certificate")

Publish(p) ==
    /\ Checking(p, "publish")
    /\ IF MayPublish(calls[p].result)
       THEN calls' = [calls EXCEPT ![p] = Writes(@, <<"certificate", "ReleaseCertified">>)]
       ELSE Answer(p)
    /\ UNCHANGED <<repo, overlapped, acknowledged>>

\* revoke loads the certificate before it takes the lock.
LoadCertificate(p) ==
    /\ calls[p] = None
    /\ VerifyEvidence("certificate")
    /\ calls' = [calls EXCEPT ![p] = NewCall("revoke", repo["certificate"].doc.result)]
    /\ UNCHANGED <<repo, overlapped, acknowledged>>

\* A call returns the revocation that is on disk.
Acknowledge(p) ==
    acknowledged' = IF VerifyEvidence("revocation")
                       /\ repo["revocation"].doc.result = calls[p].result
                    THEN acknowledged \cup {calls[p].result} ELSE acknowledged

Revoke(p) ==
    /\ Checking(p, "revoke")
    /\ IF Exists("revocation")
       THEN Answer(p) /\ Acknowledge(p)
       ELSE /\ calls' = [calls EXCEPT ![p] =
                            Writes(@, <<"revocation", "CertificationRevoked", "registry">>)]
            /\ UNCHANGED acknowledged
    /\ UNCHANGED <<repo, overlapped>>

(***************************************************************************)
(* The writes of a call: compose the document, place it, place its sidecar.*)
(***************************************************************************)
FileOf(entry) == IF entry \in RepoFiles THEN entry ELSE "events"

\* append_event raises on a log, and the registry on a revocation, that does
\* not match its sidecar.
Readable(entry) ==
    CASE FileOf(entry) = "events" -> Exists("events") => VerifyEvidence("events")
      [] entry = "registry" -> VerifyEvidence("revocation")
      [] OTHER -> TRUE

\* Documents of two calls differ, if only by their timestamps.
Document(p, entry) ==
    CASE FileOf(entry) = "events" -> [length |-> LogLength + 1, by |-> p]
      [] entry = "registry" -> {repo["revocation"].doc.result}
      [] OTHER -> [result |-> calls[p].result, by |-> p]

Compose(p) ==
    /\ calls[p] # None /\ calls[p].todo # <<>> /\ calls[p].writing = None
    /\ LET entry == Head(calls[p].todo)
       IN  IF Readable(entry)
           THEN calls' = [calls EXCEPT ![p].writing =
                              [file |-> FileOf(entry), doc |-> Document(p, entry)]]
           ELSE Answer(p)
    /\ UNCHANGED <<repo, overlapped, acknowledged>>

PlaceDocument(p) ==
    /\ calls[p] # None /\ calls[p].writing # None /\ ~calls[p].placed
    /\ repo' = [repo EXCEPT ![calls[p].writing.file].doc = calls[p].writing.doc]
    /\ calls' = [calls EXCEPT ![p].placed = TRUE]
    /\ UNCHANGED <<overlapped, acknowledged>>

Written(call) == [call EXCEPT !.todo = Tail(@), !.writing = None, !.placed = FALSE]

PlaceSidecar(p) ==
    /\ calls[p] # None /\ calls[p].placed
    /\ repo' = [repo EXCEPT ![calls[p].writing.file].sum = calls[p].writing.doc]
    /\ calls' = [calls EXCEPT ![p] = Written(@)]
    /\ UNCHANGED <<overlapped, acknowledged>>

\* The last sidecar is in place.
Return(p) ==
    /\ calls[p] # None /\ calls[p].checked /\ calls[p].todo = <<>>
    /\ Answer(p)
    /\ IF calls[p].op = "revoke" THEN Acknowledge(p) ELSE UNCHANGED acknowledged
    /\ UNCHANGED <<repo, overlapped>>

\* The process dies, or the call fails, between two of its steps.
Die(p) ==
    /\ calls[p] # None
    /\ Answer(p)
    /\ UNCHANGED <<repo, overlapped, acknowledged>>

Next ==
    \E p \in Processes :
        \/ \E c \in Results : SaveRun(p, c)
        \/ LoadRun(p) \/ Publish(p) \/ LoadCertificate(p) \/ Revoke(p)
        \/ Compose(p) \/ PlaceDocument(p) \/ PlaceSidecar(p) \/ Return(p) \/ Die(p)

Spec == Init /\ [][Next]_vars

\* ReleaseGate.validate in the running system, for a token that names result c
\* and is otherwise in order: the registry is intact and does not list it.
GatewayAccepts(c) == VerifyEvidence("registry") /\ c \notin repo["registry"].doc

(***************************************************************************)
(* Properties.                                                             *)
(***************************************************************************)
\* Every file is a document and a sidecar, every call is one of the three.
TypeOK ==
    /\ DOMAIN repo = RepoFiles
    /\ \A f \in {"run", "certificate", "revocation"} :
        Exists(f) => repo[f].doc \in [result : Results, by : Processes]
    /\ \A p \in Processes : calls[p] # None =>
        calls[p].op \in {"save", "publish", "revoke"} /\ calls[p].result \in Results
    /\ overlapped \in BOOLEAN
    /\ acknowledged \subseteq Results

\* As long as no two save_run calls were under way at once, a saved run, a
\* published certificate and a revocation never come to name another result,
\* and what is revoked is the certificate that was there before, whichever
\* publications and revocations of several processes race, and wherever one
\* of them dies or finds an event log it cannot append to.  (save_run,
\* publish, revoke; the lock of the repository holds in one process only.)
KeepsLifecycle ==
    ~overlapped' =>
        /\ \A f \in {"run", "certificate", "revocation"} :
            Exists(f) => /\ repo'[f].doc # None
                         /\ repo'[f].doc.result = repo[f].doc.result
        /\ repo'["revocation"].doc # None =>
            /\ Exists("certificate")
            /\ repo'["revocation"].doc.result = repo["certificate"].doc.result

LifecycleIsFinal == [][KeepsLifecycle]_vars

\* A certificate whose revocation was acknowledged is no longer accepted by
\* the gateway.
RevocationBlocks == \A c \in acknowledged : ~GatewayAccepts(c)
=============================================================================
