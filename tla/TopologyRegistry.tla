-------------------------- MODULE TopologyRegistry --------------------------
(***************************************************************************)
(* Topology drafts and published versions (packages/topology/registry.py,   *)
(* validation.py) of one tenant, behind POST /v1/topology/drafts and        *)
(* /v1/topology/{version}/publish.                                          *)
(***************************************************************************)
EXTENDS Naturals, Sequences, FiniteSetsExt

CONSTANTS
    Connections,   \* API handlers, each on its own database connection
    Graphs,        \* graphs a client may submit: [assets, relationships]
    InitialDrafts, \* draft rows at the start: [revision, graph], or None
    MaxRevision,   \* bounds on drafts and publications
    MaxPublished,
    None

VARIABLES
    topology_drafts,    \* the row of the tenant, or None
    topology_versions,  \* sequence of [graph, reviewed]; reviewed is a ghost
    drafting,           \* connection -> its open create_draft, or None
    answers,            \* ghost: [revision, graph] of every draft a client was given
    raced               \* ghost: a first draft was written over another one

vars == <<topology_drafts, topology_versions, drafting, answers, raced>>

-----------------------------------------------------------------------------
\* validate_graph on assets (a sequence of [id, capacity]) and relationships (a sequence
\* of parent-child pairs, in which a pair may repeat).
Ids(g) == {g.assets[i].id : i \in DOMAIN g.assets}
Edges(g) == {g.relationships[i] : i \in DOMAIN g.relationships}
Capacity(g, id) == (CHOOSE a \in {g.assets[i] : i \in DOMAIN g.assets} : a.id = id).capacity
ChildCapacity(g, id) ==
    MapThenSumSet(LAMBDA i : Capacity(g, g.relationships[i][2]),
                  {i \in DOMAIN g.relationships : g.relationships[i][1] = id})

\* Kahn's queue: repeatedly visit the assets whose parents are all visited.
Visited(g) ==
    LET visit[n \in Nat] ==
          IF n = 0 THEN {}
          ELSE visit[n - 1] \cup {id \in Ids(g) :
                 \A e \in Edges(g) : e[2] = id => e[1] \in visit[n - 1]}
    IN visit[Cardinality(Ids(g))]

ValidGraph(g) ==
    /\ Cardinality(Ids(g)) = Len(g.assets)
    /\ \A e \in Edges(g) : {e[1], e[2]} \subseteq Ids(g)
    /\ Visited(g) = Ids(g)
    /\ \A id \in Ids(g) : Capacity(g, id) > 0 => ChildCapacity(g, id) <= Capacity(g, id)

-----------------------------------------------------------------------------
Init ==
    /\ topology_drafts \in InitialDrafts
    /\ topology_versions = <<>>
    /\ drafting = [c \in Connections |-> None]
    /\ answers = {topology_drafts} \ {None}
    /\ raced = FALSE

\* SELECT ... FOR UPDATE locks the row of the draft, when there is one.
Waits(c) == \E d \in Connections \ {c} : drafting[d] # None /\ drafting[d].locks

\* create_draft: validate, then read the revision.
ReadRevision(c, g) ==
    /\ drafting[c] = None
    /\ ValidGraph(g)
    /\ topology_drafts # None => ~Waits(c)
    /\ topology_drafts # None => topology_drafts.revision < MaxRevision
    /\ drafting' = [drafting EXCEPT ![c] =
          [graph |-> g, locks |-> topology_drafts # None,
           revision |-> IF topology_drafts = None THEN 1 ELSE topology_drafts.revision + 1]]
    /\ UNCHANGED <<topology_drafts, topology_versions, answers, raced>>

\* INSERT ... ON CONFLICT DO UPDATE, COMMIT and the answer.  A draft that found no row
\* locked nothing and overwrites whatever is there by now.
WriteDraft(c) ==
    /\ drafting[c] # None
    /\ ~Waits(c)
    /\ topology_drafts' = [revision |-> drafting[c].revision, graph |-> drafting[c].graph]
    /\ answers' = answers \cup {topology_drafts'}
    /\ raced' = (raced \/ (~drafting[c].locks /\ topology_drafts # None))
    /\ drafting' = [drafting EXCEPT ![c] = None]
    /\ UNCHANGED topology_versions

Abort(c) ==
    /\ drafting[c] # None
    /\ drafting' = [drafting EXCEPT ![c] = None]
    /\ UNCHANGED <<topology_drafts, topology_versions, answers, raced>>

\* publish by a client that was given the draft a; the row is locked throughout, so the
\* version max + 1 is free.
MutantUnchangedDraft(a) == TRUE
UnchangedDraft(a) == topology_drafts.revision = a.revision

Publish(a) ==
    /\ topology_drafts # None
    /\ \A c \in Connections : drafting[c] # None => ~drafting[c].locks
    /\ UnchangedDraft(a)
    /\ ValidGraph(topology_drafts.graph)
    /\ Len(topology_versions) < MaxPublished
    /\ topology_versions' = Append(topology_versions,
                                   [graph |-> topology_drafts.graph, reviewed |-> a.graph])
    /\ UNCHANGED <<topology_drafts, drafting, answers, raced>>

CreateTopologyDraft(c) == (\E g \in Graphs : ReadRevision(c, g)) \/ WriteDraft(c) \/ Abort(c)
PublishTopology == \E a \in answers : Publish(a)

Next == (\E c \in Connections : CreateTopologyDraft(c)) \/ PublishTopology

Spec == Init /\ [][Next]_vars

-----------------------------------------------------------------------------
\* Properties

\* Type invariant of the two tables and the open drafts.
TypeOK ==
    /\ topology_drafts # None => topology_drafts \in answers
    /\ answers \subseteq [revision : 1 .. MaxRevision, graph : Graphs]
    /\ topology_versions \in Seq([graph : Graphs, reviewed : Graphs])
    /\ drafting \in [Connections -> [graph : Graphs, locks : BOOLEAN, revision : 1 .. MaxRevision]
                                    \cup {None}]

\* A version is published only as the client that asked for it had seen it: the revision
\* check ("draft changed since validation") refuses a draft replaced meanwhile.  Two first
\* drafts of a tenant that race are the only way around it: FOR UPDATE finds no row to lock,
\* and both are revision 1 (create_draft, publish).  What is published has no cycle: every
\* set of its assets has one without a parent in the set.
PublishedWasReviewed ==
    \A i \in DOMAIN topology_versions :
        LET g == topology_versions[i].graph
        IN /\ ~raced => g = topology_versions[i].reviewed
           /\ \A S \in (SUBSET Ids(g)) \ {{}} :
                \E id \in S : \A e \in Edges(g) : e[2] = id => e[1] \notin S
=============================================================================
