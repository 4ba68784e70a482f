---------------------------- MODULE PolicyEngine ----------------------------
(***************************************************************************)
(* Policy publication and evaluation (packages/policy/engine.py) for one    *)
(* tenant, behind POST /v1/policies/publish and /v1/policies/dry-run.       *)
(***************************************************************************)
EXTENDS Naturals, FiniteSets

CONSTANTS
    Connections,  \* API handlers, each on its own database connection
    Policies,     \* policies a client may publish: [id, version, sites, rule, priority, hard]
    Sites,
    Values,       \* the numbers a fact or a rule can hold
    RoleSets,     \* role sets a caller may have
    None

VARIABLES
    policy_versions,  \* the published rows
    publishing        \* connection -> the policy its open transaction validated, or None

vars == <<policy_versions, publishing>>

\* evaluate_rule; a fact that is missing fails the rule.
EvaluateRule(rule, facts) ==
    /\ rule.field \in DOMAIN facts
    /\ LET actual == facts[rule.field]
       IN CASE rule.operator = "eq"  -> actual = rule.value
            [] rule.operator = "ne"  -> actual # rule.value
            [] rule.operator = "lt"  -> actual < rule.value
            [] rule.operator = "lte" -> actual <= rule.value
            [] rule.operator = "gt"  -> actual > rule.value
            [] rule.operator = "gte" -> actual >= rule.value
            [] rule.operator = "in"  -> actual \in rule.value
            [] rule.operator = "contains" -> rule.value \in actual

\* evaluate: the policies of a site (no site means every site) and its decision.
Active(site) == {p \in policy_versions : p.sites = {} \/ site \in p.sites}
HardViolations(site, facts) == {p \in Active(site) : p.hard /\ ~EvaluateRule(p.rule, facts)}
Allowed(site, facts) == HardViolations(site, facts) = {}

\* _validate_against
Conflicts(p, q) ==
    /\ p.sites \cap q.sites # {}
    /\ p.rule.field = q.rule.field
    /\ p.priority = q.priority
    /\ p.rule.operator = "eq" /\ q.rule.operator = "eq"
    /\ p.rule.value # q.rule.value

Init ==
    /\ policy_versions = {}
    /\ publishing = [c \in Connections |-> None]

\* pg_advisory_xact_lock of the tenant
MutantNoLock == FALSE
Locked == \E c \in Connections : publishing[c] # None

\* publish: only safety_admin for a hard policy; lock, read the rows and validate.
Validate(c, p, roles) ==
    /\ publishing[c] = None
    /\ p.hard => "safety_admin" \in roles
    /\ ~Locked
    /\ \A q \in policy_versions : ~Conflicts(p, q)
    /\ publishing' = [publishing EXCEPT ![c] = p]
    /\ UNCHANGED policy_versions

\* INSERT under the primary key (id, version), COMMIT.
Insert(c) ==
    /\ publishing[c] # None
    /\ LET p == publishing[c]
       IN policy_versions' =
            IF \E q \in policy_versions : q.id = p.id /\ q.version = p.version
            THEN policy_versions ELSE policy_versions \cup {p}
    /\ publishing' = [publishing EXCEPT ![c] = None]

Abort(c) ==
    /\ publishing[c] # None
    /\ publishing' = [publishing EXCEPT ![c] = None]
    /\ UNCHANGED policy_versions

PublishPolicy(c) ==
    \/ \E p \in Policies, roles \in RoleSets : Validate(c, p, roles)
    \/ Insert(c)
    \/ Abort(c)

Next == \E c \in Connections : PublishPolicy(c)

Spec == Init /\ [][Next]_vars

-----------------------------------------------------------------------------
\* Properties

\* Type invariant: rows of known policies, one per id and version.
TypeOK ==
    /\ policy_versions \subseteq Policies
    /\ \A p, q \in policy_versions : p.id = q.id /\ p.version = q.version => p = q
    /\ publishing \in [Connections -> Policies \cup {None}]

\* At one priority, the "eq" policies that name a site can be satisfied together: one value
\* of their field makes all of them hold, whichever publications race (_validate_against,
\* publish).  This is all the code compares.  Policies of different priorities, and policies
\* without sites, which apply everywhere, may contradict each other, although evaluate
\* applies every one of them.
EqualPrioritiesAgree ==
    \A site \in Sites :
        LET equalities == {p \in Active(site) : p.sites # {} /\ p.rule.operator = "eq"}
        IN \A p \in equalities : \E v \in Values :
             \A q \in {x \in equalities : x.priority = p.priority /\ x.rule.field = p.rule.field} :
                EvaluateRule(q.rule, [f \in {q.rule.field} |-> v])
=============================================================================
