--------------------------- MODULE Authentication ---------------------------
(***************************************************************************)
(* How a request reaches an endpoint: read_context of apps/api/main.py,    *)
(* the Authenticator with its cache of the identity provider's signing     *)
(* keys (packages/iam), and the settings the process starts under          *)
(* (config/settings.py).  The identity provider is external: it publishes  *)
(* and withdraws keys at any time, and its endpoint may be down.           *)
(***************************************************************************)
EXTENDS Integers, FiniteSets

CONSTANTS
    Handlers,       \* requests of one process, which share the cache
    Configurations, \* what the environment may hold
    SigningKeys,    \* keys the provider may publish: [kid, alg]
    Requests,       \* token, certificates, tenant and role headers, kind of endpoint
    Ttl,            \* oidc_jwks_ttl_seconds
    MaxTime,
    None

VARIABLES
    now,        \* the monotonic clock
    settings,
    published,  \* external: the keys in the provider's JWKS document
    seen,       \* ghost: key -> when it was last in the document
    entry,      \* JwksCache._entry: [expires_at, keys], or None
    call        \* handler -> its request and how far it is, or None

vars == <<now, settings, published, seen, entry, call>>

(***************************************************************************)
(* Settings.validate, at startup.                                          *)
(***************************************************************************)
OidcConditions == {"oidc issuer", "oidc audience", "oidc jwks url"}
SigningConditions == {"signing algorithm", "signing key file", "public key"}
ProductionConditions ==
    {"postgres", "database tls", "database credentials", "object store",
     "object store https", "object store credentials", "oidc https", "otlp https"}
WriteConditions ==
    {"provider gateway", "mtls pair", "tls verification", "guarded mode",
     "release token", "key files"}

Validates(s) ==
    /\ s.environment \in {"development", "test", "simulator", "production"}
    /\ {"execution mode", "pool bounds", "jwks ttl"} \cap s.broken = {}
    /\ s.auth_mode \in {"oidc", "trusted_headers"}
    /\ s.auth_mode = "trusted_headers" => s.environment \in {"test", "simulator"}
    /\ s.memory => s.environment \in {"test", "simulator"}
    /\ s.auth_mode = "oidc" => OidcConditions \cap s.broken = {}
    /\ SigningConditions \cap s.broken = {}
    /\ s.environment = "production" =>
         /\ ProductionConditions \cap s.broken = {}
         /\ s.writes => WriteConditions \cap s.broken = {}

Init ==
    /\ now = 0
    /\ settings \in {s \in Configurations : Validates(s)}
    /\ published \in {{k} : k \in SigningKeys}
    /\ seen = [k \in SigningKeys |-> IF k \in published THEN 0 ELSE None]
    /\ entry = None
    /\ call = [h \in Handlers |-> None]

(***************************************************************************)
(* The key cache.  A refresh holds the lock while it fetches.              *)
(***************************************************************************)
ALGORITHMS == {"RS256", "RS384", "RS512", "ES256", "ES384"}

At(h, step) == call[h] # None /\ call[h].step = step
Locked == \E h \in Handlers : At(h, "fetch")

MutantFresh == now <= entry.expires_at
Fresh == now < entry.expires_at
Cached(kid) == entry # None /\ Fresh /\ \E k \in entry.keys : k.kid = kid
KeyOf(keys, kid) == CHOOSE k \in keys : k.kid = kid

Decoding(request, at, key) ==
    [step |-> "decode", request |-> request, at |-> at, key |-> key]

\* Authenticator.authenticate up to JwksCache.get: a well-formed bearer token whose header
\* names an allowed algorithm.  get looks at the clock once it has the lock.
Authenticate(h, request) ==
    LET token == request.token
    IN /\ call[h] = None
       /\ settings.auth_mode = "oidc"
       /\ token # None /\ token.alg \in ALGORITHMS
       /\ ~Locked
       /\ call' = [call EXCEPT ![h] =
                     IF Cached(token.kid)
                     THEN Decoding(request, now, KeyOf(entry.keys, token.kid))
                     ELSE [step |-> "fetch", request |-> request, at |-> now]]
       /\ UNCHANGED <<now, settings, published, seen, entry>>

\* JwksCache._refresh: keys of other algorithms are skipped, a document without any is
\* refused; the entry expires Ttl after the refresh began.
Usable == {k \in published : k.alg \in ALGORITHMS}

Refresh(h) ==
    LET request == call[h].request
    IN /\ At(h, "fetch") /\ Usable # {}
       /\ entry' = [expires_at |-> call[h].at + Ttl, keys |-> Usable]
       /\ call' = [call EXCEPT ![h] =
                     IF \E k \in Usable : k.kid = request.token.kid
                     THEN Decoding(request, call[h].at, KeyOf(Usable, request.token.kid))
                     ELSE None]
       /\ UNCHANGED <<now, settings, published, seen>>

\* The endpoint is unavailable or the document is invalid: the old entry stays.
RefreshFails(h) ==
    /\ At(h, "fetch")
    /\ call' = [call EXCEPT ![h] = None]
    /\ UNCHANGED <<now, settings, published, seen, entry>>

(***************************************************************************)
(* The token and the request.                                              *)
(***************************************************************************)
Leeway == 1

\* forwarded_peer_certificate: the one of the connection, or the one a proxy forwards
\* with the configured secret.
PeerCertificate(request) ==
    IF request.direct # None THEN request.direct
    ELSE IF request.proxy THEN request.forwarded ELSE None

\* The token is signed by the key, in force, and complete (jwt.decode,
\* validate_sso_claims); a service account's is bound to the peer's certificate.
TokenValid(request, key) ==
    LET token == request.token
    IN /\ token.alg = key.alg /\ token.signed
       /\ now < token.exp + Leeway
       /\ token.claims
       /\ token.service => token.bound # None /\ token.bound = PeerCertificate(request)

\* _authorize_request: the roles that may use an endpoint of this kind.
Writers == {"admin", "tenant_admin", "operator", "planner", "model_admin", "safety_admin"}
AllowedRoles ==
    [admin |-> {"admin", "tenant_admin"}, execute |-> {"admin", "operator", "executor"},
     write |-> Writers, read |-> Writers \cup {"viewer", "auditor"}]

Authorized(roles, request) == roles \cap AllowedRoles[request.kind] # {}
TenantAgrees(tenant, request) == request.tenant \in {None, tenant}

Enter(h, request, key, at) ==
    [call EXCEPT ![h] = [step |-> "endpoint", request |-> request, key |-> key, at |-> at]]

Accept(h) ==
    LET request == call[h].request
    IN /\ At(h, "decode")
       /\ TokenValid(request, call[h].key)
       /\ TenantAgrees(request.token.tenant, request)
       /\ Authorized(request.token.roles, request)
       /\ call' = Enter(h, request, call[h].key, call[h].at)
       /\ UNCHANGED <<now, settings, published, seen, entry>>

\* _trusted_identity: the headers are the identity.
AcceptHeaders(h, request) ==
    /\ call[h] = None
    /\ settings.auth_mode = "trusted_headers"
    /\ request.tenant # None /\ Authorized(request.roles, request)
    /\ call' = Enter(h, request, None, now)
    /\ UNCHANGED <<now, settings, published, seen, entry>>

\* A refusal (401 or 403), or the endpoint's answer.
Finish(h) ==
    /\ At(h, "decode") \/ At(h, "endpoint")
    /\ call' = [call EXCEPT ![h] = None]
    /\ UNCHANGED <<now, settings, published, seen, entry>>

(***************************************************************************)
(* The provider and time.                                                  *)
(***************************************************************************)
Rotate(keys) ==
    /\ \A k, l \in keys : k.kid = l.kid => k = l
    /\ published' = keys
    /\ seen' = [k \in SigningKeys |-> IF k \in keys THEN now ELSE seen[k]]
    /\ UNCHANGED <<now, settings, entry, call>>

Tick ==
    /\ now < MaxTime /\ now' = now + 1
    /\ seen' = [k \in SigningKeys |-> IF k \in published THEN now' ELSE seen[k]]
    /\ UNCHANGED <<settings, published, entry, call>>

Next ==
    \/ \E h \in Handlers, r \in Requests : Authenticate(h, r) \/ AcceptHeaders(h, r)
    \/ \E h \in Handlers : Refresh(h) \/ RefreshFails(h) \/ Accept(h) \/ Finish(h)
    \/ \E keys \in SUBSET SigningKeys : Rotate(keys)
    \/ Tick

Spec == Init /\ [][Next]_vars

-----------------------------------------------------------------------------
\* Properties

\* Type invariant of the cache and the requests.
TypeOK ==
    /\ now \in 0 .. MaxTime
    /\ published \subseteq SigningKeys
    /\ seen \in [SigningKeys -> (0 .. MaxTime) \cup {None}]
    /\ entry # None => entry.expires_at \in Nat /\ entry.keys \subseteq SigningKeys
    /\ \A h \in Handlers : call[h] # None =>
         /\ call[h].step \in {"fetch", "decode", "endpoint"}
         /\ call[h].request \in Requests

\* Outside test and simulator, a request gets to an endpoint only with a token signed by a
\* key that the provider had published less than Ttl before the cache was asked, however
\* keys rotate, refreshes fail and requests share the cache (JwksCache.get, authenticate).
WithdrawnKeysExpire ==
    settings.environment \notin {"test", "simulator"} =>
        \A h \in Handlers : At(h, "endpoint") =>
            /\ call[h].key # None
            /\ seen[call[h].key] # None /\ call[h].at - seen[call[h].key] < Ttl
=============================================================================
