----------------------------- MODULE AgentGrants -----------------------------
(***************************************************************************)
(* The OAuth grants of the agent integration: the three tables             *)
(* agent_authorizations, agent_connections and agent_credentials, and the  *)
(* operations of AgentAccessService on them.  Every service method that    *)
(* runs under row locks is one atomic action here; module AgentGrantsTx    *)
(* splits them into statements.  authenticateAccessToken takes no lock, so *)
(* its two reads and its final write are three actions already here.       *)
(*                                                                         *)
(* A row is identified by its index; a secret (device code, authorization  *)
(* code, token) is identified with the row that stores its hash.           *)
(* Timestamps are readings of the clock `now`; used_at and revoked_at are  *)
(* kept as "is not null".  MaxAuthorizations, MaxConnections,              *)
(* MaxCredentials and MaxTime bound the model.                             *)
(*                                                                         *)
(* Definitions named Broken... are wrong variants of the definition they   *)
(* precede.  Nothing uses them here: each shows, put in the place of the   *)
(* right one, that some property below can fail.                           *)
(***************************************************************************)
EXTENDS Naturals

CONSTANTS
  Users,                  \* application users
  Clients,                \* OAuth client ids accepted by validateClient
  ScopeSets,              \* the scope lists a client may ask for
  OfflineAccess,          \* the scope "offline_access"
  None,                   \* a column that is NULL
  Handlers,               \* concurrent invocations of authenticateAccessToken
  MaxAuthorizations, MaxConnections, MaxCredentials, MaxTime,
  AuthorizationLifetime,  \* AUTHORIZATION_LIFETIME_MS
  AccessLifetime,         \* ACCESS_LIFETIME_SECONDS
  GrantLifetime           \* GRANT_LIFETIME_MS

ASSUME LifetimesAssumption ==
  /\ AuthorizationLifetime \in Nat \ {0}
  /\ AccessLifetime \in Nat \ {0}
  /\ GrantLifetime \in Nat \ {0}

ASSUME BoundsAssumption ==
  /\ MaxAuthorizations \in Nat
  /\ MaxConnections \in Nat
  /\ MaxCredentials \in Nat
  /\ MaxTime \in Nat

ASSUME NoneAssumption == None \notin Users \cup Clients

VARIABLES
  authorizations, \* table agent_authorizations
  connections,    \* table agent_connections
  credentials,    \* table agent_credentials
  audit,          \* the connection events of auth_audit_events
  handler,        \* the locals of every authenticateAccessToken in progress
  enabled,        \* AGENT_INTEGRATIONS_ENABLED of the running deployment
  now             \* the clock

vars == <<authorizations, connections, credentials, audit, handler, enabled, now>>

AuthorizationIds == 1..MaxAuthorizations
ConnectionIds == 1..MaxConnections
CredentialIds == 1..MaxCredentials
NoConnection == 0
NoCredential == 0

Flows == {"browser", "device"}
\* requiredScope of a call: none, or a scope other than offline_access
RequiredScopes == {{}} \cup {{s} : s \in (UNION ScopeSets) \ {OfflineAccess}}

Authorization ==
  [status: {"none", "pending", "approved", "denied", "consumed"},
   flow: Flows, client: Clients \cup {None}, scopes: ScopeSets \cup {{}},
   user: Users \cup {None}, connection: ConnectionIds \cup {NoConnection},
   code: BOOLEAN, deviceCode: BOOLEAN, expiresAt: Nat]

Connection ==
  [status: {"none", "active", "revoked"},
   user: Users \cup {None}, client: Clients \cup {None},
   scopes: ScopeSets \cup {{}}, expiresAt: Nat]

Credential ==
  [kind: {"none", "access", "refresh"},
   connection: ConnectionIds \cup {NoConnection}, family: Nat,
   used: BOOLEAN, revoked: BOOLEAN, expiresAt: Nat]

\* late: a revocation of the token's connection was already committed when
\* the invocation read the credential (a history field no action reads).
Handler ==
  [stage: {"idle", "credential", "checked"},
   credential: CredentialIds \cup {NoCredential},
   late: BOOLEAN, at: Nat]

RevocationEvents ==
  {"agent.token.refresh_reuse", "agent.token.revoked", "agent.connection.revoked"}
AuditEvent ==
  [type: RevocationEvents \cup {"agent.mcp.access"}, connection: ConnectionIds]

\* Rows that do not exist yet.
NoAuthorization ==
  [status |-> "none", flow |-> "browser", client |-> None, scopes |-> {}, user |-> None,
   connection |-> NoConnection, code |-> FALSE, deviceCode |-> FALSE, expiresAt |-> 0]
NoConnectionRow ==
  [status |-> "none", user |-> None, client |-> None, scopes |-> {}, expiresAt |-> 0]
NoCredentialRow ==
  [kind |-> "none", connection |-> NoConnection, family |-> 0,
   used |-> FALSE, revoked |-> FALSE, expiresAt |-> 0]
IdleHandler == [stage |-> "idle", credential |-> NoCredential, late |-> FALSE, at |-> 0]

Init ==
  /\ authorizations = [a \in AuthorizationIds |-> NoAuthorization]
  /\ connections = [c \in ConnectionIds |-> NoConnectionRow]
  /\ credentials = [k \in CredentialIds |-> NoCredentialRow]
  /\ audit = {}
  /\ handler = [h \in Handlers |-> IdleHandler]
  /\ enabled \in BOOLEAN
  /\ now = 0

-----------------------------------------------------------------------------
\* Rows are filled in order: a fresh row is the first one that does not exist.
FreshAuthorization(a) ==
  /\ authorizations[a].status = "none"
  /\ \A b \in AuthorizationIds : b < a => authorizations[b].status # "none"
FreshConnection(c) ==
  /\ connections[c].status = "none"
  /\ \A d \in ConnectionIds : d < c => connections[d].status # "none"
Issued(k) == credentials[k].kind # "none"
FreshCredential(k) ==
  /\ ~Issued(k)
  /\ \A j \in CredentialIds : j < k => Issued(j)

BrokenPendingDecided(a, u) ==
  now < authorizations[a].expiresAt /\ authorizations[a].user \in {None, u}
BrokenPendingAnyUser(a, u) ==
  authorizations[a].status = "pending" /\ now < authorizations[a].expiresAt

\* pendingAuthorization, and the user check its three callers make
Pending(a, u) ==
  /\ authorizations[a].status = "pending"
  /\ now < authorizations[a].expiresAt
  /\ authorizations[a].user \in {None, u}

BeginAuthorization(a, flow, cl, sc) ==
  /\ enabled
  /\ FreshAuthorization(a)
  /\ authorizations' = [authorizations EXCEPT ![a] =
       [status |-> "pending", flow |-> flow, client |-> cl, scopes |-> sc,
        user |-> None, connection |-> NoConnection,
        code |-> FALSE, deviceCode |-> flow = "device",
        expiresAt |-> now + AuthorizationLifetime]]
  /\ UNCHANGED <<connections, credentials, audit, handler, enabled, now>>

BeginBrowserAuthorization(a, cl, sc) == BeginAuthorization(a, "browser", cl, sc)

BeginDeviceAuthorization(a, cl, sc) == BeginAuthorization(a, "device", cl, sc)

\* A signed-in user types the user code: the request is bound to this user.
AuthorizationForDeviceCode(a, u) ==
  /\ enabled
  /\ authorizations[a].flow = "device"
  /\ Pending(a, u)
  /\ authorizations' = [authorizations EXCEPT ![a].user = u]
  /\ UNCHANGED <<connections, credentials, audit, handler, enabled, now>>

Approve(a, u, c) ==
  /\ enabled
  /\ Pending(a, u)
  /\ FreshConnection(c)
  /\ connections' = [connections EXCEPT ![c] =
       [status |-> "active", user |-> u, client |-> authorizations[a].client,
        scopes |-> authorizations[a].scopes, expiresAt |-> now + GrantLifetime]]
  /\ authorizations' = [authorizations EXCEPT
       ![a].user = u, ![a].status = "approved", ![a].connection = c]
  /\ UNCHANGED <<credentials, audit, handler, enabled, now>>

Deny(a, u) ==
  /\ enabled
  /\ Pending(a, u)
  /\ authorizations' = [authorizations EXCEPT ![a].user = u, ![a].status = "denied"]
  /\ UNCHANGED <<connections, credentials, audit, handler, enabled, now>>

\* Completing a denied request answers with a redirect and changes no row.
CompleteBrowserAuthorization(a) ==
  /\ enabled
  /\ authorizations[a].flow = "browser"
  /\ authorizations[a].status = "approved"
  /\ ~authorizations[a].code
  /\ authorizations' = [authorizations EXCEPT ![a].code = TRUE]
  /\ UNCHANGED <<connections, credentials, audit, handler, enabled, now>>

-----------------------------------------------------------------------------
NewCredential(kind, c, family, expiry) ==
  [kind |-> kind, connection |-> c, family |-> family,
   used |-> FALSE, revoked |-> FALSE, expiresAt |-> expiry]

\* issueTokens: an access token at row k and, when includeRefresh, a refresh
\* token at the row after it, both inserted into the table `rows`.
IssueTokens(rows, k, c, includeRefresh, family, refreshExpiry) ==
  /\ FreshCredential(k)
  /\ includeRefresh => k + 1 \in CredentialIds /\ rows[k + 1].kind = "none"
  /\ credentials' = [j \in CredentialIds |->
       IF j = k THEN NewCredential("access", c, family, now + AccessLifetime)
       ELSE IF includeRefresh /\ j = k + 1
       THEN NewCredential("refresh", c, family, refreshExpiry)
       ELSE rows[j]]

BrokenConsumeKeepsStatus(a, k) ==
  /\ authorizations[a].status = "approved"
  /\ now < authorizations[a].expiresAt
  /\ authorizations' = [authorizations EXCEPT ![a].code = FALSE, ![a].deviceCode = FALSE]
  /\ IssueTokens(credentials, k, authorizations[a].connection,
                 OfflineAccess \in authorizations[a].scopes, k, now + GrantLifetime)
  /\ UNCHANGED <<connections, audit, handler, enabled, now>>

\* The common tail of the two exchanges.  The family is new: it is named
\* after the first credential issued in it.
ConsumeAuthorization(a, k) ==
  /\ authorizations[a].status = "approved"
  /\ now < authorizations[a].expiresAt
  /\ authorizations' = [authorizations EXCEPT
       ![a].status = "consumed", ![a].code = FALSE, ![a].deviceCode = FALSE]
  /\ IssueTokens(credentials, k, authorizations[a].connection,
                 OfflineAccess \in authorizations[a].scopes, k, now + GrantLifetime)
  /\ UNCHANGED <<connections, audit, handler, enabled, now>>

ExchangeAuthorizationCode(a, cl, k) ==
  /\ enabled
  /\ authorizations[a].code
  /\ authorizations[a].client = cl
  /\ ConsumeAuthorization(a, k)

ExchangeDeviceCode(a, cl, k) ==
  /\ enabled
  /\ authorizations[a].deviceCode
  /\ authorizations[a].client = cl
  /\ ConsumeAuthorization(a, k)

BrokenRefreshKeepsToken(r, cl, k) ==
  LET c == credentials[r].connection IN
  /\ enabled
  /\ credentials[r].kind = "refresh" /\ ~credentials[r].used /\ ~credentials[r].revoked
  /\ connections[c].client = cl /\ connections[c].status = "active"
  /\ now < connections[c].expiresAt /\ now < credentials[r].expiresAt
  /\ IssueTokens(credentials, k, c, TRUE, credentials[r].family, connections[c].expiresAt)
  /\ UNCHANGED <<authorizations, connections, audit, handler, enabled, now>>

BrokenRefreshNewFamily(r, cl, k) ==
  LET c == credentials[r].connection IN
  /\ enabled
  /\ credentials[r].kind = "refresh" /\ ~credentials[r].used /\ ~credentials[r].revoked
  /\ connections[c].client = cl /\ connections[c].status = "active"
  /\ now < connections[c].expiresAt /\ now < credentials[r].expiresAt
  /\ IssueTokens([credentials EXCEPT ![r].used = TRUE], k, c, TRUE, k, connections[c].expiresAt)
  /\ UNCHANGED <<authorizations, connections, audit, handler, enabled, now>>

\* refresh, when the token is the live one of its family
Refresh(r, cl, k) ==
  LET c == credentials[r].connection IN
  /\ enabled
  /\ credentials[r].kind = "refresh"
  /\ ~credentials[r].used /\ ~credentials[r].revoked
  /\ connections[c].client = cl
  /\ connections[c].status = "active"
  /\ now < connections[c].expiresAt
  /\ now < credentials[r].expiresAt
  /\ IssueTokens([credentials EXCEPT ![r].used = TRUE], k, c, TRUE,
                 credentials[r].family, connections[c].expiresAt)
  /\ UNCHANGED <<authorizations, connections, audit, handler, enabled, now>>

BrokenFamilyRefreshTokens(f) ==
  {k \in CredentialIds : credentials[k].kind = "refresh" /\ credentials[k].family = f}
FamilyMembers(f) == {k \in CredentialIds : Issued(k) /\ credentials[k].family = f}
CredentialsOf(c) == {k \in CredentialIds : Issued(k) /\ credentials[k].connection = c}

\* UPDATE agent_credentials SET revoked_at ... for the rows of the set `selected`
Revoke(selected) ==
  credentials' = [k \in CredentialIds |->
    IF k \in selected THEN [credentials[k] EXCEPT !.revoked = TRUE] ELSE credentials[k]]

\* refresh, when the token was rotated or revoked before
RefreshReuse(r) ==
  /\ enabled
  /\ credentials[r].kind = "refresh"
  /\ credentials[r].used \/ credentials[r].revoked
  /\ Revoke(FamilyMembers(credentials[r].family))
  /\ audit' = audit \cup {[type |-> "agent.token.refresh_reuse",
                           connection |-> credentials[r].connection]}
  /\ UNCHANGED <<authorizations, connections, handler, enabled, now>>

\* revokeConnection and revokeToken answer in a disabled deployment as well.
RevokeConnection(c, u) ==
  /\ connections[c].status # "none"
  /\ connections[c].user = u
  /\ connections' = [connections EXCEPT ![c].status = "revoked"]
  /\ Revoke(CredentialsOf(c))
  /\ audit' = audit \cup {[type |-> "agent.connection.revoked", connection |-> c]}
  /\ UNCHANGED <<authorizations, handler, enabled, now>>

BrokenRevokeTokenAlone(k) ==
  /\ Issued(k)
  /\ Revoke({k})
  /\ audit' = audit \cup {[type |-> "agent.token.revoked",
                           connection |-> credentials[k].connection]}
  /\ UNCHANGED <<authorizations, connections, handler, enabled, now>>

\* The connection keeps its status: only its credentials are revoked.
RevokeToken(k) ==
  /\ Issued(k)
  /\ Revoke(CredentialsOf(credentials[k].connection))
  /\ audit' = audit \cup {[type |-> "agent.token.revoked",
                           connection |-> credentials[k].connection]}
  /\ UNCHANGED <<authorizations, connections, handler, enabled, now>>

-----------------------------------------------------------------------------
\* authenticateAccessToken: the credential is read and tested...
ReadCredential(h, k) ==
  /\ enabled
  /\ handler[h].stage = "idle"
  /\ credentials[k].kind = "access"
  /\ ~credentials[k].revoked
  /\ now < credentials[k].expiresAt
  /\ handler' = [handler EXCEPT ![h] =
       [stage |-> "credential", credential |-> k,
        late |-> \E e \in audit : /\ e.type \in RevocationEvents
                                  /\ e.connection = credentials[k].connection,
        at |-> now]]
  /\ UNCHANGED <<authorizations, connections, credentials, audit, enabled, now>>

BrokenReadConnectionNoExpiry(h, required) ==
  LET c == credentials[handler[h].credential].connection IN
  /\ handler[h].stage = "credential"
  /\ connections[c].status = "active"
  /\ required \subseteq connections[c].scopes
  /\ handler' = [handler EXCEPT ![h].stage = "checked", ![h].at = now]
  /\ UNCHANGED <<authorizations, connections, credentials, audit, enabled, now>>

\* ... then the connection, by another statement...
ReadConnection(h, required) ==
  LET c == credentials[handler[h].credential].connection IN
  /\ handler[h].stage = "credential"
  /\ connections[c].status = "active"
  /\ now < connections[c].expiresAt
  /\ required \subseteq connections[c].scopes
  /\ handler' = [handler EXCEPT ![h].stage = "checked", ![h].at = now]
  /\ UNCHANGED <<authorizations, connections, credentials, audit, enabled, now>>

RejectAccess(h) ==
  LET c == credentials[handler[h].credential].connection IN
  /\ handler[h].stage = "credential"
  /\ \/ connections[c].status # "active"
     \/ connections[c].expiresAt <= now
     \/ \E required \in RequiredScopes : ~(required \subseteq connections[c].scopes)
  /\ handler' = [handler EXCEPT ![h] = IdleHandler]
  /\ UNCHANGED <<authorizations, connections, credentials, audit, enabled, now>>

\* ... and last_used_at and the audit event are written and the call served.
GrantAccess(h) ==
  /\ handler[h].stage = "checked"
  /\ handler' = [handler EXCEPT ![h] = IdleHandler]
  /\ audit' = audit \cup {[type |-> "agent.mcp.access",
       connection |-> credentials[handler[h].credential].connection]}
  /\ UNCHANGED <<authorizations, connections, credentials, enabled, now>>

\* A deployment sets the capability flag and drops the calls in progress.
Redeploy ==
  /\ enabled' \in BOOLEAN
  /\ handler' = [h \in Handlers |-> IdleHandler]
  /\ UNCHANGED <<authorizations, connections, credentials, audit, now>>

Tick ==
  /\ now < MaxTime
  /\ now' = now + 1
  /\ UNCHANGED <<authorizations, connections, credentials, audit, handler, enabled>>

Next ==
  \/ \E a \in AuthorizationIds, cl \in Clients, sc \in ScopeSets :
       \/ BeginBrowserAuthorization(a, cl, sc)
       \/ BeginDeviceAuthorization(a, cl, sc)
  \/ \E a \in AuthorizationIds, u \in Users : AuthorizationForDeviceCode(a, u)
  \/ \E a \in AuthorizationIds, u \in Users, c \in ConnectionIds : Approve(a, u, c)
  \/ \E a \in AuthorizationIds, u \in Users : Deny(a, u)
  \/ \E a \in AuthorizationIds : CompleteBrowserAuthorization(a)
  \/ \E a \in AuthorizationIds, cl \in Clients, k \in CredentialIds :
       \/ ExchangeAuthorizationCode(a, cl, k)
       \/ ExchangeDeviceCode(a, cl, k)
  \/ \E r, k \in CredentialIds, cl \in Clients : Refresh(r, cl, k)
  \/ \E r \in CredentialIds : RefreshReuse(r)
  \/ \E c \in ConnectionIds, u \in Users : RevokeConnection(c, u)
  \/ \E k \in CredentialIds : RevokeToken(k)
  \/ \E h \in Handlers, k \in CredentialIds : ReadCredential(h, k)
  \/ \E h \in Handlers, required \in RequiredScopes : ReadConnection(h, required)
  \/ \E h \in Handlers : RejectAccess(h)
  \/ \E h \in Handlers : GrantAccess(h)
  \/ Redeploy
  \/ Tick

Spec == Init /\ [][Next]_vars

-----------------------------------------------------------------------------
\* Every row the service writes is well-formed.
TypeOK ==
  /\ authorizations \in [AuthorizationIds -> Authorization]
  /\ connections \in [ConnectionIds -> Connection]
  /\ credentials \in [CredentialIds -> Credential]
  /\ audit \subseteq AuditEvent
  /\ handler \in [Handlers -> Handler]
  /\ enabled \in BOOLEAN
  /\ now \in Nat

Event(type, c) == [type |-> type, connection |-> c] \in audit

\* Consent precedes tokens: the connection of every token was approved in
\* exactly one authorization, which is consumed, and whose user, client and
\* scopes it carries; refresh tokens exist only where that user consented to
\* offline_access (decide, then one exchange, then any number of rotations).
ConsentPrecedesTokens ==
  \A k \in CredentialIds : Issued(k) =>
    \E a \in AuthorizationIds :
      LET consent == authorizations[a]
          c == credentials[k].connection
      IN  /\ consent.status = "consumed"
          /\ consent.connection = c
          /\ connections[c].status # "none"
          /\ connections[c].user = consent.user
          /\ connections[c].client = consent.client
          /\ connections[c].scopes = consent.scopes
          /\ credentials[k].kind = "refresh" => OfflineAccess \in consent.scopes
          /\ \A b \in AuthorizationIds : authorizations[b].connection = c => b = a

\* Token families and connections correspond one to one: an authorization is
\* exchanged once, by whichever of its codes, and every rotation stays in the
\* family (exchangeAuthorizationCode, exchangeDeviceCode, refresh).
OneFamilyPerConnection ==
  \A j, k \in CredentialIds : Issued(j) /\ Issued(k) =>
    (credentials[j].connection = credentials[k].connection
       <=> credentials[j].family = credentials[k].family)

\* Rotation: however exchanges, refreshes and revocations interleave, a
\* family never has two refresh tokens that refresh would accept.
Live(k) == ~credentials[k].used /\ ~credentials[k].revoked
OneLiveRefreshToken ==
  \A j, k \in CredentialIds :
    /\ credentials[j].kind = "refresh" /\ Live(j)
    /\ credentials[k].kind = "refresh" /\ Live(k)
    /\ credentials[j].family = credentials[k].family
    => j = k

\* A reuse of a refresh token (refresh) or a revoked token (revokeToken) ends
\* all tokens of the connection for good: none is left unrevoked and no later
\* exchange or rotation adds one.
RevokedTokensStayRevoked ==
  \A k \in CredentialIds :
    Issued(k) /\ ( \/ Event("agent.token.refresh_reuse", credentials[k].connection)
                   \/ Event("agent.token.revoked", credentials[k].connection) )
    => credentials[k].revoked

\* No call that begins after the connection was revoked, in any of the three
\* ways, passes the checks of authenticateAccessToken.
RevocationIsEffective ==
  \A h \in Handlers : handler[h].stage = "checked" => ~handler[h].late

\* An access token is honoured only before the end of the grant, counted from
\* the authorization request: no chain of approval, exchange and rotations
\* reaches beyond expiresAt of the authorization plus the grant lifetime.
AccessWithinGrant ==
  \A h \in Handlers : handler[h].stage = "checked" =>
    \E a \in AuthorizationIds :
      /\ authorizations[a].connection = credentials[handler[h].credential].connection
      /\ handler[h].at < authorizations[a].expiresAt + GrantLifetime

\* Once a user has looked up or decided a request no other user takes it
\* over, and a decision is never taken back or taken twice.
DecisionsAreFinal ==
  [][\A a \in AuthorizationIds :
       /\ authorizations[a].user # None =>
            authorizations'[a].user = authorizations[a].user
       /\ authorizations[a].status \notin {"none", "pending"} =>
            /\ authorizations'[a].status \in {authorizations[a].status, "consumed"}
            /\ authorizations'[a].connection = authorizations[a].connection
       /\ authorizations[a].status \in {"denied", "consumed"} =>
            authorizations'[a].status = authorizations[a].status]_vars

-----------------------------------------------------------------------------
(***************************************************************************)
(* The inductive invariant behind the properties above.                    *)
(***************************************************************************)
\* An approved request, and only one, points at the connection it created;
\* the connection carries its user, client and scopes and ends before the
\* request's expiry plus the grant lifetime.
ApprovalCreatesConnection ==
  \A a \in AuthorizationIds :
    LET row == authorizations[a]
        connection == connections[row.connection]
    IN  /\ row.status = "none" => row.user = None
        /\ row.status \in {"approved", "consumed"} <=> row.connection # NoConnection
        /\ row.connection # NoConnection =>
             /\ connection.status # "none"
             /\ connection.user = row.user
             /\ connection.client = row.client
             /\ connection.scopes = row.scopes
             /\ connection.expiresAt < row.expiresAt + GrantLifetime

ConnectionHasOneAuthorization ==
  \A a, b \in AuthorizationIds :
    authorizations[a].connection = authorizations[b].connection
      => a = b \/ authorizations[a].connection = NoConnection

TokensComeFromExchange ==
  \A k \in CredentialIds : Issued(k) =>
    /\ credentials[k].connection # NoConnection
    /\ \E a \in AuthorizationIds :
         /\ authorizations[a].status = "consumed"
         /\ authorizations[a].connection = credentials[k].connection
         /\ credentials[k].kind = "refresh" => OfflineAccess \in authorizations[a].scopes

FamilyIsNamedAfterItsFirstToken ==
  \A k \in CredentialIds : Issued(k) =>
    LET first == credentials[k].family IN
    /\ first \in CredentialIds
    /\ Issued(first)
    /\ credentials[first].connection = credentials[k].connection

RevocationEventsHold ==
  /\ RevokedTokensStayRevoked
  /\ \A c \in ConnectionIds :
       /\ Event("agent.connection.revoked", c) => connections[c].status = "revoked"
       /\ Event("agent.token.refresh_reuse", c) \/ Event("agent.token.revoked", c) =>
            \E k \in CredentialIds : Issued(k) /\ credentials[k].connection = c

HandlersHoldIssuedTokens ==
  \A h \in Handlers : handler[h].stage # "idle" =>
    LET k == handler[h].credential
        c == credentials[k].connection
    IN  /\ k \in CredentialIds
        /\ Issued(k)
        /\ handler[h].late => connections[c].status = "revoked"
        /\ handler[h].stage = "checked" => /\ ~handler[h].late
                                           /\ handler[h].at < connections[c].expiresAt

IInv ==
  /\ TypeOK
  /\ ApprovalCreatesConnection
  /\ ConnectionHasOneAuthorization
  /\ TokensComeFromExchange
  /\ FamilyIsNamedAfterItsFirstToken
  /\ OneFamilyPerConnection
  /\ OneLiveRefreshToken
  /\ RevocationEventsHold
  /\ HandlersHoldIssuedTokens

=============================================================================
