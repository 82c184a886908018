-------------------------- MODULE AgentGrantsProofs --------------------------
(***************************************************************************)
(* Proofs about AgentGrants and AgentGrantsTx, for every value of their    *)
(* constants.                                                              *)
(***************************************************************************)
EXTENDS AgentGrantsTx, TLAPS

USE LifetimesAssumption, BoundsAssumption, NoneAssumption

LEMMA InitTypeOK == Init => TypeOK
  BY DEF Init, TypeOK, NoAuthorization, NoConnectionRow, NoCredentialRow, IdleHandler,
         Authorization, Connection, Credential, Handler, AuditEvent, Flows,
         NoConnection, NoCredential

\* The row updates of the service keep rows well-formed.
LEMMA RowUpdates ==
  ASSUME NEW row \in Authorization
  PROVE  /\ \A u \in Users : [row EXCEPT !.user = u] \in Authorization
         /\ \A u \in Users, c \in ConnectionIds :
              [row EXCEPT !.user = u, !.status = "approved", !.connection = c] \in Authorization
         /\ \A u \in Users : [row EXCEPT !.user = u, !.status = "denied"] \in Authorization
         /\ [row EXCEPT !.status = "consumed", !.code = FALSE, !.deviceCode = FALSE]
              \in Authorization
         /\ [row EXCEPT !.code = TRUE] \in Authorization
<1>1. \A u \in Users : [row EXCEPT !.user = u] \in Authorization
  BY DEF Authorization
<1>2. \A u \in Users, c \in ConnectionIds :
        [row EXCEPT !.user = u, !.status = "approved", !.connection = c] \in Authorization
  BY DEF Authorization
<1>3. \A u \in Users : [row EXCEPT !.user = u, !.status = "denied"] \in Authorization
  BY DEF Authorization
<1>4. [row EXCEPT !.status = "consumed", !.code = FALSE, !.deviceCode = FALSE]
        \in Authorization
  BY DEF Authorization
<1>5. [row EXCEPT !.code = TRUE] \in Authorization
  BY DEF Authorization
<1> QED
  BY <1>1, <1>2, <1>3, <1>4, <1>5

\* What a step of the token endpoint inserts is a well-formed table.
LEMMA IssueTokensType ==
  ASSUME NEW rows \in [CredentialIds -> Credential], NEW k \in CredentialIds,
         NEW c \in ConnectionIds \cup {NoConnection}, NEW includeRefresh,
         NEW family \in Nat, NEW expiry \in Nat, now \in Nat,
         IssueTokens(rows, k, c, includeRefresh, family, expiry)
  PROVE  credentials' \in [CredentialIds -> Credential]
  BY DEF IssueTokens, NewCredential, Credential

LEMMA RevokeType ==
  ASSUME TypeOK, NEW S, Revoke(S)
  PROVE  credentials' \in [CredentialIds -> Credential]
  BY DEF TypeOK, Revoke, Credential

\* The rows a rotation or a revocation names exist.
LEMMA IssuedConnection ==
  ASSUME IInv, NEW k \in CredentialIds, Issued(k)
  PROVE  credentials[k].connection \in ConnectionIds
  BY DEF IInv, TypeOK, TokensComeFromExchange, Credential

LEMMA TypeOKStep == IInv /\ [Next]_vars => TypeOK'
<1> SUFFICES ASSUME IInv, [Next]_vars PROVE TypeOK'
  OBVIOUS
<1>0. TypeOK
  BY DEF IInv
<1> USE <1>0 DEF TypeOK
<1>1. ASSUME NEW a \in AuthorizationIds, NEW cl \in Clients, NEW sc \in ScopeSets,
             \/ BeginBrowserAuthorization(a, cl, sc)
             \/ BeginDeviceAuthorization(a, cl, sc)
      PROVE  TypeOK'
  <2>1. ASSUME NEW flow \in Flows, BeginAuthorization(a, flow, cl, sc)
        PROVE  TypeOK'
    BY <2>1 DEF BeginAuthorization, Authorization
  <2> QED
    BY <1>1, <2>1 DEF BeginBrowserAuthorization, BeginDeviceAuthorization, Flows
<1>2. ASSUME NEW a \in AuthorizationIds, NEW u \in Users, AuthorizationForDeviceCode(a, u)
      PROVE  TypeOK'
  BY <1>2, RowUpdates DEF AuthorizationForDeviceCode
<1>3. ASSUME NEW a \in AuthorizationIds, NEW u \in Users, NEW c \in ConnectionIds, Approve(a, u, c)
      PROVE  TypeOK'
  <2>1. authorizations' \in [AuthorizationIds -> Authorization]
    BY <1>3, RowUpdates DEF Approve
  <2>2. authorizations[a] \in Authorization
    OBVIOUS
  <2>3. connections' \in [ConnectionIds -> Connection]
    BY <1>3, <2>2 DEF Approve, Authorization, Connection
  <2> QED
    BY <1>3, <2>1, <2>3 DEF Approve
<1>4. ASSUME NEW a \in AuthorizationIds, NEW u \in Users, Deny(a, u)
      PROVE  TypeOK'
  BY <1>4, RowUpdates DEF Deny
<1>5. ASSUME NEW a \in AuthorizationIds, CompleteBrowserAuthorization(a)
      PROVE  TypeOK'
  BY <1>5, RowUpdates DEF CompleteBrowserAuthorization
<1>6. ASSUME NEW a \in AuthorizationIds, NEW cl \in Clients, NEW k \in CredentialIds,
             \/ ExchangeAuthorizationCode(a, cl, k)
             \/ ExchangeDeviceCode(a, cl, k)
      PROVE  TypeOK'
  <2>1. ConsumeAuthorization(a, k)
    BY <1>6 DEF ExchangeAuthorizationCode, ExchangeDeviceCode
  <2>2. authorizations' \in [AuthorizationIds -> Authorization]
    BY <2>1, RowUpdates DEF ConsumeAuthorization
  <2>3. /\ authorizations[a].connection \in ConnectionIds \cup {NoConnection}
        /\ k \in Nat
        /\ now + GrantLifetime \in Nat
    BY DEF Authorization, CredentialIds
  <2>4. credentials' \in [CredentialIds -> Credential]
    BY <2>1, <2>3, IssueTokensType DEF ConsumeAuthorization
  <2> QED
    BY <2>1, <2>2, <2>4 DEF ConsumeAuthorization
<1>7. ASSUME NEW r \in CredentialIds, NEW k \in CredentialIds, NEW cl \in Clients, Refresh(r, cl, k)
      PROVE  TypeOK'
  <2> DEFINE rows == [credentials EXCEPT ![r].used = TRUE]
             c == credentials[r].connection
  <2>0. credentials[r] \in Credential /\ credentials[r].kind = "refresh"
    BY <1>7 DEF Refresh
  <2>1. /\ rows \in [CredentialIds -> Credential]
        /\ c \in ConnectionIds
        /\ credentials[r].family \in Nat
    <3>1. [credentials[r] EXCEPT !.used = TRUE] \in Credential
      BY <2>0 DEF Credential
    <3>2. rows = [credentials EXCEPT ![r] = [credentials[r] EXCEPT !.used = TRUE]]
      OBVIOUS
    <3>3. rows \in [CredentialIds -> Credential]
      BY <3>1, <3>2
    <3>4. c \in ConnectionIds
      BY <2>0, IssuedConnection DEF Issued
    <3>5. credentials[r].family \in Nat
      BY <2>0 DEF Credential
    <3> QED
      BY <3>3, <3>4, <3>5
  <2>2. connections[c].expiresAt \in Nat
    BY <2>1 DEF Connection
  <2>3. credentials' \in [CredentialIds -> Credential]
    BY <1>7, <2>1, <2>2, IssueTokensType DEF Refresh
  <2> QED
    BY <1>7, <2>3 DEF Refresh
<1>8. ASSUME NEW r \in CredentialIds, RefreshReuse(r)
      PROVE  TypeOK'
  <2>1. credentials' \in [CredentialIds -> Credential]
    BY <1>8, RevokeType DEF RefreshReuse
  <2>2. credentials[r].connection \in ConnectionIds
    BY <1>8, IssuedConnection DEF RefreshReuse, Issued
  <2> QED
    BY <1>8, <2>1, <2>2 DEF RefreshReuse, AuditEvent, RevocationEvents
<1>9. ASSUME NEW c \in ConnectionIds, NEW u \in Users, RevokeConnection(c, u)
      PROVE  TypeOK'
  <2>1. credentials' \in [CredentialIds -> Credential]
    BY <1>9, RevokeType DEF RevokeConnection
  <2> QED
    BY <1>9, <2>1 DEF RevokeConnection, AuditEvent, RevocationEvents, Connection
<1>10. ASSUME NEW k \in CredentialIds, RevokeToken(k)
       PROVE  TypeOK'
  <2>1. credentials' \in [CredentialIds -> Credential]
    BY <1>10, RevokeType DEF RevokeToken
  <2>2. credentials[k].connection \in ConnectionIds
    BY <1>10, IssuedConnection DEF RevokeToken
  <2> QED
    BY <1>10, <2>1, <2>2 DEF RevokeToken, AuditEvent, RevocationEvents
<1>11. ASSUME NEW h \in Handlers, NEW k \in CredentialIds, ReadCredential(h, k)
       PROVE  TypeOK'
  BY <1>11 DEF ReadCredential, Handler
<1>12. ASSUME NEW h \in Handlers, NEW required \in RequiredScopes, ReadConnection(h, required)
       PROVE  TypeOK'
  BY <1>12 DEF ReadConnection, Handler
<1>13. ASSUME NEW h \in Handlers, RejectAccess(h)
       PROVE  TypeOK'
  BY <1>13 DEF RejectAccess, Handler, IdleHandler, NoCredential
<1>14. ASSUME NEW h \in Handlers, GrantAccess(h)
       PROVE  TypeOK'
  <2>1. credentials[handler[h].credential].connection \in ConnectionIds
    BY <1>14, IssuedConnection DEF GrantAccess, IInv, HandlersHoldIssuedTokens
  <2> QED
    BY <1>14, <2>1 DEF GrantAccess, AuditEvent, Handler, IdleHandler, NoCredential
<1>15. ASSUME Redeploy
       PROVE  TypeOK'
  BY <1>15 DEF Redeploy, Handler, IdleHandler, NoCredential
<1>16. ASSUME Tick
       PROVE  TypeOK'
  BY <1>16 DEF Tick
<1>17. CASE UNCHANGED vars
  BY <1>17 DEF vars
<1> QED
  BY <1>1, <1>2, <1>3, <1>4, <1>5, <1>6, <1>7, <1>8, <1>9, <1>10, <1>11, <1>12, <1>13,
     <1>14, <1>15, <1>16, <1>17 DEF Next

-----------------------------------------------------------------------------
\* The authorizations and connections of a step that touches neither table.
LEMMA AuthorizationsUnchanged ==
  ASSUME ApprovalCreatesConnection, ConnectionHasOneAuthorization,
         UNCHANGED <<authorizations, connections>>
  PROVE  ApprovalCreatesConnection' /\ ConnectionHasOneAuthorization'
  BY DEF ApprovalCreatesConnection, ConnectionHasOneAuthorization

LEMMA AuthorizationsStep ==
  IInv /\ [Next]_vars => ApprovalCreatesConnection' /\ ConnectionHasOneAuthorization'
<1> SUFFICES ASSUME IInv, [Next]_vars
             PROVE  ApprovalCreatesConnection' /\ ConnectionHasOneAuthorization'
  OBVIOUS
<1>0. /\ TypeOK
      /\ ApprovalCreatesConnection
      /\ ConnectionHasOneAuthorization
  BY DEF IInv
<1> DEFINE Goal == ApprovalCreatesConnection /\ ConnectionHasOneAuthorization
<1>1. ASSUME NEW a \in AuthorizationIds, NEW cl \in Clients, NEW sc \in ScopeSets,
             \/ BeginBrowserAuthorization(a, cl, sc)
             \/ BeginDeviceAuthorization(a, cl, sc)
      PROVE  Goal'
  <2>1. PICK flow \in Flows : BeginAuthorization(a, flow, cl, sc)
    BY <1>1 DEF BeginBrowserAuthorization, BeginDeviceAuthorization, Flows
  <2>2. /\ authorizations'[a].status = "pending"
        /\ authorizations'[a].connection = NoConnection
        /\ authorizations'[a].user = None
    BY <1>0, <2>1 DEF BeginAuthorization, TypeOK
  <2>3. \A b \in AuthorizationIds \ {a} : authorizations'[b] = authorizations[b]
    BY <1>0, <2>1 DEF BeginAuthorization, TypeOK
  <2>4. connections' = connections
    BY <2>1 DEF BeginAuthorization
  <2> QED
    BY <1>0, <2>2, <2>3, <2>4 DEF ApprovalCreatesConnection, ConnectionHasOneAuthorization
<1>2. ASSUME NEW a \in AuthorizationIds, NEW u \in Users, AuthorizationForDeviceCode(a, u)
      PROVE  Goal'
  <2>1. /\ authorizations'[a].status = "pending"
        /\ authorizations'[a].connection = authorizations[a].connection
        /\ authorizations[a].status = "pending"
    BY <1>0, <1>2 DEF AuthorizationForDeviceCode, Pending, TypeOK, Authorization
  <2>2. \A b \in AuthorizationIds \ {a} : authorizations'[b] = authorizations[b]
    BY <1>0, <1>2 DEF AuthorizationForDeviceCode, TypeOK
  <2>3. connections' = connections
    BY <1>2 DEF AuthorizationForDeviceCode
  <2> QED
    BY <1>0, <2>1, <2>2, <2>3 DEF ApprovalCreatesConnection, ConnectionHasOneAuthorization
<1>3. ASSUME NEW a \in AuthorizationIds, NEW u \in Users, NEW c \in ConnectionIds, Approve(a, u, c)
      PROVE  Goal'
  <2>1. /\ authorizations'[a].status = "approved"
        /\ authorizations'[a].connection = c
        /\ authorizations'[a].user = u
        /\ authorizations'[a].client = authorizations[a].client
        /\ authorizations'[a].scopes = authorizations[a].scopes
        /\ authorizations'[a].expiresAt = authorizations[a].expiresAt
    BY <1>0, <1>3 DEF Approve, TypeOK, Authorization
  <2>2. \A b \in AuthorizationIds \ {a} : authorizations'[b] = authorizations[b]
    BY <1>0, <1>3 DEF Approve, TypeOK
  <2>3. /\ connections'[c].status = "active"
        /\ connections'[c].user = u
        /\ connections'[c].client = authorizations[a].client
        /\ connections'[c].scopes = authorizations[a].scopes
        /\ connections'[c].expiresAt = now + GrantLifetime
    BY <1>0, <1>3 DEF Approve, TypeOK
  <2>4. \A d : d # c => connections'[d] = connections[d]
    BY <1>0, <1>3 DEF Approve, TypeOK
  <2>5. /\ now < authorizations[a].expiresAt
        /\ connections[c].status = "none"
        /\ c # NoConnection
    BY <1>3 DEF Approve, Pending, FreshConnection, ConnectionIds, NoConnection
  <2>6. /\ now \in Nat
        /\ authorizations[a].expiresAt \in Nat
    BY <1>0 DEF TypeOK, Authorization
  <2>7. \A b \in AuthorizationIds : authorizations[b].connection # c
    BY <1>0, <2>5 DEF ApprovalCreatesConnection
  <2>8. ConnectionHasOneAuthorization'
    BY <1>0, <2>1, <2>2, <2>7 DEF ConnectionHasOneAuthorization
  <2>9. ApprovalCreatesConnection'
    BY <1>0, <2>1, <2>2, <2>3, <2>4, <2>5, <2>6, <2>7 DEF ApprovalCreatesConnection
  <2> QED
    BY <2>8, <2>9
<1>4. ASSUME NEW a \in AuthorizationIds, NEW u \in Users, Deny(a, u)
      PROVE  Goal'
  <2>1. /\ authorizations'[a].status = "denied"
        /\ authorizations'[a].connection = authorizations[a].connection
        /\ authorizations[a].status = "pending"
    BY <1>0, <1>4 DEF Deny, Pending, TypeOK, Authorization
  <2>2. \A b \in AuthorizationIds \ {a} : authorizations'[b] = authorizations[b]
    BY <1>0, <1>4 DEF Deny, TypeOK
  <2>3. connections' = connections
    BY <1>4 DEF Deny
  <2> QED
    BY <1>0, <2>1, <2>2, <2>3 DEF ApprovalCreatesConnection, ConnectionHasOneAuthorization
<1>5. ASSUME NEW a \in AuthorizationIds, CompleteBrowserAuthorization(a)
      PROVE  Goal'
  <2>1. \A b \in AuthorizationIds :
          /\ authorizations'[b].status = authorizations[b].status
          /\ authorizations'[b].connection = authorizations[b].connection
          /\ authorizations'[b].user = authorizations[b].user
          /\ authorizations'[b].client = authorizations[b].client
          /\ authorizations'[b].scopes = authorizations[b].scopes
          /\ authorizations'[b].expiresAt = authorizations[b].expiresAt
    BY <1>0, <1>5 DEF CompleteBrowserAuthorization, TypeOK, Authorization
  <2>2. connections' = connections
    BY <1>5 DEF CompleteBrowserAuthorization
  <2> QED
    BY <1>0, <2>1, <2>2 DEF ApprovalCreatesConnection, ConnectionHasOneAuthorization
<1>6. ASSUME NEW a \in AuthorizationIds, NEW cl \in Clients, NEW k \in CredentialIds,
             \/ ExchangeAuthorizationCode(a, cl, k)
             \/ ExchangeDeviceCode(a, cl, k)
      PROVE  Goal'
  <2>0. ConsumeAuthorization(a, k)
    BY <1>6 DEF ExchangeAuthorizationCode, ExchangeDeviceCode
  <2>1. \A b \in AuthorizationIds :
          /\ authorizations'[b].connection = authorizations[b].connection
          /\ authorizations'[b].user = authorizations[b].user
          /\ authorizations'[b].client = authorizations[b].client
          /\ authorizations'[b].scopes = authorizations[b].scopes
          /\ authorizations'[b].expiresAt = authorizations[b].expiresAt
    BY <1>0, <2>0 DEF ConsumeAuthorization, TypeOK, Authorization
  <2>2. /\ authorizations[a].status = "approved"
        /\ authorizations'[a].status = "consumed"
        /\ \A b \in AuthorizationIds \ {a} : authorizations'[b].status = authorizations[b].status
    BY <1>0, <2>0 DEF ConsumeAuthorization, TypeOK, Authorization
  <2>3. connections' = connections
    BY <2>0 DEF ConsumeAuthorization
  <2> QED
    BY <1>0, <2>1, <2>2, <2>3 DEF ApprovalCreatesConnection, ConnectionHasOneAuthorization
<1>7. ASSUME NEW c \in ConnectionIds, NEW u \in Users, RevokeConnection(c, u)
      PROVE  Goal'
  <2>1. /\ authorizations' = authorizations
        /\ connections[c].status # "none"
        /\ connections'[c].status = "revoked"
    BY <1>0, <1>7 DEF RevokeConnection, TypeOK, Connection
  <2>2. /\ \A d : connections'[d].user = connections[d].user
        /\ \A d : connections'[d].client = connections[d].client
        /\ \A d : connections'[d].scopes = connections[d].scopes
        /\ \A d : connections'[d].expiresAt = connections[d].expiresAt
        /\ \A d : d # c => connections'[d] = connections[d]
    BY <1>0, <1>7 DEF RevokeConnection, TypeOK, Connection
  <2> QED
    BY <1>0, <2>1, <2>2 DEF ApprovalCreatesConnection, ConnectionHasOneAuthorization
<1>8. CASE UNCHANGED <<authorizations, connections>>
  BY <1>0, <1>8, AuthorizationsUnchanged
<1>9. ASSUME NEW r \in CredentialIds, NEW k \in CredentialIds, NEW cl \in Clients, Refresh(r, cl, k)
      PROVE  UNCHANGED <<authorizations, connections>>
  BY <1>9 DEF Refresh
<1>10. ASSUME NEW r \in CredentialIds, RefreshReuse(r)
       PROVE  UNCHANGED <<authorizations, connections>>
  BY <1>10 DEF RefreshReuse
<1>11. ASSUME NEW k \in CredentialIds, RevokeToken(k)
       PROVE  UNCHANGED <<authorizations, connections>>
  BY <1>11 DEF RevokeToken
<1>12. ASSUME NEW h \in Handlers,
              \/ \E k \in CredentialIds : ReadCredential(h, k)
              \/ \E required \in RequiredScopes : ReadConnection(h, required)
              \/ RejectAccess(h)
              \/ GrantAccess(h)
       PROVE  UNCHANGED <<authorizations, connections>>
  BY <1>12 DEF ReadCredential, ReadConnection, RejectAccess, GrantAccess
<1>13. CASE Redeploy \/ Tick \/ UNCHANGED vars
  BY <1>8, <1>13 DEF Redeploy, Tick, vars
<1> QED
  BY <1>1, <1>2, <1>3, <1>4, <1>5, <1>6, <1>7, <1>8, <1>9, <1>10, <1>11, <1>12, <1>13 DEF Next

-----------------------------------------------------------------------------
\* What issueTokens and the revoking UPDATE statements do to each row.
LEMMA IssueTokensEffect ==
  ASSUME NEW rows, NEW k \in CredentialIds, NEW c, NEW includeRefresh, NEW family, NEW expiry,
         IssueTokens(rows, k, c, includeRefresh, family, expiry)
  PROVE  /\ ~Issued(k)
         /\ credentials'[k] = NewCredential("access", c, family, now + AccessLifetime)
         /\ \A j \in CredentialIds \ {k} :
              \/ credentials'[j] = rows[j]
              \/ /\ includeRefresh
                 /\ j = k + 1
                 /\ rows[j].kind = "none"
                 /\ credentials'[j] = NewCredential("refresh", c, family, expiry)
  BY DEF IssueTokens, FreshCredential, CredentialIds

LEMMA RevokeEffect ==
  ASSUME TypeOK, NEW S, Revoke(S), NEW j \in CredentialIds
  PROVE  /\ credentials'[j].kind = credentials[j].kind
         /\ credentials'[j].connection = credentials[j].connection
         /\ credentials'[j].family = credentials[j].family
         /\ credentials'[j].used = credentials[j].used
         /\ credentials'[j].revoked = (credentials[j].revoked \/ j \in S)
  BY DEF TypeOK, Revoke, Credential

Families ==
  /\ TokensComeFromExchange
  /\ FamilyIsNamedAfterItsFirstToken
  /\ OneFamilyPerConnection
  /\ OneLiveRefreshToken

\* A consumed authorization is never written again.
LEMMA ConsumedIsFinal ==
  ASSUME IInv, [Next]_vars, NEW b \in AuthorizationIds, authorizations[b].status = "consumed"
  PROVE  authorizations'[b] = authorizations[b]
<1>0. TypeOK
  BY DEF IInv
<1>1. ASSUME NEW a \in AuthorizationIds, NEW cl \in Clients, NEW sc \in ScopeSets,
             \/ BeginBrowserAuthorization(a, cl, sc)
             \/ BeginDeviceAuthorization(a, cl, sc)
      PROVE  authorizations'[b] = authorizations[b]
  BY <1>0, <1>1 DEF BeginBrowserAuthorization, BeginDeviceAuthorization, BeginAuthorization,
                    FreshAuthorization, TypeOK
<1>2. ASSUME NEW a \in AuthorizationIds, NEW u \in Users,
             \/ AuthorizationForDeviceCode(a, u)
             \/ \E c \in ConnectionIds : Approve(a, u, c)
             \/ Deny(a, u)
      PROVE  authorizations'[b] = authorizations[b]
  BY <1>0, <1>2 DEF AuthorizationForDeviceCode, Approve, Deny, Pending, TypeOK
<1>3. ASSUME NEW a \in AuthorizationIds, CompleteBrowserAuthorization(a)
      PROVE  authorizations'[b] = authorizations[b]
  BY <1>0, <1>3 DEF CompleteBrowserAuthorization, TypeOK
<1>4. ASSUME NEW a \in AuthorizationIds, NEW cl \in Clients, NEW k \in CredentialIds,
             \/ ExchangeAuthorizationCode(a, cl, k)
             \/ ExchangeDeviceCode(a, cl, k)
      PROVE  authorizations'[b] = authorizations[b]
  BY <1>0, <1>4 DEF ExchangeAuthorizationCode, ExchangeDeviceCode, ConsumeAuthorization, TypeOK
<1>5. ASSUME NEW r \in CredentialIds,
             \/ \E k \in CredentialIds, cl \in Clients : Refresh(r, cl, k)
             \/ RefreshReuse(r)
             \/ RevokeToken(r)
      PROVE  authorizations'[b] = authorizations[b]
  BY <1>5 DEF Refresh, RefreshReuse, RevokeToken
<1>6. ASSUME NEW c \in ConnectionIds, NEW u \in Users, RevokeConnection(c, u)
      PROVE  authorizations'[b] = authorizations[b]
  BY <1>6 DEF RevokeConnection
<1>7. ASSUME NEW h \in Handlers,
             \/ \E k \in CredentialIds : ReadCredential(h, k)
             \/ \E required \in RequiredScopes : ReadConnection(h, required)
             \/ RejectAccess(h)
             \/ GrantAccess(h)
      PROVE  authorizations'[b] = authorizations[b]
  BY <1>7 DEF ReadCredential, ReadConnection, RejectAccess, GrantAccess
<1>8. CASE Redeploy \/ Tick \/ UNCHANGED vars
  BY <1>8 DEF Redeploy, Tick, vars
<1> QED
  BY <1>1, <1>2, <1>3, <1>4, <1>5, <1>6, <1>7, <1>8 DEF Next

\* An exchange starts the first family of a connection that had no token.
LEMMA ExchangeFamilies ==
  ASSUME IInv, [Next]_vars, NEW a \in AuthorizationIds, NEW k \in CredentialIds,
         ConsumeAuthorization(a, k)
  PROVE  /\ Families'
         /\ \A j \in CredentialIds : Issued(j) =>
              /\ credentials[j].connection # authorizations[a].connection
              /\ credentials'[j] = credentials[j]
         /\ \A j \in CredentialIds : Issued(j)' =>
              Issued(j) \/ credentials'[j].connection = authorizations[a].connection
<1> DEFINE c == authorizations[a].connection
           offline == OfflineAccess \in authorizations[a].scopes
<1>0. /\ TypeOK
      /\ ApprovalCreatesConnection
      /\ ConnectionHasOneAuthorization
      /\ Families
  BY DEF IInv, Families
<1>1. IssueTokens(credentials, k, c, offline, k, now + GrantLifetime)
  BY DEF ConsumeAuthorization
<1>2. /\ ~Issued(k)
      /\ credentials'[k] = NewCredential("access", c, k, now + AccessLifetime)
      /\ \A j \in CredentialIds \ {k} :
           \/ credentials'[j] = credentials[j]
           \/ /\ offline
              /\ credentials[j].kind = "none"
              /\ j = k + 1
              /\ credentials'[j] = NewCredential("refresh", c, k, now + GrantLifetime)
  BY <1>1 DEF IssueTokens, FreshCredential
<1>3. /\ authorizations[a].status = "approved"
      /\ authorizations'[a].status = "consumed"
      /\ authorizations'[a].connection = c
      /\ authorizations'[a].scopes = authorizations[a].scopes
      /\ c # NoConnection
  BY <1>0 DEF ConsumeAuthorization, TypeOK, Authorization, ApprovalCreatesConnection
<1>4. \A j \in CredentialIds : Issued(j) =>
        /\ credentials[j].connection # c
        /\ credentials[j].family # k
        /\ credentials'[j] = credentials[j]
  BY <1>0, <1>2, <1>3
     DEF Families, TokensComeFromExchange, FamilyIsNamedAfterItsFirstToken,
         ConnectionHasOneAuthorization, Issued
\* the rows after the step: the old ones, and one or two new ones in family k
<1>5. \A j \in CredentialIds : Issued(j)' =>
        \/ Issued(j) /\ credentials'[j] = credentials[j]
        \/ /\ ~Issued(j)
           /\ credentials'[j].connection = c
           /\ credentials'[j].family = k
           /\ credentials'[j].kind = "refresh" => offline /\ j = k + 1
  BY <1>2, <1>4 DEF Issued, NewCredential
<1>6. Issued(k)' /\ credentials'[k].connection = c
  BY <1>2 DEF Issued, NewCredential
<1>7. TokensComeFromExchange'
  <2> SUFFICES ASSUME NEW j \in CredentialIds, Issued(j)'
               PROVE  /\ credentials'[j].connection # NoConnection
                      /\ \E b \in AuthorizationIds :
                           /\ authorizations'[b].status = "consumed"
                           /\ authorizations'[b].connection = credentials'[j].connection
                           /\ credentials'[j].kind = "refresh" =>
                                OfflineAccess \in authorizations'[b].scopes
    BY DEF TokensComeFromExchange
  <2>1. CASE Issued(j) /\ credentials'[j] = credentials[j]
    BY <1>0, <2>1, ConsumedIsFinal DEF Families, TokensComeFromExchange
  <2>2. CASE ~(Issued(j) /\ credentials'[j] = credentials[j])
    BY <1>3, <1>5, <2>2
  <2> QED
    BY <2>1, <2>2
<1>8. FamilyIsNamedAfterItsFirstToken'
  BY <1>0, <1>4, <1>5, <1>6 DEF Families, FamilyIsNamedAfterItsFirstToken, Issued
<1>9. OneFamilyPerConnection'
  BY <1>0, <1>4, <1>5 DEF Families, OneFamilyPerConnection
<1>10. OneLiveRefreshToken'
  <2> SUFFICES ASSUME NEW i \in CredentialIds, NEW j \in CredentialIds,
                      credentials'[i].kind = "refresh", Live(i)',
                      credentials'[j].kind = "refresh", Live(j)',
                      credentials'[i].family = credentials'[j].family
               PROVE  i = j
    BY DEF OneLiveRefreshToken
  <2>1. Issued(i)' /\ Issued(j)'
    BY DEF Issued
  <2>2. CASE Issued(i) /\ Issued(j)
    BY <1>0, <1>5, <2>2, <2>1 DEF Families, OneLiveRefreshToken, Live
  <2>3. CASE ~Issued(i) /\ ~Issued(j)
    BY <1>5, <2>1, <2>3
  <2>4. CASE Issued(i) /\ ~Issued(j)
    BY <1>4, <1>5, <2>1, <2>4
  <2>5. CASE ~Issued(i) /\ Issued(j)
    BY <1>4, <1>5, <2>1, <2>5
  <2> QED
    BY <2>2, <2>3, <2>4, <2>5
<1> QED
  BY <1>4, <1>5, <1>7, <1>8, <1>9, <1>10 DEF Families

\* A rotation adds two tokens to the family of the token it uses up.
LEMMA RefreshFamilies ==
  ASSUME IInv, [Next]_vars, NEW r \in CredentialIds, NEW k \in CredentialIds, NEW cl \in Clients,
         Refresh(r, cl, k)
  PROVE  /\ Families'
         /\ \A j \in CredentialIds : Issued(j)' =>
              \/ /\ Issued(j)
                 /\ credentials'[j].connection = credentials[j].connection
                 /\ credentials'[j].revoked = credentials[j].revoked
              \/ ~Issued(j) /\ credentials'[j].connection = credentials[r].connection
         /\ \A j \in CredentialIds : Issued(j) =>
              Issued(j)' /\ credentials'[j].connection = credentials[j].connection
<1> DEFINE c == credentials[r].connection
           f == credentials[r].family
           rows == [credentials EXCEPT ![r].used = TRUE]
<1>0. /\ TypeOK
      /\ Families
      /\ authorizations' = authorizations
  BY DEF IInv, Families, Refresh
<1>1. /\ Issued(r)
      /\ credentials[r].kind = "refresh"
      /\ Live(r)
  BY DEF Refresh, Issued, Live
<1>2. IssueTokens(rows, k, c, TRUE, f, connections[c].expiresAt)
  BY DEF Refresh
<1>3. /\ ~Issued(k)
      /\ credentials'[k] = NewCredential("access", c, f, now + AccessLifetime)
      /\ \A j \in CredentialIds \ {k} :
           \/ credentials'[j] = rows[j]
           \/ /\ rows[j].kind = "none"
              /\ j = k + 1
              /\ credentials'[j] = NewCredential("refresh", c, f, connections[c].expiresAt)
  BY <1>2 DEF IssueTokens, FreshCredential
<1>4. \A j \in CredentialIds :
        /\ rows[j].kind = credentials[j].kind
        /\ rows[j].connection = credentials[j].connection
        /\ rows[j].family = credentials[j].family
        /\ rows[j].revoked = credentials[j].revoked
        /\ j # r => rows[j] = credentials[j]
        /\ rows[r].used
  BY <1>0 DEF TypeOK, Credential
<1>5. \A j \in CredentialIds : Issued(j)' =>
        \/ /\ Issued(j)
           /\ credentials'[j].kind = credentials[j].kind
           /\ credentials'[j].connection = credentials[j].connection
           /\ credentials'[j].family = credentials[j].family
           /\ credentials'[j].revoked = credentials[j].revoked
           /\ Live(j)' => Live(j) /\ j # r
        \/ /\ ~Issued(j)
           /\ credentials'[j].connection = c
           /\ credentials'[j].family = f
           /\ credentials'[j].kind = "refresh" => j = k + 1
  <2> SUFFICES ASSUME NEW j \in CredentialIds, Issued(j)'
               PROVE  \/ /\ Issued(j)
                         /\ credentials'[j].kind = credentials[j].kind
                         /\ credentials'[j].connection = credentials[j].connection
                         /\ credentials'[j].family = credentials[j].family
                         /\ credentials'[j].revoked = credentials[j].revoked
                         /\ Live(j)' => Live(j) /\ j # r
                      \/ /\ ~Issued(j)
                         /\ credentials'[j].connection = c
                         /\ credentials'[j].family = f
                         /\ credentials'[j].kind = "refresh" => j = k + 1
    OBVIOUS
  <2> HIDE DEF rows, c, f
  <2>1. CASE j = k
    BY <1>3, <2>1 DEF NewCredential
  <2>2. CASE j # k /\ credentials'[j] = rows[j]
    <3>1. Issued(j)
      BY <1>4, <2>2 DEF Issued
    <3>2. CASE j = r
      BY <1>4, <2>2, <3>1, <3>2 DEF Live
    <3>3. CASE j # r
      BY <1>4, <2>2, <3>1, <3>3 DEF Live
    <3> QED
      BY <3>2, <3>3
  <2>3. CASE j # k /\ credentials'[j] # rows[j]
    BY <1>3, <1>4, <2>3 DEF NewCredential, Issued
  <2> QED
    BY <2>1, <2>2, <2>3
<1>6. \A j \in CredentialIds : Issued(j) =>
        Issued(j)' /\ credentials'[j].connection = credentials[j].connection
  BY <1>3, <1>4 DEF Issued
<1>7. TokensComeFromExchange'
  <2> SUFFICES ASSUME NEW j \in CredentialIds, Issued(j)'
               PROVE  /\ credentials'[j].connection # NoConnection
                      /\ \E b \in AuthorizationIds :
                           /\ authorizations[b].status = "consumed"
                           /\ authorizations[b].connection = credentials'[j].connection
                           /\ credentials'[j].kind = "refresh" =>
                                OfflineAccess \in authorizations[b].scopes
    BY <1>0 DEF TokensComeFromExchange
  <2>1. CASE Issued(j)
    BY <1>0, <1>5, <2>1 DEF Families, TokensComeFromExchange
  <2>2. CASE ~Issued(j)
    BY <1>0, <1>1, <1>5, <2>2 DEF Families, TokensComeFromExchange
  <2> QED
    BY <2>1, <2>2
<1>8. FamilyIsNamedAfterItsFirstToken'
  BY <1>0, <1>1, <1>5, <1>6 DEF Families, FamilyIsNamedAfterItsFirstToken
<1>9. OneFamilyPerConnection'
  BY <1>0, <1>1, <1>5 DEF Families, OneFamilyPerConnection
<1>10. OneLiveRefreshToken'
  <2> SUFFICES ASSUME NEW i \in CredentialIds, NEW j \in CredentialIds,
                      credentials'[i].kind = "refresh", Live(i)',
                      credentials'[j].kind = "refresh", Live(j)',
                      credentials'[i].family = credentials'[j].family
               PROVE  i = j
    BY DEF OneLiveRefreshToken
  <2>1. Issued(i)' /\ Issued(j)'
    BY DEF Issued
  <2>2. CASE Issued(i) /\ Issued(j)
    BY <1>0, <1>5, <2>2, <2>1 DEF Families, OneLiveRefreshToken
  <2>3. CASE ~Issued(i) /\ ~Issued(j)
    BY <1>5, <2>1, <2>3
  \* a live token besides the new one would have been live besides r before
  <2>4. CASE Issued(i) /\ ~Issued(j)
    BY <1>0, <1>1, <1>5, <2>1, <2>4 DEF Families, OneLiveRefreshToken
  <2>5. CASE ~Issued(i) /\ Issued(j)
    BY <1>0, <1>1, <1>5, <2>1, <2>5 DEF Families, OneLiveRefreshToken
  <2> QED
    BY <2>2, <2>3, <2>4, <2>5
<1> QED
  BY <1>5, <1>6, <1>7, <1>8, <1>9, <1>10 DEF Families

\* A step that at most revokes tokens.
LEMMA UnissuedFamilies ==
  ASSUME IInv, [Next]_vars,
         \A j \in CredentialIds :
           /\ credentials'[j].kind = credentials[j].kind
           /\ credentials'[j].connection = credentials[j].connection
           /\ credentials'[j].family = credentials[j].family
           /\ credentials'[j].used = credentials[j].used
           /\ credentials[j].revoked => credentials'[j].revoked
  PROVE  Families'
<1>0. Families
  BY DEF IInv, Families
<1>1. TokensComeFromExchange'
  BY <1>0, ConsumedIsFinal DEF Families, TokensComeFromExchange, Issued
<1>2. FamilyIsNamedAfterItsFirstToken'
  BY <1>0 DEF Families, FamilyIsNamedAfterItsFirstToken, Issued
<1>3. OneFamilyPerConnection'
  BY <1>0 DEF Families, OneFamilyPerConnection, Issued
<1>4. OneLiveRefreshToken'
  BY <1>0 DEF Families, OneLiveRefreshToken, Live
<1> QED
  BY <1>1, <1>2, <1>3, <1>4 DEF Families

\* The three ways a step changes the table of credentials, for the lemmas below.
LEMMA CredentialSteps ==
  ASSUME [Next]_vars
  PROVE  \/ \E a \in AuthorizationIds, k \in CredentialIds :
              ConsumeAuthorization(a, k) /\ UNCHANGED <<connections, audit, handler>>
         \/ \E r, k \in CredentialIds, cl \in Clients : Refresh(r, cl, k)
         \/ \E r \in CredentialIds : RefreshReuse(r)
         \/ \E c \in ConnectionIds, u \in Users : RevokeConnection(c, u)
         \/ \E k \in CredentialIds : RevokeToken(k)
         \/ /\ UNCHANGED credentials
            /\ \A type \in RevocationEvents, c \in ConnectionIds :
                 Event(type, c)' => Event(type, c)
<1>1. ASSUME NEW a \in AuthorizationIds, NEW cl \in Clients, NEW sc \in ScopeSets,
             \/ BeginBrowserAuthorization(a, cl, sc)
             \/ BeginDeviceAuthorization(a, cl, sc)
      PROVE  UNCHANGED <<credentials, audit>>
  BY <1>1 DEF BeginBrowserAuthorization, BeginDeviceAuthorization, BeginAuthorization
<1>2. ASSUME NEW a \in AuthorizationIds, NEW u \in Users,
             \/ AuthorizationForDeviceCode(a, u)
             \/ \E c \in ConnectionIds : Approve(a, u, c)
             \/ Deny(a, u)
      PROVE  UNCHANGED <<credentials, audit>>
  BY <1>2 DEF AuthorizationForDeviceCode, Approve, Deny
<1>3. ASSUME NEW a \in AuthorizationIds, CompleteBrowserAuthorization(a)
      PROVE  UNCHANGED <<credentials, audit>>
  BY <1>3 DEF CompleteBrowserAuthorization
<1>4. ASSUME NEW a \in AuthorizationIds, NEW cl \in Clients, NEW k \in CredentialIds,
             \/ ExchangeAuthorizationCode(a, cl, k)
             \/ ExchangeDeviceCode(a, cl, k)
      PROVE  ConsumeAuthorization(a, k) /\ UNCHANGED <<connections, audit, handler>>
  BY <1>4 DEF ExchangeAuthorizationCode, ExchangeDeviceCode, ConsumeAuthorization
<1>5. ASSUME NEW h \in Handlers,
             \/ \E k \in CredentialIds : ReadCredential(h, k)
             \/ \E required \in RequiredScopes : ReadConnection(h, required)
             \/ RejectAccess(h)
      PROVE  UNCHANGED <<credentials, audit>>
  BY <1>5 DEF ReadCredential, ReadConnection, RejectAccess
<1>6. ASSUME NEW h \in Handlers, GrantAccess(h)
      PROVE  /\ UNCHANGED credentials
             /\ \A type \in RevocationEvents, c \in ConnectionIds :
                  Event(type, c)' => Event(type, c)
  BY <1>6 DEF GrantAccess, Event, RevocationEvents
<1>7. CASE Redeploy \/ Tick \/ UNCHANGED vars
  BY <1>7 DEF Redeploy, Tick, vars, Event
<1>8. UNCHANGED <<credentials, audit>> =>
        /\ UNCHANGED credentials
        /\ \A type \in RevocationEvents, c \in ConnectionIds : Event(type, c)' => Event(type, c)
  BY DEF Event
<1> QED
  BY <1>1, <1>2, <1>3, <1>4, <1>5, <1>6, <1>7, <1>8 DEF Next

LEMMA FamiliesStep == IInv /\ [Next]_vars => Families'
<1> SUFFICES ASSUME IInv, [Next]_vars PROVE Families'
  OBVIOUS
<1>0. TypeOK
  BY DEF IInv
<1>1. ASSUME NEW S, Revoke(S)
      PROVE  Families'
  BY <1>0, <1>1, RevokeEffect, UnissuedFamilies
<1>2. CASE UNCHANGED credentials
  BY <1>2, UnissuedFamilies
<1> QED
  BY <1>1, <1>2, CredentialSteps, ExchangeFamilies, RefreshFamilies
     DEF RefreshReuse, RevokeConnection, RevokeToken

\* Tokens and connections persist; a revoked connection stays revoked.
LEMMA RowsPersist ==
  ASSUME IInv, [Next]_vars
  PROVE  /\ \A k \in CredentialIds : Issued(k) =>
              Issued(k)' /\ credentials'[k].connection = credentials[k].connection
         /\ \A c \in ConnectionIds : connections[c].status # "none" =>
              /\ connections'[c].expiresAt = connections[c].expiresAt
              /\ connections[c].status = "revoked" => connections'[c].status = "revoked"
<1>0. TypeOK
  BY DEF IInv
<1>1. \A k \in CredentialIds : Issued(k) =>
        Issued(k)' /\ credentials'[k].connection = credentials[k].connection
  <2>1. ASSUME NEW S, Revoke(S), NEW k \in CredentialIds, Issued(k)
        PROVE  Issued(k)' /\ credentials'[k].connection = credentials[k].connection
    BY <1>0, <2>1, RevokeEffect DEF Issued
  <2>2. CASE UNCHANGED credentials
    BY <2>2 DEF Issued
  <2>3. ASSUME NEW a \in AuthorizationIds, NEW j \in CredentialIds, ConsumeAuthorization(a, j),
               NEW k \in CredentialIds, Issued(k)
        PROVE  Issued(k)' /\ credentials'[k].connection = credentials[k].connection
    BY <2>3, ExchangeFamilies DEF Issued
  <2> QED
    BY <2>1, <2>2, <2>3, CredentialSteps, RefreshFamilies
       DEF RefreshReuse, RevokeConnection, RevokeToken
<1>2. \A c \in ConnectionIds : connections[c].status # "none" =>
        /\ connections'[c].expiresAt = connections[c].expiresAt
        /\ connections[c].status = "revoked" => connections'[c].status = "revoked"
  <2> SUFFICES ASSUME NEW c \in ConnectionIds, connections[c].status # "none"
               PROVE  /\ connections'[c].expiresAt = connections[c].expiresAt
                      /\ connections[c].status = "revoked" => connections'[c].status = "revoked"
    OBVIOUS
  <2>1. ASSUME NEW a \in AuthorizationIds, NEW u \in Users, NEW d \in ConnectionIds, Approve(a, u, d)
        PROVE  connections'[c] = connections[c]
    BY <1>0, <2>1 DEF Approve, FreshConnection, TypeOK
  <2>2. ASSUME NEW d \in ConnectionIds, NEW u \in Users, RevokeConnection(d, u)
        PROVE  /\ connections'[c].expiresAt = connections[c].expiresAt
               /\ connections[c].status = "revoked" => connections'[c].status = "revoked"
    BY <1>0, <2>2 DEF RevokeConnection, TypeOK, Connection
  <2>3. CASE UNCHANGED connections
    BY <2>3
  <2>4. \/ \E a \in AuthorizationIds, u \in Users, d \in ConnectionIds : Approve(a, u, d)
        \/ \E d \in ConnectionIds, u \in Users : RevokeConnection(d, u)
        \/ UNCHANGED connections
    BY DEF Next, vars, BeginBrowserAuthorization, BeginDeviceAuthorization, BeginAuthorization,
           AuthorizationForDeviceCode, Deny, CompleteBrowserAuthorization,
           ExchangeAuthorizationCode, ExchangeDeviceCode, ConsumeAuthorization, Refresh,
           RefreshReuse, RevokeToken, ReadCredential, ReadConnection, RejectAccess, GrantAccess,
           Redeploy, Tick
  <2> QED
    BY <2>1, <2>2, <2>3, <2>4
<1> QED
  BY <1>1, <1>2

-----------------------------------------------------------------------------
\* The connections all of whose tokens an event has ended.
Ended ==
  {c \in ConnectionIds : \/ Event("agent.token.refresh_reuse", c)
                         \/ Event("agent.token.revoked", c)}

LEMMA RevocationEventsStep == IInv /\ [Next]_vars => RevocationEventsHold'
<1> SUFFICES ASSUME IInv, [Next]_vars PROVE RevocationEventsHold'
  OBVIOUS
<1>0. /\ TypeOK
      /\ Families
      /\ ApprovalCreatesConnection
  BY DEF IInv, Families
<1>1. /\ \A k \in CredentialIds : Issued(k) /\ credentials[k].connection \in Ended
           => credentials[k].revoked
      /\ \A c \in ConnectionIds :
           Event("agent.connection.revoked", c) => connections[c].status = "revoked"
      /\ \A c \in ConnectionIds : c \in Ended =>
           \E k \in CredentialIds : Issued(k) /\ credentials[k].connection = c
  BY DEF IInv, RevocationEventsHold, RevokedTokensStayRevoked, Ended
<1> DEFINE Goal ==
      /\ \A k \in CredentialIds : Issued(k) /\ credentials[k].connection \in Ended
           => credentials[k].revoked
      /\ \A c \in ConnectionIds :
           Event("agent.connection.revoked", c) => connections[c].status = "revoked"
      /\ \A c \in ConnectionIds : c \in Ended =>
           \E k \in CredentialIds : Issued(k) /\ credentials[k].connection = c
<1>2. \A k \in CredentialIds : Issued(k) => credentials[k].connection \in ConnectionIds
  BY IssuedConnection
<1>2a. \A k \in CredentialIds : Issued(k)' => credentials'[k].connection \in ConnectionIds
  <2>1. TypeOK' /\ TokensComeFromExchange'
    BY TypeOKStep, FamiliesStep DEF Families
  <2> QED
    BY <2>1 DEF TypeOK, TokensComeFromExchange, Credential, Issued
<1>3. \A c \in ConnectionIds : connections[c].status = "revoked" =>
        connections'[c].status = "revoked"
  BY RowsPersist
<1> SUFFICES Goal'
  BY <1>2a DEF RevocationEventsHold, RevokedTokensStayRevoked, Ended
<1>4. \A c \in ConnectionIds :
        (\E k \in CredentialIds : Issued(k) /\ credentials[k].connection = c) =>
        (\E k \in CredentialIds : Issued(k)' /\ credentials'[k].connection = c)
  BY RowsPersist
<1>5. CASE \E a \in AuthorizationIds, k \in CredentialIds :
             ConsumeAuthorization(a, k) /\ UNCHANGED <<connections, audit, handler>>
  <2>1. PICK a \in AuthorizationIds, k \in CredentialIds :
          ConsumeAuthorization(a, k) /\ UNCHANGED <<connections, audit, handler>>
    BY <1>5
  <2> DEFINE c == authorizations[a].connection
  <2>2. \A j \in CredentialIds : Issued(j) =>
          credentials[j].connection # c /\ credentials'[j] = credentials[j]
    BY <2>1, ExchangeFamilies
  <2>3. \A j \in CredentialIds : Issued(j)' => Issued(j) \/ credentials'[j].connection = c
    BY <2>1, ExchangeFamilies
  <2>4. c \in ConnectionIds
    BY <1>0, <2>1 DEF ConsumeAuthorization, TypeOK, Authorization, ApprovalCreatesConnection
  <2>5. \A d : d \in Ended' <=> d \in Ended
    BY <2>1 DEF Ended, Event
  \* no event can have ended a connection that never had a token
  <2>6. c \notin Ended
    BY <1>1, <2>2, <2>4
  <2>7. \A j \in CredentialIds : Issued(j)' /\ credentials'[j].connection \in Ended'
          => credentials'[j].revoked
    BY <1>1, <2>2, <2>3, <2>5, <2>6
  <2>8. \A d \in ConnectionIds :
          Event("agent.connection.revoked", d)' => connections'[d].status = "revoked"
    BY <1>1, <1>3, <2>1 DEF Event
  <2> QED
    BY <1>1, <1>4, <2>5, <2>7, <2>8
<1>6. CASE \E r, k \in CredentialIds, cl \in Clients : Refresh(r, cl, k)
  <2>1. PICK r \in CredentialIds, k \in CredentialIds, cl \in Clients : Refresh(r, cl, k)
    BY <1>6
  <2> DEFINE c == credentials[r].connection
  <2>2. \A j \in CredentialIds : Issued(j)' =>
          \/ /\ Issued(j)
             /\ credentials'[j].connection = credentials[j].connection
             /\ credentials'[j].revoked = credentials[j].revoked
          \/ ~Issued(j) /\ credentials'[j].connection = c
    BY <2>1, RefreshFamilies
  <2>3. audit' = audit /\ connections' = connections
    BY <2>1 DEF Refresh
  <2>4. \A d : d \in Ended' <=> d \in Ended
    BY <2>3 DEF Ended, Event
  \* the rotated token was not revoked, so its connection has not ended
  <2>5. c \notin Ended
    BY <1>1, <2>1 DEF Refresh, Issued
  <2>6. \A j \in CredentialIds : Issued(j)' /\ credentials'[j].connection \in Ended'
          => credentials'[j].revoked
    BY <1>1, <2>2, <2>4, <2>5
  <2>7. \A d \in ConnectionIds :
          Event("agent.connection.revoked", d)' => connections'[d].status = "revoked"
    BY <1>1, <2>3 DEF Event
  <2> QED
    BY <1>1, <1>4, <2>4, <2>6, <2>7
\* The three revoking steps: the credentials in S are revoked, and an event
\* for connection c is appended whose tokens all are in S.
<1>7. ASSUME NEW S, Revoke(S), NEW c \in ConnectionIds, NEW type \in RevocationEvents,
             audit' = audit \cup {[type |-> type, connection |-> c]},
             type = "agent.connection.revoked" => connections'[c].status = "revoked",
             \A j \in CredentialIds : Issued(j) /\ credentials[j].connection = c => j \in S,
             type # "agent.connection.revoked" =>
               \E k \in CredentialIds : Issued(k) /\ credentials[k].connection = c
      PROVE  Goal'
  <2>1. \A j \in CredentialIds :
          /\ Issued(j)' <=> Issued(j)
          /\ credentials'[j].connection = credentials[j].connection
          /\ credentials[j].revoked => credentials'[j].revoked
          /\ j \in S => credentials'[j].revoked
    BY <1>0, <1>7, RevokeEffect DEF Issued
  <2>2. \A d : d \in Ended' => d \in Ended \/ (d = c /\ type # "agent.connection.revoked")
    BY <1>7 DEF Ended, Event
  <2>3. \A d : Event("agent.connection.revoked", d)' =>
          Event("agent.connection.revoked", d) \/ (d = c /\ type = "agent.connection.revoked")
    BY <1>7 DEF Event
  <2>4. \A j \in CredentialIds : Issued(j)' /\ credentials'[j].connection \in Ended'
          => credentials'[j].revoked
    BY <1>1, <1>7, <2>1, <2>2
  <2>5. \A d \in ConnectionIds :
          Event("agent.connection.revoked", d)' => connections'[d].status = "revoked"
    BY <1>1, <1>3, <1>7, <2>3
  <2>6. \A d \in ConnectionIds : d \in Ended' =>
          \E k \in CredentialIds : Issued(k) /\ credentials[k].connection = d
    BY <1>1, <1>7, <2>2
  <2> QED
    BY <1>4, <2>4, <2>5, <2>6
<1>8. ASSUME NEW r \in CredentialIds, RefreshReuse(r)
      PROVE  Goal'
  <2> DEFINE c == credentials[r].connection
  <2>1. Issued(r) /\ c \in ConnectionIds
    BY <1>2, <1>8 DEF RefreshReuse, Issued
  \* every token of the connection is in the family of the reused one
  <2>2. \A j \in CredentialIds : Issued(j) /\ credentials[j].connection = c
          => j \in FamilyMembers(credentials[r].family)
    BY <1>0, <2>1 DEF Families, OneFamilyPerConnection, FamilyMembers
  <2>3. /\ Revoke(FamilyMembers(credentials[r].family))
        /\ audit' = audit \cup {[type |-> "agent.token.refresh_reuse", connection |-> c]}
    BY <1>8 DEF RefreshReuse
  <2> HIDE DEF c, Goal
  <2> QED
    BY <1>7, <2>1, <2>2, <2>3 DEF RevocationEvents, c
<1>9. ASSUME NEW c \in ConnectionIds, NEW u \in Users, RevokeConnection(c, u)
      PROVE  Goal'
  <2>1. connections'[c].status = "revoked"
    BY <1>0, <1>9 DEF RevokeConnection, TypeOK, Connection
  <2>2. /\ Revoke(CredentialsOf(c))
        /\ audit' = audit \cup {[type |-> "agent.connection.revoked", connection |-> c]}
    BY <1>9 DEF RevokeConnection
  <2>3. \A j \in CredentialIds : Issued(j) /\ credentials[j].connection = c
          => j \in CredentialsOf(c)
    BY DEF CredentialsOf
  <2> HIDE DEF Goal
  <2> QED
    BY <1>7, <2>1, <2>2, <2>3 DEF RevocationEvents
<1>10. ASSUME NEW k \in CredentialIds, RevokeToken(k)
       PROVE  Goal'
  <2> DEFINE c == credentials[k].connection
  <2>1. Issued(k) /\ c \in ConnectionIds
    BY <1>2, <1>10 DEF RevokeToken
  <2>2. \A j \in CredentialIds : Issued(j) /\ credentials[j].connection = c
          => j \in CredentialsOf(c)
    BY DEF CredentialsOf
  <2>3. /\ Revoke(CredentialsOf(c))
        /\ audit' = audit \cup {[type |-> "agent.token.revoked", connection |-> c]}
    BY <1>10 DEF RevokeToken
  <2> HIDE DEF c, Goal
  <2> QED
    BY <1>7, <2>1, <2>2, <2>3 DEF RevocationEvents, c
<1>11. CASE /\ UNCHANGED credentials
            /\ \A type \in RevocationEvents, c \in ConnectionIds :
                 Event(type, c)' => Event(type, c)
  <2>1. \A c \in ConnectionIds :
          /\ c \in Ended' => c \in Ended
          /\ Event("agent.connection.revoked", c)' => Event("agent.connection.revoked", c)
    BY <1>11 DEF Ended, RevocationEvents
  <2>2. \A k \in CredentialIds : Issued(k)' <=> Issued(k)
    BY <1>11 DEF Issued
  <2> QED
    BY <1>1, <1>2, <1>3, <1>4, <1>11, <2>1, <2>2
<1> QED
  BY <1>5, <1>6, <1>8, <1>9, <1>10, <1>11, CredentialSteps

LEMMA HandlersStep == IInv /\ [Next]_vars => HandlersHoldIssuedTokens'
<1> SUFFICES ASSUME IInv, [Next]_vars, NEW h \in Handlers
             PROVE  (handler[h].stage # "idle" =>
                       LET k == handler[h].credential
                           c == credentials[k].connection
                       IN  /\ k \in CredentialIds
                           /\ Issued(k)
                           /\ handler[h].late => connections[c].status = "revoked"
                           /\ handler[h].stage = "checked" =>
                                /\ ~handler[h].late
                                /\ handler[h].at < connections[c].expiresAt)'
  BY DEF HandlersHoldIssuedTokens
<1>0. /\ TypeOK
      /\ HandlersHoldIssuedTokens
      /\ RevocationEventsHold
      /\ TokensComeFromExchange
      /\ ApprovalCreatesConnection
  BY DEF IInv
\* the connection of an issued token exists
<1>1. \A k \in CredentialIds : Issued(k) =>
        /\ credentials[k].connection \in ConnectionIds
        /\ connections[credentials[k].connection].status # "none"
  BY <1>0, IssuedConnection DEF TokensComeFromExchange, ApprovalCreatesConnection
<1>2. /\ \A k \in CredentialIds : Issued(k) =>
           Issued(k)' /\ credentials'[k].connection = credentials[k].connection
      /\ \A c \in ConnectionIds : connections[c].status # "none" =>
           /\ connections'[c].expiresAt = connections[c].expiresAt
           /\ connections[c].status = "revoked" => connections'[c].status = "revoked"
  BY RowsPersist
<1>3. CASE handler'[h] = handler[h]
  BY <1>0, <1>1, <1>2, <1>3 DEF HandlersHoldIssuedTokens
<1>4. CASE handler'[h].stage = "idle"
  BY <1>4
<1>5. ASSUME NEW g \in Handlers, NEW k \in CredentialIds, ReadCredential(g, k), h = g
      PROVE  (handler[h].stage # "idle" =>
                LET j == handler[h].credential
                    c == credentials[j].connection
                IN  /\ j \in CredentialIds
                    /\ Issued(j)
                    /\ handler[h].late => connections[c].status = "revoked"
                    /\ handler[h].stage = "checked" =>
                         /\ ~handler[h].late
                         /\ handler[h].at < connections[c].expiresAt)'
  <2> DEFINE c == credentials[k].connection
  <2>1. /\ handler'[h].credential = k
        /\ handler'[h].stage = "credential"
        /\ handler'[h].late = \E e \in audit : e.type \in RevocationEvents /\ e.connection = c
    BY <1>0, <1>5 DEF ReadCredential, TypeOK
  <2>2. /\ Issued(k)
        /\ ~credentials[k].revoked
        /\ UNCHANGED <<credentials, connections>>
    BY <1>5 DEF ReadCredential, Issued
  \* the token is not revoked: the event can only be a revoked connection
  <2>3. handler'[h].late => connections[c].status = "revoked"
    <3> SUFFICES ASSUME NEW e \in audit, e.type \in RevocationEvents, e.connection = c
                 PROVE  connections[c].status = "revoked"
      BY <2>1
    <3>1. e = [type |-> e.type, connection |-> c] /\ c \in ConnectionIds
      BY <1>0 DEF TypeOK, AuditEvent
    <3> QED
      BY <1>0, <2>2, <3>1 DEF RevocationEventsHold, RevokedTokensStayRevoked, Event, RevocationEvents
  <2> QED
    BY <2>1, <2>2, <2>3 DEF Issued
<1>6. ASSUME NEW g \in Handlers, NEW required \in RequiredScopes, ReadConnection(g, required), h = g
      PROVE  (handler[h].stage # "idle" =>
                LET j == handler[h].credential
                    c == credentials[j].connection
                IN  /\ j \in CredentialIds
                    /\ Issued(j)
                    /\ handler[h].late => connections[c].status = "revoked"
                    /\ handler[h].stage = "checked" =>
                         /\ ~handler[h].late
                         /\ handler[h].at < connections[c].expiresAt)'
  <2> DEFINE k == handler[h].credential
             c == credentials[k].connection
  <2>1. /\ handler'[h].credential = k
        /\ handler'[h].late = handler[h].late
        /\ handler'[h].at = now
    BY <1>0, <1>6 DEF ReadConnection, TypeOK, Handler
  <2>2. /\ handler[h].stage = "credential"
        /\ connections[c].status = "active"
        /\ now < connections[c].expiresAt
        /\ UNCHANGED <<credentials, connections>>
    BY <1>6 DEF ReadConnection
  <2> QED
    BY <1>0, <2>1, <2>2 DEF HandlersHoldIssuedTokens, Issued
<1>7. ASSUME NEW g \in Handlers, h # g,
             \/ \E k \in CredentialIds : ReadCredential(g, k)
             \/ \E required \in RequiredScopes : ReadConnection(g, required)
             \/ RejectAccess(g)
             \/ GrantAccess(g)
      PROVE  handler'[h] = handler[h]
  BY <1>0, <1>7 DEF ReadCredential, ReadConnection, RejectAccess, GrantAccess, TypeOK
<1>8. ASSUME RejectAccess(h) \/ GrantAccess(h) \/ Redeploy
      PROVE  handler'[h].stage = "idle"
  BY <1>0, <1>8 DEF RejectAccess, GrantAccess, Redeploy, IdleHandler, TypeOK
<1>9. \/ UNCHANGED handler
      \/ \E g \in Handlers :
           \/ \E k \in CredentialIds : ReadCredential(g, k)
           \/ \E required \in RequiredScopes : ReadConnection(g, required)
           \/ RejectAccess(g)
           \/ GrantAccess(g)
      \/ Redeploy
  BY DEF Next, vars, BeginBrowserAuthorization, BeginDeviceAuthorization, BeginAuthorization,
         AuthorizationForDeviceCode, Approve, Deny, CompleteBrowserAuthorization,
         ExchangeAuthorizationCode, ExchangeDeviceCode, ConsumeAuthorization, Refresh,
         RefreshReuse, RevokeConnection, RevokeToken, Tick
<1> QED
  BY <1>3, <1>4, <1>5, <1>6, <1>7, <1>8, <1>9

-----------------------------------------------------------------------------
LEMMA InitIInv == Init => IInv
<1> SUFFICES ASSUME Init PROVE IInv
  OBVIOUS
<1>1. TypeOK
  BY InitTypeOK
<1>2. /\ \A a \in AuthorizationIds :
           /\ authorizations[a].status = "none"
           /\ authorizations[a].user = None
           /\ authorizations[a].connection = NoConnection
      /\ \A k \in CredentialIds : credentials[k].kind = "none"
      /\ \A h \in Handlers : handler[h].stage = "idle"
      /\ audit = {}
  BY DEF Init, NoAuthorization, NoCredentialRow, IdleHandler
<1> QED
  BY <1>1, <1>2
     DEF IInv, ApprovalCreatesConnection, ConnectionHasOneAuthorization, TokensComeFromExchange,
         FamilyIsNamedAfterItsFirstToken, OneFamilyPerConnection, OneLiveRefreshToken,
         RevocationEventsHold, RevokedTokensStayRevoked, HandlersHoldIssuedTokens, Issued, Event

LEMMA NextIInv == IInv /\ [Next]_vars => IInv'
  BY TypeOKStep, AuthorizationsStep, FamiliesStep, RevocationEventsStep, HandlersStep
     DEF IInv, Families

\* The inductive invariant holds of every behaviour of the service.
THEOREM InductiveInvariant == Spec => []IInv
<1>1. Init => IInv
  BY InitIInv
<1>2. IInv /\ [Next]_vars => IInv'
  BY NextIInv
<1> QED
  BY <1>1, <1>2, PTL DEF Spec

\* Every row the service writes is well-formed.
THEOREM TypeCorrect == Spec => []TypeOK
<1>1. IInv => TypeOK
  BY DEF IInv
<1> QED
  BY <1>1, InductiveInvariant, PTL

\* Every token stems from one consumed authorization of the connection's user.
THEOREM ConsentTheorem == Spec => []ConsentPrecedesTokens
<1>1. IInv => ConsentPrecedesTokens
  <2> SUFFICES ASSUME IInv, NEW k \in CredentialIds, Issued(k)
               PROVE  \E a \in AuthorizationIds :
                        LET consent == authorizations[a]
                            c == credentials[k].connection
                        IN  /\ consent.status = "consumed"
                            /\ consent.connection = c
                            /\ connections[c].status # "none"
                            /\ connections[c].user = consent.user
                            /\ connections[c].client = consent.client
                            /\ connections[c].scopes = consent.scopes
                            /\ credentials[k].kind = "refresh" => OfflineAccess \in consent.scopes
                            /\ \A b \in AuthorizationIds :
                                 authorizations[b].connection = c => b = a
    BY DEF ConsentPrecedesTokens
  <2>1. PICK a \in AuthorizationIds :
          /\ authorizations[a].status = "consumed"
          /\ authorizations[a].connection = credentials[k].connection
          /\ credentials[k].kind = "refresh" => OfflineAccess \in authorizations[a].scopes
    BY DEF IInv, TokensComeFromExchange
  <2>2. /\ credentials[k].connection # NoConnection
        /\ \A b \in AuthorizationIds :
             authorizations[b].connection = credentials[k].connection => b = a
    BY <2>1 DEF IInv, TokensComeFromExchange, ConnectionHasOneAuthorization
  <2>3. LET connection == connections[credentials[k].connection]
        IN  /\ connection.status # "none"
            /\ connection.user = authorizations[a].user
            /\ connection.client = authorizations[a].client
            /\ connection.scopes = authorizations[a].scopes
    BY <2>1, <2>2 DEF IInv, ApprovalCreatesConnection
  <2> QED
    BY <2>1, <2>2, <2>3
<1> QED
  BY <1>1, InductiveInvariant, PTL

\* An authorization is exchanged once, and every rotation stays in its family.
THEOREM FamilyTheorem == Spec => []OneFamilyPerConnection
<1>1. IInv => OneFamilyPerConnection
  BY DEF IInv
<1> QED
  BY <1>1, InductiveInvariant, PTL

\* A family never has two refresh tokens that refresh would accept.
THEOREM RotationTheorem == Spec => []OneLiveRefreshToken
<1>1. IInv => OneLiveRefreshToken
  BY DEF IInv
<1> QED
  BY <1>1, InductiveInvariant, PTL

\* Reuse of a refresh token or revocation of a token ends all tokens of the
\* connection for good.
THEOREM ReuseTheorem == Spec => []RevokedTokensStayRevoked
<1>1. IInv => RevokedTokensStayRevoked
  BY DEF IInv, RevocationEventsHold
<1> QED
  BY <1>1, InductiveInvariant, PTL

\* No call that begins after a revocation passes the checks.
THEOREM RevocationTheorem == Spec => []RevocationIsEffective
<1>1. IInv => RevocationIsEffective
  BY DEF IInv, HandlersHoldIssuedTokens, RevocationIsEffective
<1> QED
  BY <1>1, InductiveInvariant, PTL

\* No access token is honoured beyond the end of the grant.
THEOREM GrantTheorem == Spec => []AccessWithinGrant
<1>1. IInv => AccessWithinGrant
  <2> SUFFICES ASSUME IInv, NEW h \in Handlers, handler[h].stage = "checked"
               PROVE  \E a \in AuthorizationIds :
                        /\ authorizations[a].connection =
                             credentials[handler[h].credential].connection
                        /\ handler[h].at < authorizations[a].expiresAt + GrantLifetime
    BY DEF AccessWithinGrant
  <2> DEFINE k == handler[h].credential
             c == credentials[k].connection
  <2>1. k \in CredentialIds /\ Issued(k) /\ handler[h].at < connections[c].expiresAt
    BY DEF IInv, HandlersHoldIssuedTokens
  <2>2. PICK a \in AuthorizationIds : authorizations[a].connection = c /\ c # NoConnection
    BY <2>1 DEF IInv, TokensComeFromExchange
  <2>3. connections[c].expiresAt < authorizations[a].expiresAt + GrantLifetime
    BY <2>2 DEF IInv, ApprovalCreatesConnection
  <2>4. /\ c \in ConnectionIds
        /\ handler[h].at \in Nat
        /\ connections[c].expiresAt \in Nat
        /\ authorizations[a].expiresAt \in Nat
    BY <2>1, IssuedConnection DEF IInv, TypeOK, Handler, Connection, Authorization
  <2> QED
    BY <2>1, <2>2, <2>3, <2>4
<1> QED
  BY <1>1, InductiveInvariant, PTL

\* A request keeps the user it was bound to, and its decision.
THEOREM DecisionTheorem == Spec => DecisionsAreFinal
<1> DEFINE Final ==
      \A a \in AuthorizationIds :
        /\ authorizations[a].user # None =>
             authorizations'[a].user = authorizations[a].user
        /\ authorizations[a].status \notin {"none", "pending"} =>
             /\ authorizations'[a].status \in {authorizations[a].status, "consumed"}
             /\ authorizations'[a].connection = authorizations[a].connection
        /\ authorizations[a].status \in {"denied", "consumed"} =>
             authorizations'[a].status = authorizations[a].status
<1>1. IInv /\ [Next]_vars => Final
  <2> SUFFICES ASSUME IInv, [Next]_vars PROVE Final
    OBVIOUS
  <2>0. /\ TypeOK
        /\ \A a \in AuthorizationIds :
             authorizations[a].status = "none" => authorizations[a].user = None
    BY DEF IInv, ApprovalCreatesConnection
  <2>1. ASSUME NEW a \in AuthorizationIds, NEW cl \in Clients, NEW sc \in ScopeSets,
               \/ BeginBrowserAuthorization(a, cl, sc)
               \/ BeginDeviceAuthorization(a, cl, sc)
        PROVE  Final
    BY <2>0, <2>1 DEF BeginBrowserAuthorization, BeginDeviceAuthorization, BeginAuthorization,
                      FreshAuthorization, TypeOK
  <2>2. ASSUME NEW a \in AuthorizationIds, NEW u \in Users, AuthorizationForDeviceCode(a, u)
        PROVE  Final
    BY <2>0, <2>2 DEF AuthorizationForDeviceCode, Pending, TypeOK, Authorization
  <2>3. ASSUME NEW a \in AuthorizationIds, NEW u \in Users, NEW c \in ConnectionIds, Approve(a, u, c)
        PROVE  Final
    BY <2>0, <2>3 DEF Approve, Pending, TypeOK, Authorization
  <2>4. ASSUME NEW a \in AuthorizationIds, NEW u \in Users, Deny(a, u)
        PROVE  Final
    BY <2>0, <2>4 DEF Deny, Pending, TypeOK, Authorization
  <2>5. ASSUME NEW a \in AuthorizationIds, CompleteBrowserAuthorization(a)
        PROVE  Final
    BY <2>0, <2>5 DEF CompleteBrowserAuthorization, TypeOK, Authorization
  <2>6. ASSUME NEW a \in AuthorizationIds, NEW cl \in Clients, NEW k \in CredentialIds,
               \/ ExchangeAuthorizationCode(a, cl, k)
               \/ ExchangeDeviceCode(a, cl, k)
        PROVE  Final
    BY <2>0, <2>6 DEF ExchangeAuthorizationCode, ExchangeDeviceCode, ConsumeAuthorization,
                      TypeOK, Authorization
  <2>7. CASE UNCHANGED authorizations
    BY <2>7
  <2>8. \/ \E a \in AuthorizationIds, cl \in Clients, sc \in ScopeSets :
             \/ BeginBrowserAuthorization(a, cl, sc)
             \/ BeginDeviceAuthorization(a, cl, sc)
        \/ \E a \in AuthorizationIds, u \in Users : AuthorizationForDeviceCode(a, u)
        \/ \E a \in AuthorizationIds, u \in Users, c \in ConnectionIds : Approve(a, u, c)
        \/ \E a \in AuthorizationIds, u \in Users : Deny(a, u)
        \/ \E a \in AuthorizationIds : CompleteBrowserAuthorization(a)
        \/ \E a \in AuthorizationIds, cl \in Clients, k \in CredentialIds :
             \/ ExchangeAuthorizationCode(a, cl, k)
             \/ ExchangeDeviceCode(a, cl, k)
        \/ UNCHANGED authorizations
    BY DEF Next, vars, Refresh, RefreshReuse, RevokeConnection, RevokeToken, ReadCredential,
           ReadConnection, RejectAccess, GrantAccess, Redeploy, Tick
  <2> QED
    BY <2>1, <2>2, <2>3, <2>4, <2>5, <2>6, <2>7, <2>8
<1>2. IInv /\ [Next]_vars => [Final]_vars
  BY <1>1
<1> QED
  BY <1>2, InductiveInvariant, PTL DEF Spec, DecisionsAreFinal

-----------------------------------------------------------------------------
(***************************************************************************)
(* AgentGrantsTx: the transactions implement the atomic operations.        *)
(***************************************************************************)
Holds(t, row, mode) == [holder |-> t, row |-> row, mode |-> mode] \in locks

KeySharesAreOfConnections == \A l \in locks : l.mode = "keyShare" => l.row.table = "connection"

AuthorizationOps == {"lookup", "approve", "deny", "complete", "exchange"}
Revocations == {"reuse", "revokeToken", "revokeConnection"}

\* The clock stands still: what was valid when it was written is valid.
NothingExpires ==
  /\ enabled
  /\ \A a \in AuthorizationIds : authorizations[a].status # "none" =>
       authorizations[a].client \in Clients /\ now < authorizations[a].expiresAt
  /\ \A c \in ConnectionIds : connections[c].status # "none" => now < connections[c].expiresAt
  /\ \A k \in CredentialIds : Issued(k) => now < credentials[k].expiresAt

\* What a call has read of the row it names is still so: no other transaction
\* writes a row that it holds FOR UPDATE.
ReadsStand(t) ==
  LET op == tx[t].op
      next == tx[t].next
      a == tx[t].target
      u == tx[t].user
  IN
  /\ op = "none" => next = "none"
  /\ op \in AuthorizationOps =>
       /\ a \in AuthorizationIds
       /\ Holds(t, Row("authorization", a), "update")
  /\ op \in {"lookup", "approve", "deny"} =>
       /\ next = "commit" /\ u \in Users
       /\ Pending(a, u)
       /\ op = "lookup" => authorizations[a].flow = "device"
  /\ op = "complete" =>
       /\ next = "commit"
       /\ authorizations[a].flow = "browser"
       /\ authorizations[a].status = "approved" /\ ~authorizations[a].code
  /\ op = "exchange" =>
       /\ next \in {"insert", "commit"}
       /\ authorizations[a].status = "approved"
       /\ authorizations[a].code \/ authorizations[a].deviceCode
       /\ next = "commit" => Holds(t, Row("connection", authorizations[a].connection), "keyShare")

\* The same for the calls that name a token or a connection; past their second
\* statement they hold the connection too.
TokenReadsStand(t) ==
  LET op == tx[t].op
      next == tx[t].next
      k == tx[t].target
  IN
  /\ op \in {"refresh", "reuse", "revokeToken"} =>
       /\ k \in CredentialIds /\ Issued(k)
       /\ Holds(t, Row("credential", k), "update")
       /\ next # "connection" => Holds(t, Row("connection", credentials[k].connection), "update")
  /\ op = "refresh" =>
       /\ next \in {"connection", "commit"}
       /\ credentials[k].kind = "refresh" /\ ~credentials[k].used /\ ~credentials[k].revoked
       /\ next = "commit" => connections[credentials[k].connection].status = "active"
  /\ op = "reuse" => credentials[k].kind = "refresh" /\ (credentials[k].used \/ credentials[k].revoked)
  /\ op = "revokeConnection" =>
       /\ k \in ConnectionIds /\ next # "connection"
       /\ Holds(t, Row("connection", k), "update")
       /\ connections[k].status # "none"
       /\ tx[t].user \in Users /\ connections[k].user = tx[t].user

\* A revocation reaches every token: once the rows are selected, each token of
\* the scope is revoked, still to be locked or locked, also if it was issued
\* after the call began; and it locks no token of another connection.
RevocationCovers(t) ==
  tx[t].op \in Revocations =>
    /\ tx[t].next \in {"connection", "select", "update", "commit"}
    /\ LockedCredentials(t) \subseteq RevocationScope(t)
    /\ tx[t].next \in {"update", "commit"} =>
         /\ tx[t].todo \subseteq RevocationScope(t)
         /\ \A k \in RevocationScope(t) :
              credentials[k].revoked \/ k \in tx[t].todo \cup LockedCredentials(t)
    /\ tx[t].next = "commit" => tx[t].todo = {}

\* The row locks keep what every transaction has read true until it commits,
\* and a revocation loses no token, whoever else issues or revokes meanwhile
\* (forUpdate in the service, the foreign key of agent_credentials).
TxIInv ==
  /\ IInv
  /\ TxTypeOK
  /\ KeySharesAreOfConnections
  /\ NothingExpires
  /\ \A t \in Transactions : ReadsStand(t) /\ TokenReadsStand(t) /\ RevocationCovers(t)

\* A row that is locked FOR UPDATE is locked by nobody else.
LEMMA Conflicts ==
  ASSUME TxTypeOK, NEW s, NEW t, s # t, NEW row, NEW mode, Holds(t, row, "update")
  PROVE  ~Holds(s, row, mode)
<1> SUFFICES ASSUME Holds(s, row, mode) PROVE FALSE
  OBVIOUS
<1> DEFINE held == [holder |-> t, row |-> row, mode |-> "update"]
           other == [holder |-> s, row |-> row, mode |-> mode]
<1>1. held \in locks /\ other \in locks
  BY DEF Holds
<1>2. Blockers(held.holder, held.row, held.mode) = {}
  BY <1>1 DEF TxTypeOK
<1>3. other.holder \in Blockers(t, row, "update")
  BY <1>1 DEF Blockers, Conflict
<1> QED
  BY <1>2, <1>3

OwnLocksKept(t) == \A l : l.holder = t => (l \in locks' <=> l \in locks)

\* What taking a lock, and releasing all of a transaction, does to locks.
LEMMA LockEffect ==
  ASSUME TxTypeOK, TypeOK', NEW t \in Transactions, NEW row \in Rows,
         NEW mode \in {"update", "keyShare"}, Lock(t, row, mode),
         tx' \in [Transactions -> Transaction], tx'[t].op # "none",
         \A s \in Transactions \ {t} : tx'[s] = tx[s]
  PROVE  /\ TxTypeOK'
         /\ Holds(t, row, mode)'
         /\ \A r, m : Holds(t, r, m) => Holds(t, r, m)'
         /\ \A s : s # t => OwnLocksKept(s)
<1> DEFINE new == [holder |-> t, row |-> row, mode |-> mode]
<1>1. /\ locks' = locks \cup {new}
      /\ Blockers(t, row, mode) = {}
  BY DEF Lock, CanLock
<1>2. locks' \subseteq [holder : Transactions, row : Rows, mode : {"update", "keyShare"}]
  BY <1>1 DEF TxTypeOK
<1>3. \A l \in locks' : tx'[l.holder].op # "none"
  BY <1>1 DEF TxTypeOK
<1>4. ASSUME NEW l \in locks', NEW m \in locks', m.row = l.row, m.holder # l.holder,
             m.mode = "update" \/ l.mode = "update"
      PROVE  FALSE
  <2>1. ASSUME NEW x \in locks, NEW y \in locks, x.row = y.row, x.holder # y.holder,
               x.mode = "update" \/ y.mode = "update"
        PROVE  FALSE
    <3>1. Blockers(x.holder, x.row, x.mode) = {}
      BY DEF TxTypeOK
    <3>2. y.holder \in Blockers(x.holder, x.row, x.mode)
      BY <2>1 DEF Blockers, Conflict
    <3> QED
      BY <3>1, <3>2
  <2>2. ASSUME NEW y \in locks, y.row = row, y.holder # t, mode = "update" \/ y.mode = "update"
        PROVE  FALSE
    <3>1. y.holder \in Blockers(t, row, mode)
      BY <2>2 DEF Blockers, Conflict
    <3> QED
      BY <1>1, <3>1
  <2> QED
    BY <1>1, <1>4, <2>1, <2>2
<1>5. \A l \in locks' : Blockers(l.holder, l.row, l.mode)' = {}
  BY <1>4 DEF Blockers, Conflict
<1>6. TxTypeOK'
  BY <1>2, <1>3, <1>5 DEF TxTypeOK
<1>7. \A s : s # t => OwnLocksKept(s)
  BY <1>1 DEF OwnLocksKept
<1> QED
  BY <1>1, <1>6, <1>7 DEF Holds

LEMMA EndEffect ==
  ASSUME TxTypeOK, TypeOK', NEW t \in Transactions, End(t)
  PROVE  /\ TxTypeOK'
         /\ locks' \subseteq locks
         /\ tx'[t].op = "none" /\ tx'[t].next = "none"
         /\ \A s \in Transactions \ {t} : tx'[s] = tx[s]
         /\ \A s : s # t => OwnLocksKept(s)
<1>1. /\ locks' = {l \in locks : l.holder # t}
      /\ tx' = [tx EXCEPT ![t] = NoTransaction]
  BY DEF End, Release
<1>2. /\ tx' \in [Transactions -> Transaction]
      /\ tx'[t].op = "none" /\ tx'[t].next = "none"
      /\ \A s \in Transactions \ {t} : tx'[s] = tx[s]
  BY <1>1 DEF TxTypeOK, Transaction, NoTransaction, Operations
<1>3. \A l \in locks' : /\ tx'[l.holder].op # "none"
                        /\ Blockers(l.holder, l.row, l.mode)' = {}
  <2> SUFFICES ASSUME NEW l \in locks'
               PROVE  /\ tx'[l.holder].op # "none"
                      /\ Blockers(l.holder, l.row, l.mode)' = {}
    OBVIOUS
  <2>1. l \in locks /\ l.holder # t /\ l.holder \in Transactions
    BY <1>1 DEF TxTypeOK
  <2>2. Blockers(l.holder, l.row, l.mode) = {} /\ tx[l.holder].op # "none"
    BY <2>1 DEF TxTypeOK
  <2>3. Blockers(l.holder, l.row, l.mode)' \subseteq Blockers(l.holder, l.row, l.mode)
    BY <1>1 DEF Blockers, Conflict
  <2> QED
    BY <1>2, <2>1, <2>2, <2>3
<1>4. \A s : s # t => OwnLocksKept(s)
  BY <1>1 DEF OwnLocksKept
<1> QED
  BY <1>1, <1>2, <1>3, <1>4 DEF TxTypeOK

\* A token keeps its kind, connection and family, and stays revoked; a
\* connection keeps its user.
TokensPersist ==
  /\ \A k \in CredentialIds : Issued(k) =>
       /\ credentials'[k].kind = credentials[k].kind
       /\ credentials'[k].connection = credentials[k].connection
       /\ credentials'[k].family = credentials[k].family
       /\ credentials[k].revoked => credentials'[k].revoked
  /\ \A k \in CredentialIds : Issued(k) => Issued(k)'

LEMMA TokensPersistStep ==
  ASSUME IInv, [Next]_vars
  PROVE  TokensPersist
<1>0. TypeOK
  BY DEF IInv
<1>1. ASSUME NEW S, Revoke(S)
      PROVE  TokensPersist
  BY <1>0, <1>1, RevokeEffect DEF TokensPersist, Issued
<1>2. CASE UNCHANGED credentials
  BY <1>2 DEF TokensPersist, Issued
<1>3. ASSUME NEW a \in AuthorizationIds, NEW j \in CredentialIds, ConsumeAuthorization(a, j)
      PROVE  TokensPersist
  <2>1. \A k \in CredentialIds : Issued(k) => credentials'[k] = credentials[k]
    BY <1>3, IssueTokensEffect DEF ConsumeAuthorization, Issued
  <2> QED
    BY <2>1 DEF TokensPersist, Issued
<1>4. ASSUME NEW r \in CredentialIds, NEW cl \in Clients, NEW j \in CredentialIds, Refresh(r, cl, j)
      PROVE  TokensPersist
  <2> DEFINE rows == [credentials EXCEPT ![r].used = TRUE]
  <2>1. IssueTokens(rows, j, credentials[r].connection, TRUE, credentials[r].family,
                    connections[credentials[r].connection].expiresAt)
    BY <1>4 DEF Refresh
  <2>2. \A k \in CredentialIds : /\ rows[k].kind = credentials[k].kind
                                 /\ rows[k].connection = credentials[k].connection
                                 /\ rows[k].family = credentials[k].family
                                 /\ rows[k].revoked = credentials[k].revoked
    BY <1>0 DEF TypeOK, Credential
  <2> HIDE DEF rows
  <2>3. /\ ~Issued(j)
        /\ \A k \in CredentialIds \ {j} : credentials'[k] = rows[k] \/ rows[k].kind = "none"
    BY <2>1, IssueTokensEffect
  <2>4. \A k \in CredentialIds : Issued(k) => credentials'[k] = rows[k]
    BY <2>2, <2>3 DEF Issued
  <2> QED
    BY <2>2, <2>4 DEF TokensPersist, Issued
<1> QED
  BY <1>1, <1>2, <1>3, <1>4, CredentialSteps DEF RefreshReuse, RevokeConnection, RevokeToken

\* No one else has written the rows that t holds FOR UPDATE, nor issued a token
\* of a connection that it holds.
LockedRowsKept(t) ==
  /\ \A a \in AuthorizationIds :
       authorizations[a].status # "none" /\ Holds(t, Row("authorization", a), "update") =>
         authorizations'[a] = authorizations[a]
  /\ \A c \in ConnectionIds :
       connections[c].status # "none" /\ Holds(t, Row("connection", c), "update") =>
         connections'[c] = connections[c]
  /\ \A k \in CredentialIds :
       Issued(k) /\ Holds(t, Row("credential", k), "update") => credentials'[k] = credentials[k]
  /\ \A k \in CredentialIds :
       Issued(k)' /\ ~Issued(k) =>
         ~Holds(t, Row("connection", credentials'[k].connection), "update")

TransactionOK(t) == ReadsStand(t) /\ TokenReadsStand(t) /\ RevocationCovers(t)

\* What a transaction knows survives the steps of the others.
LEMMA OthersStand ==
  ASSUME TxIInv, IInv', TokensPersist, now' = now,
         NEW t \in Transactions, tx'[t] = tx[t], OwnLocksKept(t), LockedRowsKept(t)
  PROVE  TransactionOK(t)'
<1>0. /\ TypeOK /\ TxTypeOK
      /\ ReadsStand(t) /\ TokenReadsStand(t) /\ RevocationCovers(t)
      /\ OneFamilyPerConnection'
      /\ tx[t] \in Transaction
  BY DEF TxIInv, IInv, TxTypeOK
<1>1. \A row, mode : Holds(t, row, mode)' <=> Holds(t, row, mode)
  BY DEF Holds, OwnLocksKept
<1>2. LockedCredentials(t)' = LockedCredentials(t)
  BY DEF LockedCredentials, OwnLocksKept
<1>3. ReadsStand(t)'
  <2>1. ASSUME tx[t].op \in AuthorizationOps
        PROVE  authorizations'[tx[t].target] = authorizations[tx[t].target]
    <3>1. /\ tx[t].target \in AuthorizationIds
          /\ Holds(t, Row("authorization", tx[t].target), "update")
          /\ authorizations[tx[t].target].status # "none"
      BY <1>0, <2>1 DEF ReadsStand, AuthorizationOps, Pending
    <3> QED
      BY <3>1 DEF LockedRowsKept
  <2>2. CASE tx[t].op \in AuthorizationOps
    BY <1>0, <1>1, <2>1, <2>2 DEF ReadsStand, Pending
  <2>3. CASE tx[t].op \notin AuthorizationOps
    BY <1>0, <2>3 DEF ReadsStand, AuthorizationOps
  <2> QED
    BY <2>2, <2>3
<1>4. TokenReadsStand(t)'
  <2>1. CASE tx[t].op \in {"refresh", "reuse", "revokeToken"}
    <3> DEFINE k == tx[t].target
               c == credentials[k].connection
    <3>1. /\ k \in CredentialIds /\ Issued(k)
          /\ Holds(t, Row("credential", k), "update")
          /\ tx[t].next # "connection" => Holds(t, Row("connection", c), "update")
      BY <1>0, <2>1 DEF TokenReadsStand
    <3>2. credentials'[k] = credentials[k]
      BY <3>1 DEF LockedRowsKept
    <3>3. tx[t].op = "refresh" /\ tx[t].next = "commit" => connections'[c] = connections[c]
      <4> SUFFICES ASSUME tx[t].op = "refresh", tx[t].next = "commit"
                   PROVE  connections'[c] = connections[c]
        OBVIOUS
      <4>1. connections[c].status = "active" /\ c \in ConnectionIds
        BY <1>0, <3>1, IssuedConnection DEF TokenReadsStand, TxIInv
      <4> QED
        BY <3>1, <4>1 DEF LockedRowsKept
    <3> QED
      BY <1>0, <1>1, <2>1, <3>1, <3>2, <3>3 DEF TokenReadsStand, Issued
  <2>2. CASE tx[t].op = "revokeConnection"
    <3> DEFINE c == tx[t].target
    <3>1. /\ c \in ConnectionIds
          /\ Holds(t, Row("connection", c), "update")
          /\ connections[c].status # "none"
      BY <1>0, <2>2 DEF TokenReadsStand
    <3>2. connections'[c] = connections[c]
      BY <3>1 DEF LockedRowsKept
    <3> QED
      BY <1>0, <1>1, <2>2, <3>1, <3>2 DEF TokenReadsStand
  <2>3. CASE tx[t].op \notin {"refresh", "reuse", "revokeToken", "revokeConnection"}
    BY <2>3 DEF TokenReadsStand
  <2> QED
    BY <2>1, <2>2, <2>3
<1>5. RevocationCovers(t)'
  <2> SUFFICES ASSUME tx[t].op \in Revocations
               PROVE  RevocationCovers(t)'
    BY DEF RevocationCovers
  <2> DEFINE k0 == tx[t].target
  <2>1. tx[t].op \in {"reuse", "revokeToken"} =>
          /\ k0 \in CredentialIds /\ Issued(k0)
          /\ credentials'[k0] = credentials[k0]
          /\ tx[t].next # "connection" => Holds(t, Row("connection", credentials[k0].connection), "update")
    BY <1>0 DEF TokenReadsStand, LockedRowsKept
  <2>2. ConnectionOf(t)' = ConnectionOf(t)
    BY <2>1 DEF ConnectionOf, Revocations
  <2>3. \A k \in CredentialIds : Issued(k) => (k \in RevocationScope(t)' <=> k \in RevocationScope(t))
    BY <2>1, <2>2 DEF RevocationScope, FamilyMembers, CredentialsOf, TokensPersist, Revocations
  <2>4. ASSUME tx[t].next \in {"update", "commit"}, NEW k \in RevocationScope(t)'
        PROVE  Issued(k)
    <3> SUFFICES ASSUME ~Issued(k) PROVE FALSE
      OBVIOUS
    <3>1. k \in CredentialIds /\ Issued(k)'
      BY DEF RevocationScope, FamilyMembers, CredentialsOf
    <3>2. Holds(t, Row("connection", ConnectionOf(t)), "update")
      BY <1>0, <2>1, <2>4 DEF ConnectionOf, Revocations, TokenReadsStand
    <3>3. credentials'[k].connection = ConnectionOf(t)
      <4>1. CASE tx[t].op = "reuse"
        <5>1. credentials'[k].family = credentials'[k0].family /\ Issued(k0)'
          BY <2>1, <4>1 DEF RevocationScope, FamilyMembers, TokensPersist
        <5>2. credentials'[k].connection = credentials'[k0].connection
          BY <1>0, <2>1, <3>1, <4>1, <5>1 DEF OneFamilyPerConnection
        <5> QED
          BY <2>1, <4>1, <5>2 DEF ConnectionOf
      <4>2. CASE tx[t].op # "reuse"
        BY <2>2, <4>2 DEF RevocationScope, CredentialsOf
      <4> QED
        BY <4>1, <4>2
    <3> QED
      BY <3>1, <3>2, <3>3 DEF LockedRowsKept
  <2>5. RevocationScope(t) \subseteq CredentialIds /\ \A k \in RevocationScope(t) : Issued(k)
    BY DEF RevocationScope, FamilyMembers, CredentialsOf
  <2>6. RevocationScope(t)' \subseteq CredentialIds
    BY DEF RevocationScope, FamilyMembers, CredentialsOf
  <2>7. \A k \in CredentialIds : Issued(k) /\ credentials[k].revoked => credentials'[k].revoked
    BY DEF TokensPersist
  <2>8. /\ tx[t].next \in {"connection", "select", "update", "commit"}
        /\ LockedCredentials(t) \subseteq RevocationScope(t)
        /\ tx[t].next \in {"update", "commit"} =>
             /\ tx[t].todo \subseteq RevocationScope(t)
             /\ \A k \in RevocationScope(t) :
                  credentials[k].revoked \/ k \in tx[t].todo \cup LockedCredentials(t)
        /\ tx[t].next = "commit" => tx[t].todo = {}
    BY <1>0 DEF RevocationCovers
  <2> QED
    BY <1>2, <2>3, <2>4, <2>5, <2>6, <2>7, <2>8 DEF RevocationCovers
<1> QED
  BY <1>3, <1>4, <1>5 DEF TransactionOK

\* A step of t keeps the invariant if it is a step of AgentGrants or none, and
\* writes only what the others do not hold.
LEMMA TransactionStep ==
  ASSUME TxIInv, [Next]_vars, NEW t \in Transactions,
         TxTypeOK', KeySharesAreOfConnections', NothingExpires', now' = now,
         \A s \in Transactions \ {t} : tx'[s] = tx[s] /\ OwnLocksKept(s) /\ LockedRowsKept(s),
         TransactionOK(t)'
  PROVE  TxIInv'
<1>1. IInv' /\ TokensPersist
  BY NextIInv, TokensPersistStep DEF TxIInv
<1>2. \A s \in Transactions \ {t} : TransactionOK(s)'
  BY <1>1, OthersStand
<1>3. \A s \in Transactions : TransactionOK(s)'
  BY <1>2
<1> QED
  BY <1>1, <1>3 DEF TxIInv, TransactionOK

\* A step of t that commits nothing.
LEMMA QuietStep ==
  ASSUME TxIInv, NEW t \in Transactions, UNCHANGED <<tables, frozen>>,
         TxTypeOK', KeySharesAreOfConnections',
         \A s \in Transactions \ {t} : tx'[s] = tx[s] /\ OwnLocksKept(s),
         TransactionOK(t)'
  PROVE  UNCHANGED vars /\ TxIInv'
<1>1. UNCHANGED vars /\ now' = now
  BY DEF tables, frozen, vars
<1>2. NothingExpires'
  BY <1>1 DEF TxIInv, NothingExpires, Issued, vars
<1>3. \A s \in Transactions : LockedRowsKept(s)
  BY <1>1 DEF LockedRowsKept, Issued, vars
<1> QED
  BY <1>1, <1>2, <1>3, TransactionStep

LEMMA EndedIsOK ==
  ASSUME NEW t, tx'[t].op = "none", tx'[t].next = "none"
  PROVE  TransactionOK(t)'
  BY DEF TransactionOK, ReadsStand, TokenReadsStand, RevocationCovers, AuthorizationOps, Revocations

\* A transaction that ends without a commit.
LEMMA EndStep ==
  ASSUME TxIInv, NEW t \in Transactions, End(t), UNCHANGED <<tables, frozen>>
  PROVE  UNCHANGED vars /\ TxIInv'
<1>1. TxTypeOK /\ TypeOK /\ KeySharesAreOfConnections
  BY DEF TxIInv, TxTypeOK
<1>2. TypeOK'
  BY <1>1 DEF TypeOK, tables, frozen
<1>3. /\ TxTypeOK'
      /\ locks' \subseteq locks
      /\ tx'[t].op = "none" /\ tx'[t].next = "none"
      /\ \A s \in Transactions \ {t} : tx'[s] = tx[s] /\ OwnLocksKept(s)
  BY <1>1, <1>2, EndEffect
<1>4. KeySharesAreOfConnections'
  BY <1>1, <1>3 DEF KeySharesAreOfConnections
<1> QED
  BY <1>3, <1>4, EndedIsOK, QuietStep

-----------------------------------------------------------------------------
\* The call starts: it holds the row it names.
LEMMA StartEffect ==
  ASSUME TxIInv, NEW t \in Transactions, NEW op \in Operations \ {"none"},
         NEW next \in {"connection", "insert", "select", "commit"},
         NEW row \in Rows, NEW u \in Users \cup {None}, Start(t, op, next, row, u)
  PROVE  /\ UNCHANGED <<tables, frozen>>
         /\ TxTypeOK' /\ KeySharesAreOfConnections'
         /\ tx'[t] = [op |-> op, next |-> next, target |-> row.id, user |-> u, todo |-> {}]
         /\ Holds(t, row, "update")'
         /\ \A l \in locks' : l.holder = t => l.row = row
         /\ \A s \in Transactions \ {t} : tx'[s] = tx[s] /\ OwnLocksKept(s)
<1> DEFINE call == [op |-> op, next |-> next, target |-> row.id, user |-> u, todo |-> {}]
<1>0. TxTypeOK /\ TypeOK /\ KeySharesAreOfConnections
  BY DEF TxIInv, TxTypeOK
<1>1. /\ tx[t].op = "none"
      /\ Lock(t, row, "update")
      /\ tx' = [tx EXCEPT ![t] = call]
      /\ UNCHANGED <<tables, frozen>>
  BY DEF Start
<1>2. call \in Transaction
  BY DEF Transaction, Rows
<1>3. /\ tx' \in [Transactions -> Transaction]
      /\ tx'[t] = call
      /\ \A s \in Transactions \ {t} : tx'[s] = tx[s]
  BY <1>0, <1>1, <1>2 DEF TxTypeOK
<1>4. tx'[t].op # "none"
  BY <1>3
<1>5. TypeOK'
  BY <1>0, <1>1 DEF TypeOK, tables, frozen
<1>6. /\ TxTypeOK'
      /\ Holds(t, row, "update")'
      /\ \A s : s # t => OwnLocksKept(s)
  BY <1>0, <1>1, <1>3, <1>4, <1>5, LockEffect
<1>7. \A l \in locks' : l.holder = t => l.row = row
  BY <1>0, <1>1 DEF TxTypeOK, Lock
<1>8. KeySharesAreOfConnections'
  BY <1>0, <1>1 DEF KeySharesAreOfConnections, Lock
<1> QED
  BY <1>1, <1>3, <1>6, <1>7, <1>8

LEMMA RowIsRow ==
  /\ \A a \in AuthorizationIds : Row("authorization", a) \in Rows
  /\ \A c \in ConnectionIds : Row("connection", c) \in Rows
  /\ \A k \in CredentialIds : Row("credential", k) \in Rows
  /\ \A table, id : Row(table, id).table = table /\ Row(table, id).id = id
  BY DEF Row, Rows

LEMMA AuthorizationStart ==
  ASSUME TxIInv, NEW t \in Transactions, NEW a \in AuthorizationIds,
         \/ \E u \in Users : LookupLock(t, a, u)
         \/ \E u \in Users, d \in {"approve", "deny"} : DecideLock(t, a, u, d)
         \/ CompleteLock(t, a)
         \/ ExchangeLock(t, a)
  PROVE  UNCHANGED vars /\ TxIInv'
<1> DEFINE row == Row("authorization", a)
<1>1. PICK op \in AuthorizationOps, next \in {"insert", "commit"}, u \in Users \cup {None} :
        /\ Start(t, op, next, row, u)
        /\ next = (IF op = "exchange" THEN "insert" ELSE "commit")
        /\ op \in {"lookup", "approve", "deny"} => u \in Users /\ Pending(a, u)
        /\ op = "lookup" => authorizations[a].flow = "device"
        /\ op = "complete" =>
             /\ authorizations[a].flow = "browser"
             /\ authorizations[a].status = "approved" /\ ~authorizations[a].code
        /\ op = "exchange" =>
             /\ authorizations[a].status = "approved"
             /\ authorizations[a].code \/ authorizations[a].deviceCode
  BY DEF LookupLock, DecideLock, CompleteLock, ExchangeLock, AuthorizationOps
<1>2. row \in Rows /\ row.id = a
  BY RowIsRow
<1>3. op \in Operations \ {"none"}
  BY DEF AuthorizationOps, Operations
<1>4. /\ UNCHANGED <<tables, frozen>>
      /\ TxTypeOK' /\ KeySharesAreOfConnections'
      /\ tx'[t] = [op |-> op, next |-> next, target |-> a, user |-> u, todo |-> {}]
      /\ Holds(t, row, "update")'
      /\ \A s \in Transactions \ {t} : tx'[s] = tx[s] /\ OwnLocksKept(s)
  BY <1>1, <1>2, <1>3, StartEffect
<1>5. UNCHANGED authorizations /\ UNCHANGED now
  BY <1>4 DEF tables, frozen
<1>6. ReadsStand(t)'
  BY <1>1, <1>4, <1>5 DEF ReadsStand, Pending, AuthorizationOps
<1>7. TokenReadsStand(t)' /\ RevocationCovers(t)'
  BY <1>4 DEF TokenReadsStand, RevocationCovers, AuthorizationOps, Revocations
<1> QED
  BY <1>4, <1>6, <1>7, QuietStep DEF TransactionOK

LEMMA TokenStart ==
  ASSUME TxIInv, NEW t \in Transactions, NEW k \in CredentialIds,
         RefreshLock(t, k) \/ RevokeTokenLock(t, k)
  PROVE  UNCHANGED vars /\ TxIInv'
<1> DEFINE row == Row("credential", k)
<1>0. TypeOK
  BY DEF TxIInv, IInv
<1>1. PICK op \in {"refresh", "reuse", "revokeToken"} :
        /\ Start(t, op, "connection", row, None)
        /\ Issued(k)
        /\ op = "refresh" =>
             /\ credentials[k].kind = "refresh"
             /\ ~credentials[k].used /\ ~credentials[k].revoked
        /\ op = "reuse" =>
             credentials[k].kind = "refresh" /\ (credentials[k].used \/ credentials[k].revoked)
  BY DEF RefreshLock, RevokeTokenLock, Issued
<1>2. row \in Rows /\ row.id = k
  BY RowIsRow
<1>3. op \in Operations \ {"none"}
  BY DEF Operations
<1>4. /\ UNCHANGED <<tables, frozen>>
      /\ TxTypeOK' /\ KeySharesAreOfConnections'
      /\ tx'[t] = [op |-> op, next |-> "connection", target |-> k, user |-> None, todo |-> {}]
      /\ Holds(t, row, "update")'
      /\ \A l \in locks' : l.holder = t => l.row = row
      /\ \A s \in Transactions \ {t} : tx'[s] = tx[s] /\ OwnLocksKept(s)
  BY <1>1, <1>2, <1>3, StartEffect
<1>5. UNCHANGED credentials
  BY <1>4 DEF tables
<1>6. ReadsStand(t)'
  BY <1>4 DEF ReadsStand, AuthorizationOps
<1>7. TokenReadsStand(t)'
  BY <1>1, <1>4, <1>5 DEF TokenReadsStand, Issued
<1>8. RevocationCovers(t)'
  <2>1. LockedCredentials(t)' \subseteq {k}
    BY <1>4 DEF LockedCredentials, Row
  <2>2. op \in Revocations => k \in RevocationScope(t)'
    BY <1>1, <1>4, <1>5 DEF RevocationScope, FamilyMembers, CredentialsOf, ConnectionOf, Issued, Revocations
  <2> QED
    BY <1>4, <2>1, <2>2 DEF RevocationCovers
<1> QED
  BY <1>4, <1>6, <1>7, <1>8, QuietStep DEF TransactionOK

LEMMA ConnectionStart ==
  ASSUME TxIInv, NEW t \in Transactions, NEW c \in ConnectionIds, NEW u \in Users,
         RevokeConnectionLock(t, c, u)
  PROVE  UNCHANGED vars /\ TxIInv'
<1> DEFINE row == Row("connection", c)
<1>1. /\ Start(t, "revokeConnection", "select", row, u)
      /\ connections[c].status # "none"
      /\ connections[c].user = u
  BY DEF RevokeConnectionLock
<1>2. row \in Rows /\ row.id = c
  BY RowIsRow
<1>3. /\ UNCHANGED <<tables, frozen>>
      /\ TxTypeOK' /\ KeySharesAreOfConnections'
      /\ tx'[t] = [op |-> "revokeConnection", next |-> "select", target |-> c, user |-> u, todo |-> {}]
      /\ Holds(t, row, "update")'
      /\ \A l \in locks' : l.holder = t => l.row = row
      /\ \A s \in Transactions \ {t} : tx'[s] = tx[s] /\ OwnLocksKept(s)
  BY <1>1, <1>2, StartEffect DEF Operations
<1>4. UNCHANGED connections
  BY <1>3 DEF tables
<1>5. ReadsStand(t)'
  BY <1>3 DEF ReadsStand, AuthorizationOps
<1>6. TokenReadsStand(t)'
  BY <1>1, <1>3, <1>4 DEF TokenReadsStand
<1>7. RevocationCovers(t)'
  <2>1. LockedCredentials(t)' = {}
    BY <1>3 DEF LockedCredentials, Row
  <2> QED
    BY <1>3, <2>1 DEF RevocationCovers
<1> QED
  BY <1>3, <1>5, <1>6, <1>7, QuietStep DEF TransactionOK

-----------------------------------------------------------------------------
LEMMA ConnectionOfOp ==
  ASSUME TxIInv, NEW t \in Transactions, tx[t].op \in {"exchange", "refresh"} \cup Revocations
  PROVE  ConnectionOf(t) \in ConnectionIds
<1>0. TypeOK /\ ApprovalCreatesConnection /\ ReadsStand(t) /\ TokenReadsStand(t)
  BY DEF TxIInv, IInv
<1>1. CASE tx[t].op = "exchange"
  <2>1. /\ tx[t].target \in AuthorizationIds
        /\ authorizations[tx[t].target].status = "approved"
    BY <1>0, <1>1 DEF ReadsStand, AuthorizationOps
  <2>2. /\ authorizations[tx[t].target].connection # NoConnection
        /\ authorizations[tx[t].target] \in Authorization
    BY <1>0, <2>1 DEF ApprovalCreatesConnection, TypeOK
  <2> QED
    BY <1>1, <2>2 DEF ConnectionOf, Authorization
<1>2. CASE tx[t].op \in {"refresh", "reuse", "revokeToken"}
  BY <1>0, <1>2, IssuedConnection DEF ConnectionOf, TokenReadsStand, TxIInv
<1>3. CASE tx[t].op = "revokeConnection"
  BY <1>0, <1>3 DEF ConnectionOf, TokenReadsStand
<1> QED
  BY <1>1, <1>2, <1>3 DEF Revocations

\* A statement that takes one more lock.
LEMMA NextLock ==
  ASSUME TxIInv, NEW t \in Transactions, tx[t].op # "none",
         NEW row \in Rows, NEW mode \in {"update", "keyShare"},
         mode = "keyShare" => row.table = "connection",
         NEW next \in {"connection", "insert", "select", "update", "commit"},
         NEW todo \in SUBSET CredentialIds,
         Lock(t, row, mode),
         tx' = [tx EXCEPT ![t].next = next, ![t].todo = todo],
         UNCHANGED <<tables, frozen>>
  PROVE  /\ TxTypeOK' /\ KeySharesAreOfConnections'
         /\ tx'[t].op = tx[t].op /\ tx'[t].target = tx[t].target /\ tx'[t].user = tx[t].user
         /\ tx'[t].next = next /\ tx'[t].todo = todo
         /\ Holds(t, row, mode)'
         /\ \A r, m : Holds(t, r, m) => Holds(t, r, m)'
         /\ locks' = locks \cup {[holder |-> t, row |-> row, mode |-> mode]}
         /\ \A s \in Transactions \ {t} : tx'[s] = tx[s] /\ OwnLocksKept(s)
<1>0. TxTypeOK /\ TypeOK /\ KeySharesAreOfConnections
  BY DEF TxIInv, TxTypeOK
<1>1. /\ tx' \in [Transactions -> Transaction]
      /\ tx'[t].op = tx[t].op /\ tx'[t].target = tx[t].target /\ tx'[t].user = tx[t].user
      /\ tx'[t].next = next /\ tx'[t].todo = todo
      /\ \A s \in Transactions \ {t} : tx'[s] = tx[s]
  BY <1>0 DEF TxTypeOK, Transaction
<1>2. tx'[t].op # "none"
  BY <1>1
<1>3. TypeOK'
  BY <1>0 DEF TypeOK, tables, frozen
<1>4. /\ TxTypeOK'
      /\ Holds(t, row, mode)'
      /\ \A r, m : Holds(t, r, m) => Holds(t, r, m)'
      /\ \A s : s # t => OwnLocksKept(s)
  BY <1>0, <1>1, <1>2, <1>3, LockEffect
<1>5. locks' = locks \cup {[holder |-> t, row |-> row, mode |-> mode]}
  BY DEF Lock
<1>6. KeySharesAreOfConnections'
  BY <1>0, <1>5 DEF KeySharesAreOfConnections
<1> QED
  BY <1>1, <1>4, <1>5, <1>6

\* A statement that takes no lock.
LEMMA NoLock ==
  ASSUME TxIInv, NEW t \in Transactions, tx[t].op # "none",
         NEW next \in {"connection", "insert", "select", "update", "commit"},
         NEW todo \in SUBSET CredentialIds,
         tx' = [tx EXCEPT ![t].next = next, ![t].todo = todo],
         UNCHANGED <<tables, frozen, locks>>
  PROVE  /\ TxTypeOK' /\ KeySharesAreOfConnections'
         /\ tx'[t].op = tx[t].op /\ tx'[t].target = tx[t].target /\ tx'[t].user = tx[t].user
         /\ tx'[t].next = next /\ tx'[t].todo = todo
         /\ \A s \in Transactions \ {t} : tx'[s] = tx[s] /\ OwnLocksKept(s)
<1>0. TxTypeOK /\ TypeOK /\ KeySharesAreOfConnections
  BY DEF TxIInv, TxTypeOK
<1>1. /\ tx' \in [Transactions -> Transaction]
      /\ tx'[t].op = tx[t].op /\ tx'[t].target = tx[t].target /\ tx'[t].user = tx[t].user
      /\ tx'[t].next = next /\ tx'[t].todo = todo
      /\ \A s \in Transactions \ {t} : tx'[s] = tx[s]
  BY <1>0 DEF TxTypeOK, Transaction
<1>2. \A s \in Transactions : tx'[s].op = tx[s].op
  BY <1>1
<1>3. TypeOK'
  BY <1>0 DEF TypeOK, tables, frozen
<1>4. \A l \in locks' : /\ tx'[l.holder].op # "none"
                        /\ Blockers(l.holder, l.row, l.mode)' = {}
  BY <1>0, <1>2 DEF TxTypeOK, Blockers, Conflict
<1>5. TxTypeOK'
  BY <1>0, <1>1, <1>3, <1>4 DEF TxTypeOK, Rows
<1>6. KeySharesAreOfConnections' /\ \A s : OwnLocksKept(s)
  BY <1>0 DEF KeySharesAreOfConnections, OwnLocksKept
<1> QED
  BY <1>1, <1>5, <1>6

LEMMA ProceedIs ==
  ASSUME TxTypeOK, NEW t \in Transactions, NEW next, Proceed(t, next)
  PROVE  tx' = [tx EXCEPT ![t].next = next, ![t].todo = tx[t].todo]
  BY DEF Proceed, TxTypeOK, Transaction

LEMMA ExchangeInsertStep ==
  ASSUME TxIInv, NEW t \in Transactions, ExchangeInsert(t)
  PROVE  UNCHANGED vars /\ TxIInv'
<1>0. TxTypeOK /\ TypeOK /\ ReadsStand(t) /\ tx[t] \in Transaction
  BY DEF TxIInv, TxTypeOK
<1>2. PICK c \in ConnectionIds : c = authorizations[tx[t].target].connection
  BY ConnectionOfOp DEF ConnectionOf, ExchangeInsert
<1> DEFINE row == Row("connection", c)
<1>1. /\ tx[t].op = "exchange"
      /\ Lock(t, row, "keyShare")
      /\ UNCHANGED <<tables, frozen>>
      /\ tx' = [tx EXCEPT ![t].next = "commit", ![t].todo = tx[t].todo]
  BY <1>0, <1>2, ProceedIs DEF ExchangeInsert
<1>3. row \in Rows /\ row.table = "connection"
  BY RowIsRow
<1>4. /\ tx[t].todo \in SUBSET CredentialIds
      /\ tx[t].op # "none"
      /\ Lock(t, row, "keyShare")
      /\ tx' = [tx EXCEPT ![t].next = "commit", ![t].todo = tx[t].todo]
      /\ UNCHANGED <<tables, frozen>>
  BY <1>0, <1>1 DEF Transaction
<1> HIDE DEF row
<1>5. /\ TxTypeOK' /\ KeySharesAreOfConnections'
      /\ tx'[t].op = tx[t].op /\ tx'[t].target = tx[t].target /\ tx'[t].user = tx[t].user
      /\ tx'[t].next = "commit"
      /\ Holds(t, row, "keyShare")'
      /\ \A r, m : Holds(t, r, m) => Holds(t, r, m)'
      /\ \A s \in Transactions \ {t} : tx'[s] = tx[s] /\ OwnLocksKept(s)
  BY <1>3, <1>4, NextLock
<1>6. UNCHANGED authorizations
  BY <1>1 DEF tables
<1>7. ReadsStand(t)'
  BY <1>0, <1>1, <1>2, <1>5, <1>6 DEF ReadsStand, AuthorizationOps, row
<1>8. TokenReadsStand(t)' /\ RevocationCovers(t)'
  BY <1>1, <1>5 DEF TokenReadsStand, RevocationCovers, Revocations
<1> QED
  BY <1>1, <1>5, <1>7, <1>8, QuietStep DEF TransactionOK

LEMMA LockConnectionStep ==
  ASSUME TxIInv, NEW t \in Transactions, LockConnection(t)
  PROVE  UNCHANGED vars /\ TxIInv'
<1> DEFINE k == tx[t].target
<1>0. TxTypeOK /\ TypeOK /\ TokenReadsStand(t) /\ RevocationCovers(t) /\ tx[t] \in Transaction
  BY DEF TxIInv, TxTypeOK
<1>2. PICK c \in ConnectionIds : c = ConnectionOf(t) /\ c = credentials[k].connection
  <2>1. tx[t].op \in {"refresh", "reuse", "revokeToken"}
    BY DEF LockConnection
  <2> QED
    BY <2>1, ConnectionOfOp DEF ConnectionOf, Revocations
<1> DEFINE row == Row("connection", c)
<1>1. PICK next \in {"select", "commit"} :
        /\ tx[t].op \in {"refresh", "reuse", "revokeToken"}
        /\ tx[t].op = "refresh" =>
             next = "commit" /\ connections[ConnectionOf(t)].status = "active"
        /\ tx[t].op # "refresh" => next = "select"
        /\ Lock(t, row, "update")
        /\ UNCHANGED <<tables, frozen>>
        /\ tx' = [tx EXCEPT ![t].next = next, ![t].todo = tx[t].todo]
  BY <1>0, <1>2, ProceedIs DEF LockConnection
<1>3. row \in Rows /\ row.table = "connection"
  BY RowIsRow
<1>4. /\ tx[t].todo \in SUBSET CredentialIds
      /\ tx[t].op # "none"
      /\ Lock(t, row, "update")
      /\ tx' = [tx EXCEPT ![t].next = next, ![t].todo = tx[t].todo]
      /\ UNCHANGED <<tables, frozen>>
  BY <1>0, <1>1 DEF Transaction
<1> HIDE DEF row
<1>5. /\ TxTypeOK' /\ KeySharesAreOfConnections'
      /\ tx'[t].op = tx[t].op /\ tx'[t].target = tx[t].target /\ tx'[t].user = tx[t].user
      /\ tx'[t].next = next
      /\ Holds(t, row, "update")'
      /\ \A r, m : Holds(t, r, m) => Holds(t, r, m)'
      /\ locks' = locks \cup {[holder |-> t, row |-> row, mode |-> "update"]}
      /\ \A s \in Transactions \ {t} : tx'[s] = tx[s] /\ OwnLocksKept(s)
  BY <1>3, <1>4, NextLock
<1>6. UNCHANGED <<authorizations, credentials, connections>>
  BY <1>1 DEF tables
<1>7. ReadsStand(t)'
  BY <1>1, <1>5 DEF ReadsStand, AuthorizationOps
<1>8. TokenReadsStand(t)'
  <2>1. Holds(t, Row("connection", credentials[k].connection), "update")'
    BY <1>2, <1>5, <1>6 DEF row
  <2>2. /\ k \in CredentialIds /\ Issued(k)
        /\ Holds(t, Row("credential", k), "update")'
    BY <1>0, <1>1, <1>5, <1>6 DEF TokenReadsStand
  <2> QED
    BY <1>0, <1>1, <1>2, <1>5, <1>6, <2>1, <2>2 DEF TokenReadsStand, Issued
<1>9. RevocationCovers(t)'
  <2>1. LockedCredentials(t)' = LockedCredentials(t)
    BY <1>5 DEF LockedCredentials, Row, row
  <2>2. RevocationScope(t)' = RevocationScope(t)
    BY <1>5, <1>6 DEF RevocationScope, FamilyMembers, CredentialsOf, ConnectionOf, Issued
  <2> QED
    BY <1>0, <1>1, <1>5, <2>1, <2>2 DEF RevocationCovers, Revocations
<1> QED
  BY <1>1, <1>5, <1>7, <1>8, <1>9, QuietStep DEF TransactionOK

\* What a revocation has read stands while it selects and locks the tokens.
LEMMA RevocationReads ==
  ASSUME TxIInv, NEW t \in Transactions, tx[t].op \in Revocations, tx[t].next # "connection",
         tx'[t].op = tx[t].op, tx'[t].target = tx[t].target, tx'[t].user = tx[t].user,
         tx'[t].next # "connection",
         UNCHANGED <<tables, frozen>>,
         \A r, m : Holds(t, r, m) => Holds(t, r, m)'
  PROVE  /\ ReadsStand(t)' /\ TokenReadsStand(t)'
         /\ RevocationScope(t)' = RevocationScope(t)
         /\ UNCHANGED credentials
<1>1. TokenReadsStand(t)
  BY DEF TxIInv
<1>2. UNCHANGED <<authorizations, credentials, connections>>
  BY DEF tables
<1>3. RevocationScope(t)' = RevocationScope(t)
  BY <1>2 DEF RevocationScope, FamilyMembers, CredentialsOf, ConnectionOf, Issued
<1>4. ReadsStand(t)'
  BY DEF ReadsStand, AuthorizationOps, Revocations
<1>5. TokenReadsStand(t)'
  BY <1>1, <1>2 DEF TokenReadsStand, Issued, Revocations
<1> QED
  BY <1>2, <1>3, <1>4, <1>5

\* Only a revocation selects and updates tokens.
LEMMA SelectingIsRevoking ==
  ASSUME TxIInv, NEW t \in Transactions, tx[t].next \in {"select", "update"}
  PROVE  tx[t].op \in Revocations
<1>1. ReadsStand(t) /\ TokenReadsStand(t) /\ tx[t] \in Transaction
  BY DEF TxIInv, TxTypeOK
<1> QED
  BY <1>1 DEF ReadsStand, TokenReadsStand, Transaction, Operations, Revocations

LEMMA SelectCredentialsStep ==
  ASSUME TxIInv, NEW t \in Transactions, SelectCredentials(t)
  PROVE  UNCHANGED vars /\ TxIInv'
<1> DEFINE todo == {k \in RevocationScope(t) : ~credentials[k].revoked}
<1>0. TxTypeOK /\ TypeOK /\ RevocationCovers(t) /\ tx[t].op \in Revocations
  BY SelectingIsRevoking DEF TxIInv, TxTypeOK, SelectCredentials
<1>1. /\ tx[t].next = "select"
      /\ UNCHANGED <<tables, frozen, locks>>
      /\ tx' = [tx EXCEPT ![t].next = "update", ![t].todo = todo]
  BY DEF SelectCredentials
<1>2. todo \in SUBSET CredentialIds /\ tx[t].op # "none"
  BY <1>0 DEF RevocationScope, FamilyMembers, CredentialsOf, Revocations
<1> HIDE DEF todo
<1>3. /\ TxTypeOK' /\ KeySharesAreOfConnections'
      /\ tx'[t].op = tx[t].op /\ tx'[t].target = tx[t].target /\ tx'[t].user = tx[t].user
      /\ tx'[t].next = "update" /\ tx'[t].todo = todo
      /\ \A s \in Transactions \ {t} : tx'[s] = tx[s] /\ OwnLocksKept(s)
  BY <1>1, <1>2, NoLock
<1>4. \A r, m : Holds(t, r, m) => Holds(t, r, m)'
  BY <1>1 DEF Holds
<1>5. UNCHANGED <<tables, frozen>>
  BY <1>1
<1>6. /\ ReadsStand(t)' /\ TokenReadsStand(t)'
      /\ RevocationScope(t)' = RevocationScope(t)
      /\ UNCHANGED credentials
  BY <1>0, <1>1, <1>3, <1>4, <1>5, RevocationReads
<1>7. LockedCredentials(t)' = LockedCredentials(t)
  BY <1>1 DEF LockedCredentials
<1>8. RevocationCovers(t)'
  BY <1>0, <1>3, <1>6, <1>7 DEF RevocationCovers, todo
<1> QED
  BY <1>3, <1>5, <1>6, <1>8, QuietStep DEF TransactionOK

LEMMA LockCredentialStep ==
  ASSUME TxIInv, NEW t \in Transactions, NEW k \in CredentialIds, LockCredential(t, k)
  PROVE  UNCHANGED vars /\ TxIInv'
<1> DEFINE row == Row("credential", k)
<1>0. /\ TxTypeOK /\ TypeOK /\ RevocationCovers(t) /\ tx[t].op \in Revocations
      /\ tx[t] \in Transaction
  BY SelectingIsRevoking DEF TxIInv, TxTypeOK, LockCredential
<1>1. PICK next \in {"update", "commit"} :
        /\ tx[t].next = "update" /\ k \in tx[t].todo
        /\ Lock(t, row, "update")
        /\ UNCHANGED <<tables, frozen>>
        /\ next = "commit" => tx[t].todo = {k}
        /\ tx' = [tx EXCEPT ![t].next = next, ![t].todo = tx[t].todo \ {k}]
  <2> DEFINE next == IF tx[t].todo = {k} THEN "commit" ELSE "update"
  <2>1. tx' = [tx EXCEPT ![t].next = next, ![t].todo = tx[t].todo \ {k}]
    BY <1>0 DEF LockCredential, TxTypeOK, Transaction
  <2>2. next \in {"update", "commit"} /\ (next = "commit" => tx[t].todo = {k})
    OBVIOUS
  <2> HIDE DEF next
  <2> QED
    BY <2>1, <2>2 DEF LockCredential
<1>2. /\ row \in Rows
      /\ tx[t].todo \ {k} \in SUBSET CredentialIds
      /\ tx[t].op # "none"
  BY <1>0, RowIsRow DEF Transaction, Revocations
<1> HIDE DEF row
<1> DEFINE todo == tx[t].todo \ {k}
<1>20. /\ row \in Rows
       /\ todo \in SUBSET CredentialIds
       /\ tx[t].op # "none"
       /\ next \in {"connection", "insert", "select", "update", "commit"}
       /\ Lock(t, row, "update")
       /\ tx' = [tx EXCEPT ![t].next = next, ![t].todo = todo]
       /\ UNCHANGED <<tables, frozen>>
  BY <1>1, <1>2
<1> HIDE DEF todo
<1>3. /\ TxTypeOK' /\ KeySharesAreOfConnections'
      /\ tx'[t].op = tx[t].op /\ tx'[t].target = tx[t].target /\ tx'[t].user = tx[t].user
      /\ tx'[t].next = next /\ tx'[t].todo = todo
      /\ \A r, m : Holds(t, r, m) => Holds(t, r, m)'
      /\ locks' = locks \cup {[holder |-> t, row |-> row, mode |-> "update"]}
      /\ \A s \in Transactions \ {t} : tx'[s] = tx[s] /\ OwnLocksKept(s)
  BY <1>20, NextLock
<1>4. /\ ReadsStand(t)' /\ TokenReadsStand(t)'
      /\ RevocationScope(t)' = RevocationScope(t)
      /\ UNCHANGED credentials
  BY <1>0, <1>1, <1>3, RevocationReads
<1>5. LockedCredentials(t)' = LockedCredentials(t) \cup {k}
  <2>1. \A j : Row("credential", j) = row <=> j = k
    BY DEF Row, row
  <2>2. ASSUME NEW j \in CredentialIds
        PROVE  (\E l \in locks' : l.holder = t /\ l.row = Row("credential", j)) <=>
                 (\E l \in locks : l.holder = t /\ l.row = Row("credential", j)) \/ j = k
    <3> DEFINE new == [holder |-> t, row |-> row, mode |-> "update"]
    <3>1. new.holder = t /\ new.row = row
      OBVIOUS
    <3> HIDE DEF new
    <3>2. locks' = locks \cup {new}
      BY <1>3 DEF new
    <3> QED
      BY <2>1, <3>1, <3>2
  <2> QED
    BY <2>2 DEF LockedCredentials
<1>6. RevocationCovers(t)'
  BY <1>0, <1>1, <1>3, <1>4, <1>5 DEF RevocationCovers, todo
<1> QED
  BY <1>1, <1>3, <1>4, <1>6, QuietStep DEF TransactionOK

LEMMA NothingSelectedStep ==
  ASSUME TxIInv, NEW t \in Transactions, NothingSelected(t)
  PROVE  UNCHANGED vars /\ TxIInv'
<1>0. /\ TxTypeOK /\ TypeOK /\ RevocationCovers(t) /\ tx[t].op \in Revocations
      /\ tx[t] \in Transaction
  BY SelectingIsRevoking DEF TxIInv, TxTypeOK, NothingSelected
<1>1. /\ tx[t].next = "update" /\ tx[t].todo = {}
      /\ UNCHANGED <<tables, frozen, locks>>
      /\ tx' = [tx EXCEPT ![t].next = "commit", ![t].todo = tx[t].todo]
  BY <1>0, ProceedIs DEF NothingSelected
<1>2. tx[t].todo \in SUBSET CredentialIds /\ tx[t].op # "none"
  BY <1>0 DEF Transaction, Revocations
<1>3. /\ TxTypeOK' /\ KeySharesAreOfConnections'
      /\ tx'[t].op = tx[t].op /\ tx'[t].target = tx[t].target /\ tx'[t].user = tx[t].user
      /\ tx'[t].next = "commit" /\ tx'[t].todo = tx[t].todo
      /\ \A s \in Transactions \ {t} : tx'[s] = tx[s] /\ OwnLocksKept(s)
  BY <1>1, <1>2, NoLock
<1>4. \A r, m : Holds(t, r, m) => Holds(t, r, m)'
  BY <1>1 DEF Holds
<1>5. UNCHANGED <<tables, frozen>>
  BY <1>1
<1>6. /\ ReadsStand(t)' /\ TokenReadsStand(t)'
      /\ RevocationScope(t)' = RevocationScope(t)
      /\ UNCHANGED credentials
  BY <1>0, <1>1, <1>3, <1>4, <1>5, RevocationReads
<1>7. LockedCredentials(t)' = LockedCredentials(t)
  BY <1>1 DEF LockedCredentials
<1>8. RevocationCovers(t)'
  BY <1>0, <1>1, <1>3, <1>6, <1>7 DEF RevocationCovers
<1> QED
  BY <1>3, <1>5, <1>6, <1>8, QuietStep DEF TransactionOK

-----------------------------------------------------------------------------
\* A commit writes rows that its transaction holds FOR UPDATE, and inserts new
\* ones; a new token is one of a connection that the transaction holds.
WritesOwnRows(t) ==
  /\ \A a \in AuthorizationIds :
       \/ authorizations'[a] = authorizations[a]
       \/ Holds(t, Row("authorization", a), "update")
  /\ \A c \in ConnectionIds :
       \/ connections'[c] = connections[c]
       \/ connections[c].status = "none"
       \/ Holds(t, Row("connection", c), "update")
  /\ \A k \in CredentialIds :
       \/ credentials'[k] = credentials[k]
       \/ Issued(k) /\ Holds(t, Row("credential", k), "update")
       \/ ~Issued(k) /\ \E mode : Holds(t, Row("connection", credentials'[k].connection), mode)

LEMMA OwnRowsOnly ==
  ASSUME TxTypeOK, NEW t, WritesOwnRows(t), NEW s, s # t
  PROVE  LockedRowsKept(s)
<1>1. \A row, mode : Holds(t, row, mode) => ~Holds(s, row, "update")
  BY Conflicts
<1>2. \A a \in AuthorizationIds :
        Holds(s, Row("authorization", a), "update") => authorizations'[a] = authorizations[a]
  BY <1>1 DEF WritesOwnRows
<1>3. \A c \in ConnectionIds :
        connections[c].status # "none" /\ Holds(s, Row("connection", c), "update") =>
          connections'[c] = connections[c]
  BY <1>1 DEF WritesOwnRows
<1>4. \A k \in CredentialIds :
        Issued(k) /\ Holds(s, Row("credential", k), "update") => credentials'[k] = credentials[k]
  BY <1>1 DEF WritesOwnRows
<1>5. \A k \in CredentialIds :
        Issued(k)' /\ ~Issued(k) => ~Holds(s, Row("connection", credentials'[k].connection), "update")
  BY <1>1 DEF WritesOwnRows, Issued
<1> QED
  BY <1>2, <1>3, <1>4, <1>5 DEF LockedRowsKept

LEMMA CommitStep ==
  ASSUME TxIInv, [Next]_vars, NEW t \in Transactions, End(t), UNCHANGED frozen,
         NothingExpires', WritesOwnRows(t)
  PROVE  TxIInv'
<1>1. TxTypeOK /\ KeySharesAreOfConnections
  BY DEF TxIInv
<1>2. TypeOK'
  BY NextIInv DEF TxIInv, IInv
<1>3. /\ TxTypeOK'
      /\ locks' \subseteq locks
      /\ tx'[t].op = "none" /\ tx'[t].next = "none"
      /\ \A s \in Transactions \ {t} : tx'[s] = tx[s] /\ OwnLocksKept(s)
  BY <1>1, <1>2, EndEffect
<1>4. KeySharesAreOfConnections'
  BY <1>1, <1>3 DEF KeySharesAreOfConnections
<1>5. \A s \in Transactions \ {t} : LockedRowsKept(s)
  BY <1>1, OwnRowsOnly
<1>6. now' = now
  BY DEF frozen
<1> QED
  BY <1>3, <1>4, <1>5, <1>6, EndedIsOK, TransactionStep

LEMMA DecisionCommits ==
  ASSUME TxIInv, NEW t \in Transactions,
         LookupCommit(t) \/ DenyCommit(t) \/ CompleteCommit(t)
  PROVE  [Next]_vars /\ TxIInv'
<1>0. TypeOK /\ TxTypeOK /\ ReadsStand(t) /\ NothingExpires
  BY DEF TxIInv, IInv
<1>1. PICK a : a = tx[t].target
  OBVIOUS
<1>2. PICK u : u = tx[t].user
  OBVIOUS
<1>3. /\ a \in AuthorizationIds
      /\ Holds(t, Row("authorization", a), "update")
      /\ tx[t].op \in {"lookup", "deny", "complete"}
      /\ End(t) /\ UNCHANGED frozen
      /\ UNCHANGED <<connections, credentials, audit, handler, enabled, now>>
  BY <1>0, <1>1 DEF LookupCommit, DenyCommit, CompleteCommit, Commit, ReadsStand, AuthorizationOps, frozen
<1>4. [Next]_vars
  <2>1. ASSUME LookupCommit(t)
        PROVE  u \in Users /\ AuthorizationForDeviceCode(a, u)
    BY <1>0, <1>1, <1>2, <1>3, <2>1
       DEF LookupCommit, Commit, ReadsStand, AuthorizationForDeviceCode, NothingExpires
  <2>2. ASSUME DenyCommit(t)
        PROVE  u \in Users /\ Deny(a, u)
    BY <1>0, <1>1, <1>2, <1>3, <2>2 DEF DenyCommit, Commit, ReadsStand, Deny, NothingExpires
  <2>3. ASSUME CompleteCommit(t)
        PROVE  CompleteBrowserAuthorization(a)
    BY <1>0, <1>1, <1>3, <2>3
       DEF CompleteCommit, Commit, ReadsStand, CompleteBrowserAuthorization, NothingExpires
  <2> QED
    BY <1>3, <2>1, <2>2, <2>3 DEF Next
<1>5. \A b \in AuthorizationIds \ {a} : authorizations'[b] = authorizations[b]
  BY <1>0, <1>1, <1>3 DEF LookupCommit, DenyCommit, CompleteCommit, TypeOK
<1>6. WritesOwnRows(t)
  BY <1>3, <1>5 DEF WritesOwnRows
<1>7. authorizations[a] \in Authorization
  BY <1>0, <1>3 DEF TypeOK
<1>8. /\ authorizations'[a].client = authorizations[a].client
      /\ authorizations'[a].expiresAt = authorizations[a].expiresAt
  BY <1>0, <1>1, <1>3, <1>7 DEF LookupCommit, DenyCommit, CompleteCommit, TypeOK, Authorization
<1>9. authorizations[a].status # "none"
  BY <1>0, <1>1, <1>3 DEF ReadsStand, Pending
<1>10. NothingExpires'
  BY <1>0, <1>3, <1>5, <1>8, <1>9 DEF NothingExpires, Issued
<1> QED
  BY <1>3, <1>4, <1>6, <1>10, CommitStep

LEMMA ApproveCommitStep ==
  ASSUME TxIInv, NEW t \in Transactions, NEW c \in ConnectionIds, ApproveCommit(t, c)
  PROVE  [Next]_vars /\ TxIInv'
<1>0. TypeOK /\ TxTypeOK /\ ReadsStand(t) /\ NothingExpires
  BY DEF TxIInv, IInv
<1>1. PICK a : a = tx[t].target
  OBVIOUS
<1>2. PICK u : u = tx[t].user
  OBVIOUS
<1>3. /\ a \in AuthorizationIds /\ u \in Users
      /\ Holds(t, Row("authorization", a), "update")
      /\ Pending(a, u) /\ enabled
      /\ FreshConnection(c)
      /\ End(t) /\ UNCHANGED frozen
      /\ UNCHANGED <<credentials, audit, handler, enabled, now>>
  BY <1>0, <1>1, <1>2
     DEF ApproveCommit, Commit, ReadsStand, AuthorizationOps, NothingExpires, frozen
<1>4. Approve(a, u, c)
  BY <1>1, <1>2, <1>3 DEF ApproveCommit, Approve
<1>5. [Next]_vars
  BY <1>3, <1>4 DEF Next
<1>6. /\ \A b \in AuthorizationIds \ {a} : authorizations'[b] = authorizations[b]
      /\ \A d \in ConnectionIds \ {c} : connections'[d] = connections[d]
      /\ connections[c].status = "none"
      /\ connections'[c].expiresAt = now + GrantLifetime
  BY <1>0, <1>3, <1>4 DEF Approve, FreshConnection, TypeOK
<1>7. WritesOwnRows(t)
  BY <1>3, <1>6 DEF WritesOwnRows
<1>8. authorizations[a] \in Authorization
  BY <1>0, <1>3 DEF TypeOK
<1>9. /\ authorizations'[a].client = authorizations[a].client
      /\ authorizations'[a].expiresAt = authorizations[a].expiresAt
      /\ authorizations[a].status # "none"
  BY <1>0, <1>3, <1>4, <1>8 DEF Approve, TypeOK, Authorization, Pending
<1>10. NothingExpires'
  BY <1>0, <1>3, <1>6, <1>9 DEF NothingExpires, Issued, TypeOK
<1> QED
  BY <1>3, <1>5, <1>7, <1>10, CommitStep

\* Tokens issued now are valid now.
LEMMA IssuedNow ==
  ASSUME TypeOK, NothingExpires, NEW rows, NEW k \in CredentialIds, NEW c, NEW family, NEW expiry,
         ~Issued(k),
         credentials'[k] = NewCredential("access", c, family, now + AccessLifetime),
         \A j \in CredentialIds \ {k} :
           \/ credentials'[j] = rows[j]
           \/ rows[j].kind = "none" /\ credentials'[j] = NewCredential("refresh", c, family, expiry),
         now < expiry,
         \A j \in CredentialIds : rows[j].kind = credentials[j].kind
                               /\ rows[j].expiresAt = credentials[j].expiresAt
  PROVE  /\ \A j \in CredentialIds : Issued(j)' => now < credentials'[j].expiresAt
         /\ \A j \in CredentialIds :
              credentials'[j] = rows[j] \/ (~Issued(j) /\ credentials'[j].connection = c)
<1>2. /\ credentials'[k].connection = c
      /\ credentials'[k].expiresAt = now + AccessLifetime
      /\ \A j \in CredentialIds \ {k} :
           \/ credentials'[j] = rows[j]
           \/ /\ ~Issued(j)
              /\ credentials'[j].connection = c
              /\ credentials'[j].expiresAt = expiry
  BY DEF NewCredential, Issued
<1>3. \A j \in CredentialIds : Issued(j)' => now < credentials'[j].expiresAt
  BY <1>2 DEF NothingExpires, Issued, TypeOK
<1>4. \A j \in CredentialIds \ {k} :
        credentials'[j] = rows[j] \/ (~Issued(j) /\ credentials'[j].connection = c)
  BY <1>2
<1>5. ~Issued(k) /\ credentials'[k].connection = c
  BY <1>2
<1> QED
  BY <1>3, <1>4, <1>5

LEMMA ExchangeCommitStep ==
  ASSUME TxIInv, NEW t \in Transactions, NEW k \in CredentialIds, ExchangeCommit(t, k)
  PROVE  [Next]_vars /\ TxIInv'
<1>0. TypeOK /\ TxTypeOK /\ ReadsStand(t) /\ NothingExpires
  BY DEF TxIInv, IInv
<1>1. PICK a : a = tx[t].target
  OBVIOUS
<1>2. /\ a \in AuthorizationIds /\ enabled
      /\ Holds(t, Row("authorization", a), "update")
      /\ Holds(t, Row("connection", authorizations[a].connection), "keyShare")
      /\ authorizations[a].status = "approved"
      /\ authorizations[a].code \/ authorizations[a].deviceCode
      /\ authorizations[a].client \in Clients /\ now < authorizations[a].expiresAt
      /\ End(t) /\ UNCHANGED frozen
      /\ UNCHANGED <<connections, audit, handler, enabled, now>>
  BY <1>0, <1>1 DEF ExchangeCommit, Commit, ReadsStand, AuthorizationOps, NothingExpires, frozen
<1>3. /\ authorizations' = [authorizations EXCEPT
           ![a].status = "consumed", ![a].code = FALSE, ![a].deviceCode = FALSE]
      /\ IssueTokens(credentials, k, authorizations[a].connection,
                     OfflineAccess \in authorizations[a].scopes, k, now + GrantLifetime)
  BY <1>1 DEF ExchangeCommit
<1>4. ConsumeAuthorization(a, k)
  BY <1>2, <1>3 DEF ConsumeAuthorization
<1>5. [Next]_vars
  BY <1>2, <1>4 DEF Next, ExchangeAuthorizationCode, ExchangeDeviceCode
<1>6. authorizations[a] \in Authorization
  BY <1>0, <1>2 DEF TypeOK
<1>7. /\ \A b \in AuthorizationIds \ {a} : authorizations'[b] = authorizations[b]
      /\ authorizations'[a].client = authorizations[a].client
      /\ authorizations'[a].expiresAt = authorizations[a].expiresAt
  BY <1>0, <1>2, <1>3, <1>6 DEF TypeOK, Authorization
<1>8. now < now + GrantLifetime
  BY <1>0 DEF TypeOK
<1>9. /\ \A j \in CredentialIds : Issued(j)' => now < credentials'[j].expiresAt
      /\ \A j \in CredentialIds :
           \/ credentials'[j] = credentials[j]
           \/ ~Issued(j) /\ credentials'[j].connection = authorizations[a].connection
  <2> DEFINE c == authorizations[a].connection
             expiry == now + GrantLifetime
  <2>1. /\ ~Issued(k)
        /\ credentials'[k] = NewCredential("access", c, k, now + AccessLifetime)
        /\ \A j \in CredentialIds \ {k} :
             \/ credentials'[j] = credentials[j]
             \/ credentials[j].kind = "none" /\ credentials'[j] = NewCredential("refresh", c, k, expiry)
    BY <1>3, IssueTokensEffect
  <2> HIDE DEF c
  <2>2. \A j \in CredentialIds :
          credentials'[j] = credentials[j] \/ (~Issued(j) /\ credentials'[j].connection = c)
    BY <1>0, <1>8, <2>1, IssuedNow
  <2>3. \A j \in CredentialIds : Issued(j)' => now < credentials'[j].expiresAt
    BY <1>0, <1>8, <2>1, IssuedNow
  <2> QED
    BY <2>2, <2>3 DEF c
<1>10. WritesOwnRows(t)
  BY <1>2, <1>7, <1>9 DEF WritesOwnRows
<1>11. NothingExpires'
  BY <1>0, <1>2, <1>7, <1>9 DEF NothingExpires
<1> QED
  BY <1>2, <1>5, <1>10, <1>11, CommitStep

LEMMA RefreshCommitStep ==
  ASSUME TxIInv, NEW t \in Transactions, NEW k \in CredentialIds, RefreshCommit(t, k)
  PROVE  [Next]_vars /\ TxIInv'
<1>0. /\ TypeOK /\ TxTypeOK /\ TokenReadsStand(t) /\ NothingExpires
      /\ TokensComeFromExchange /\ ApprovalCreatesConnection
  BY DEF TxIInv, IInv
<1>1. PICK r : r = tx[t].target
  OBVIOUS
<1>2. PICK c : c = credentials[r].connection
  OBVIOUS
<1>3. tx[t].op = "refresh" /\ tx[t].next = "commit"
  BY DEF RefreshCommit, Commit
<1>4. /\ r \in CredentialIds /\ Issued(r) /\ enabled
      /\ credentials[r].kind = "refresh" /\ ~credentials[r].used /\ ~credentials[r].revoked
      /\ Holds(t, Row("credential", r), "update")
      /\ Holds(t, Row("connection", c), "update")
      /\ connections[c].status = "active"
      /\ now < credentials[r].expiresAt
  BY <1>0, <1>1, <1>2, <1>3 DEF TokenReadsStand, NothingExpires
<1>5. c \in ConnectionIds /\ now < connections[c].expiresAt
  BY <1>0, <1>2, <1>4, IssuedConnection DEF TxIInv, NothingExpires
<1>6. connections[c].client \in Clients
  <2>1. PICK a \in AuthorizationIds : authorizations[a].status = "consumed" /\ authorizations[a].connection = c
    BY <1>0, <1>2, <1>4 DEF TokensComeFromExchange
  <2>2. connections[c].client = authorizations[a].client
    BY <1>0, <2>1 DEF ApprovalCreatesConnection
  <2> QED
    BY <1>0, <2>1, <2>2 DEF NothingExpires
<1> DEFINE rows == [credentials EXCEPT ![r].used = TRUE]
<1>7. /\ End(t) /\ UNCHANGED frozen
      /\ IssueTokens(rows, k, c, TRUE, credentials[r].family, connections[c].expiresAt)
      /\ UNCHANGED <<authorizations, connections, audit, handler, enabled, now>>
  BY <1>1, <1>2, <1>3 DEF RefreshCommit, Commit, ConnectionOf, frozen
<1>8. Refresh(r, connections[c].client, k)
  BY <1>2, <1>4, <1>5, <1>7 DEF Refresh
<1>9. [Next]_vars
  BY <1>4, <1>6, <1>8 DEF Next
<1>10. credentials[r] \in Credential
  BY <1>0, <1>4 DEF TypeOK
<1>11. \A j \in CredentialIds : rows[j].kind = credentials[j].kind
                               /\ rows[j].expiresAt = credentials[j].expiresAt
  BY <1>0, <1>4, <1>10 DEF TypeOK, Credential
<1>12. \A j \in CredentialIds \ {r} : rows[j] = credentials[j]
  BY <1>0, <1>4 DEF TypeOK
<1> HIDE DEF rows
<1> DEFINE family == credentials[r].family
           expiry == connections[c].expiresAt
<1>13. IssueTokens(rows, k, c, TRUE, family, expiry) /\ now < expiry
  BY <1>5, <1>7
<1> HIDE DEF family, expiry
<1>14. /\ ~Issued(k)
       /\ credentials'[k] = NewCredential("access", c, family, now + AccessLifetime)
       /\ \A j \in CredentialIds \ {k} :
            \/ credentials'[j] = rows[j]
            \/ rows[j].kind = "none" /\ credentials'[j] = NewCredential("refresh", c, family, expiry)
  <2>1. IssueTokens(rows, k, c, TRUE, family, expiry) /\ k \in CredentialIds
    BY <1>13
  <2>2. ~Issued(k) /\ credentials'[k] = NewCredential("access", c, family, now + AccessLifetime)
    BY <2>1 DEF IssueTokens, FreshCredential
  <2>3. k + 1 \in CredentialIds /\ rows[k + 1].kind = "none"
    BY <2>1 DEF IssueTokens
  <2>4. ASSUME NEW j \in CredentialIds \ {k}, j # k + 1
        PROVE  credentials'[j] = rows[j]
    BY <2>1, <2>4 DEF IssueTokens
  <2>5. credentials'[k + 1] = NewCredential("refresh", c, family, expiry)
    BY <2>1, <2>3 DEF IssueTokens, CredentialIds
  <2> QED
    BY <2>2, <2>3, <2>4, <2>5
<1>15. /\ \A j \in CredentialIds : Issued(j)' => now < credentials'[j].expiresAt
       /\ \A j \in CredentialIds :
            credentials'[j] = rows[j] \/ (~Issued(j) /\ credentials'[j].connection = c)
  <2>1. TypeOK /\ NothingExpires
    BY <1>0
  <2>2. \A j \in CredentialIds : Issued(j)' => now < credentials'[j].expiresAt
    BY <2>1, <1>13, <1>14, <1>11, IssuedNow
  <2>3. \A j \in CredentialIds :
            credentials'[j] = rows[j] \/ (~Issued(j) /\ credentials'[j].connection = c)
    BY <2>1, <1>13, <1>14, <1>11, IssuedNow
  <2> QED
    BY <2>2, <2>3
<1>16. WritesOwnRows(t)
  BY <1>4, <1>7, <1>12, <1>15 DEF WritesOwnRows
<1>17. NothingExpires'
  BY <1>0, <1>7, <1>15 DEF NothingExpires
<1> QED
  BY <1>7, <1>9, <1>16, <1>17, CommitStep

\* Revoking the tokens that are locked revokes all tokens of the scope.
LEMMA RevokeTheScope ==
  ASSUME TypeOK, NEW S, NEW T, S \subseteq T, Revoke(S),
         \A k \in T \ S : k \in CredentialIds => credentials[k].revoked
  PROVE  Revoke(T)
<1>1. ASSUME NEW k \in CredentialIds, credentials[k].revoked
      PROVE  [credentials[k] EXCEPT !.revoked = TRUE] = credentials[k]
  <2>1. credentials[k] \in Credential
    BY DEF TypeOK
  <2> QED
    BY <1>1, <2>1 DEF Credential
<1>2. ASSUME NEW k \in CredentialIds
      PROVE  (IF k \in S THEN [credentials[k] EXCEPT !.revoked = TRUE] ELSE credentials[k]) =
             (IF k \in T THEN [credentials[k] EXCEPT !.revoked = TRUE] ELSE credentials[k])
  BY <1>1
<1> QED
  BY <1>2 DEF Revoke

LEMMA RevokeCommitStep ==
  ASSUME TxIInv, NEW t \in Transactions, RevokeCommit(t)
  PROVE  [Next]_vars /\ TxIInv'
<1>0. /\ TypeOK /\ TxTypeOK /\ TokenReadsStand(t) /\ RevocationCovers(t) /\ NothingExpires
      /\ KeySharesAreOfConnections
  BY DEF TxIInv, IInv
<1>1. PICK r : r = tx[t].target
  OBVIOUS
<1>2. PICK c : c = ConnectionOf(t)
  OBVIOUS
<1>3. /\ tx[t].op \in Revocations /\ tx[t].next = "commit"
      /\ End(t) /\ UNCHANGED frozen
      /\ audit' = audit \cup {[type |-> RevocationEvent(tx[t].op), connection |-> c]}
      /\ Revoke(LockedCredentials(t))
      /\ connections' = IF tx[t].op = "revokeConnection"
                        THEN [connections EXCEPT ![c].status = "revoked"] ELSE connections
      /\ UNCHANGED <<authorizations, handler, enabled, now>>
  BY <1>2 DEF RevokeCommit, Commit, Revocations, frozen
<1>4. /\ LockedCredentials(t) \subseteq RevocationScope(t)
      /\ \A k \in RevocationScope(t) \ LockedCredentials(t) : credentials[k].revoked
  BY <1>0, <1>3 DEF RevocationCovers
<1>5. Revoke(RevocationScope(t))
  BY <1>0, <1>3, <1>4, RevokeTheScope
<1>6. /\ tx[t].op # "revokeConnection" => r \in CredentialIds /\ Issued(r) /\ c = credentials[r].connection
      /\ tx[t].op = "revokeConnection" =>
           /\ r \in ConnectionIds /\ c = r
           /\ Holds(t, Row("connection", r), "update")
           /\ connections[r].status # "none"
           /\ tx[t].user \in Users /\ connections[r].user = tx[t].user
  BY <1>0, <1>1, <1>2, <1>3 DEF TokenReadsStand, ConnectionOf, Revocations
<1>7. [Next]_vars
  <2>1. ASSUME tx[t].op = "reuse" PROVE RefreshReuse(r)
    BY <1>0, <1>1, <1>3, <1>5, <1>6, <2>1
       DEF RefreshReuse, RevocationScope, RevocationEvent, TokenReadsStand, NothingExpires
  <2>2. ASSUME tx[t].op = "revokeToken" PROVE RevokeToken(r)
    BY <1>1, <1>2, <1>3, <1>5, <1>6, <2>2 DEF RevokeToken, RevocationScope, RevocationEvent
  <2>3. ASSUME tx[t].op = "revokeConnection" PROVE RevokeConnection(r, tx[t].user)
    BY <1>1, <1>2, <1>3, <1>5, <1>6, <2>3 DEF RevokeConnection, RevocationScope, RevocationEvent
  <2> QED
    BY <1>3, <1>6, <2>1, <2>2, <2>3 DEF Next, Revocations
<1>8. \A k \in CredentialIds :
        credentials'[k] = credentials[k] \/ k \in LockedCredentials(t)
  BY <1>3 DEF Revoke
<1>9. \A k \in LockedCredentials(t) : Issued(k) /\ Holds(t, Row("credential", k), "update")
  <2> SUFFICES ASSUME NEW k \in LockedCredentials(t)
               PROVE  Issued(k) /\ Holds(t, Row("credential", k), "update")
    OBVIOUS
  <2>1. Issued(k)
    BY <1>4 DEF RevocationScope, FamilyMembers, CredentialsOf
  <2>2. PICK l \in locks : l.holder = t /\ l.row = Row("credential", k)
    BY DEF LockedCredentials
  <2>3. l.mode = "update" /\ l = [holder |-> l.holder, row |-> l.row, mode |-> l.mode]
    BY <1>0, <2>2 DEF KeySharesAreOfConnections, TxTypeOK, Row
  <2> QED
    BY <2>1, <2>2, <2>3 DEF Holds
<1>10. \A d \in ConnectionIds :
         /\ connections'[d] = connections[d] \/ Holds(t, Row("connection", d), "update")
         /\ connections'[d].expiresAt = connections[d].expiresAt
         /\ connections'[d].status # "none" => connections[d].status # "none"
  BY <1>0, <1>3, <1>6 DEF TypeOK, Connection
<1>11. WritesOwnRows(t)
  BY <1>3, <1>8, <1>9, <1>10 DEF WritesOwnRows
<1>12. \A k \in CredentialIds : /\ credentials'[k].kind = credentials[k].kind
                                /\ credentials'[k].expiresAt = credentials[k].expiresAt
  BY <1>0, <1>3 DEF Revoke, TypeOK, Credential
<1>13. NothingExpires'
  BY <1>0, <1>3, <1>10, <1>12 DEF NothingExpires, Issued
<1> QED
  BY <1>3, <1>7, <1>11, <1>13, CommitStep

-----------------------------------------------------------------------------
\* The steps that belong to no transaction.
LEMMA OutsideStep ==
  ASSUME TxIInv, [Next]_vars, UNCHANGED <<tx, locks>>, now' = now, NothingExpires',
         \A a \in AuthorizationIds : authorizations[a].status # "none" =>
           authorizations'[a] = authorizations[a],
         UNCHANGED <<connections, credentials>>
  PROVE  TxIInv'
<1>0. TxTypeOK /\ KeySharesAreOfConnections
  BY DEF TxIInv
<1>1. IInv' /\ TypeOK' /\ TokensPersist
  BY NextIInv, TokensPersistStep DEF TxIInv, IInv
<1>2. \A t : OwnLocksKept(t) /\ LockedRowsKept(t)
  BY DEF OwnLocksKept, LockedRowsKept, Issued
<1>3. \A t \in Transactions : TransactionOK(t)'
  BY <1>1, <1>2, OthersStand
<1>4. TxTypeOK' /\ KeySharesAreOfConnections'
  BY <1>0, <1>1 DEF TxTypeOK, KeySharesAreOfConnections, Blockers, Conflict, Rows
<1> QED
  BY <1>1, <1>3, <1>4 DEF TxIInv, TransactionOK

LEMMA BeginStep ==
  ASSUME TxIInv, UNCHANGED <<tx, locks>>,
         NEW a \in AuthorizationIds, NEW cl \in Clients, NEW sc \in ScopeSets,
         BeginBrowserAuthorization(a, cl, sc) \/ BeginDeviceAuthorization(a, cl, sc)
  PROVE  [Next]_vars /\ TxIInv'
<1>0. TypeOK /\ NothingExpires
  BY DEF TxIInv, IInv
<1>1. [Next]_vars
  BY DEF Next
<1>2. /\ UNCHANGED <<connections, credentials, enabled, now>>
      /\ authorizations[a].status = "none"
      /\ \A b \in AuthorizationIds \ {a} : authorizations'[b] = authorizations[b]
      /\ authorizations'[a].client = cl
      /\ authorizations'[a].expiresAt = now + AuthorizationLifetime
  BY <1>0 DEF BeginBrowserAuthorization, BeginDeviceAuthorization, BeginAuthorization,
              FreshAuthorization, TypeOK
<1>3. NothingExpires'
  BY <1>0, <1>2 DEF NothingExpires, Issued, TypeOK
<1> QED
  BY <1>1, <1>2, <1>3, OutsideStep

LEMMA AccessStep ==
  ASSUME TxIInv, UNCHANGED <<tx, locks>>, NEW h \in Handlers,
         \/ \E k \in CredentialIds : ReadCredential(h, k)
         \/ \E required \in RequiredScopes : ReadConnection(h, required)
         \/ RejectAccess(h)
         \/ GrantAccess(h)
  PROVE  [Next]_vars /\ TxIInv'
<1>1. [Next]_vars
  BY DEF Next
<1>2. UNCHANGED <<authorizations, connections, credentials, enabled, now>>
  BY DEF ReadCredential, ReadConnection, RejectAccess, GrantAccess
<1>3. NothingExpires'
  BY <1>2 DEF TxIInv, NothingExpires, Issued
<1> QED
  BY <1>1, <1>2, <1>3, OutsideStep

-----------------------------------------------------------------------------
LEMMA TxInitIInv == TxInit => TxIInv
<1> SUFFICES ASSUME TxInit PROVE TxIInv
  OBVIOUS
<1>1. IInv
  BY InitIInv DEF TxInit
<1>2. /\ \A a \in AuthorizationIds : authorizations[a].status = "none"
      /\ \A c \in ConnectionIds : connections[c].status = "none"
      /\ \A k \in CredentialIds : ~Issued(k)
  BY DEF TxInit, Init, NoAuthorization, NoConnectionRow, NoCredentialRow, Issued
<1>3. /\ locks = {}
      /\ tx \in [Transactions -> Transaction]
      /\ \A t \in Transactions : tx[t].op = "none" /\ tx[t].next = "none"
  BY DEF TxInit, NoTransaction, Transaction, Operations
<1>4. TxTypeOK /\ KeySharesAreOfConnections
  BY <1>1, <1>3 DEF TxTypeOK, KeySharesAreOfConnections, IInv
<1>5. NothingExpires
  BY <1>2 DEF TxInit, NothingExpires
<1>6. \A t \in Transactions : ReadsStand(t) /\ TokenReadsStand(t) /\ RevocationCovers(t)
  BY <1>3 DEF ReadsStand, TokenReadsStand, RevocationCovers, AuthorizationOps, Revocations
<1> QED
  BY <1>1, <1>4, <1>5, <1>6 DEF TxIInv

\* Every step of the transactions is a step of the atomic operations, or none.
LEMMA TxStep == TxIInv /\ [TxNext]_txVars => [Next]_vars /\ TxIInv'
<1> SUFFICES ASSUME TxIInv, [TxNext]_txVars PROVE [Next]_vars /\ TxIInv'
  OBVIOUS
<1>1. ASSUME NEW a \in AuthorizationIds, NEW cl \in Clients, NEW sc \in ScopeSets,
             BeginBrowserAuthorization(a, cl, sc) \/ BeginDeviceAuthorization(a, cl, sc),
             UNCHANGED <<tx, locks>>
      PROVE  [Next]_vars /\ TxIInv'
  BY <1>1, BeginStep
<1>2. ASSUME NEW t \in Transactions,
             \/ \E a \in AuthorizationIds, u \in Users :
                  LookupLock(t, a, u) \/ \E d \in {"approve", "deny"} : DecideLock(t, a, u, d)
             \/ \E a \in AuthorizationIds : CompleteLock(t, a) \/ ExchangeLock(t, a)
      PROVE  [Next]_vars /\ TxIInv'
  BY <1>2, AuthorizationStart
<1>3. ASSUME NEW t \in Transactions,
             \/ \E k \in CredentialIds : RefreshLock(t, k) \/ RevokeTokenLock(t, k)
             \/ \E c \in ConnectionIds, u \in Users : RevokeConnectionLock(t, c, u)
      PROVE  [Next]_vars /\ TxIInv'
  BY <1>3, TokenStart, ConnectionStart
<1>4. ASSUME NEW t \in Transactions, Rollback(t)
      PROVE  [Next]_vars /\ TxIInv'
  BY <1>4, EndStep DEF Rollback
<1>5. ASSUME NEW t \in Transactions, Step(t)
      PROVE  [Next]_vars /\ TxIInv'
  <2>1. CASE LookupCommit(t) \/ DenyCommit(t) \/ CompleteCommit(t)
    BY <2>1, DecisionCommits
  <2>2. CASE \E c \in ConnectionIds : ApproveCommit(t, c)
    BY <2>2, ApproveCommitStep
  <2>3. CASE ExchangeInsert(t)
    BY <2>3, ExchangeInsertStep
  <2>4. CASE \E k \in CredentialIds : ExchangeCommit(t, k) \/ RefreshCommit(t, k)
    BY <2>4, ExchangeCommitStep, RefreshCommitStep
  <2>5. CASE LockConnection(t)
    BY <2>5, LockConnectionStep
  <2>6. CASE RefreshInvalid(t)
    BY <2>6, EndStep DEF RefreshInvalid
  <2>7. CASE SelectCredentials(t) \/ NothingSelected(t)
    BY <2>7, SelectCredentialsStep, NothingSelectedStep
  <2>8. CASE \E k \in CredentialIds : LockCredential(t, k)
    BY <2>8, LockCredentialStep
  <2>9. CASE RevokeCommit(t)
    BY <2>9, RevokeCommitStep
  <2>10. CASE TableFull(t)
    BY <1>4, <2>10 DEF TableFull
  <2> QED
    BY <1>5, <2>1, <2>2, <2>3, <2>4, <2>5, <2>6, <2>7, <2>8, <2>9, <2>10 DEF Step
<1>6. ASSUME NEW h \in Handlers,
             \/ \E k \in CredentialIds : ReadCredential(h, k)
             \/ \E required \in RequiredScopes : ReadConnection(h, required)
             \/ RejectAccess(h)
             \/ GrantAccess(h),
             UNCHANGED <<tx, locks>>
      PROVE  [Next]_vars /\ TxIInv'
  BY <1>6, AccessStep
<1>7. CASE UNCHANGED txVars
  <2>1. /\ UNCHANGED vars /\ UNCHANGED <<tx, locks>> /\ now' = now
        /\ UNCHANGED <<authorizations, connections, credentials>>
    BY <1>7 DEF txVars, vars
  <2>2. NothingExpires'
    BY <1>7 DEF TxIInv, NothingExpires, Issued, txVars
  <2> QED
    BY <2>1, <2>2, OutsideStep
<1>8. CASE TxNext
  BY <1>8, <1>1, <1>2, <1>3, <1>4, <1>5, <1>6
     DEF TxNext, DeadlockVictim, LoseConnection, TxGrantAccess
<1> QED
  BY <1>7, <1>8

\* The inductive invariant holds of every behaviour of the transactions, that
\* of the atomic operations included.
THEOREM TxInvariant == TxSpec => []TxIInv
<1>1. TxInit => TxIInv
  BY TxInitIInv
<1>2. TxIInv /\ [TxNext]_txVars => TxIInv'
  BY TxStep
<1> QED
  BY <1>1, <1>2, PTL DEF TxSpec

\* The row locks make every service method atomic: in any interleaving of any
\* number of calls, with any of them aborted, what is committed is a behaviour
\* of AgentGrants.
THEOREM AtomicityTheorem == TxSpec => TransactionsAreAtomic
<1>1. TxInit => Init
  BY DEF TxInit
<1>2. TxIInv /\ [TxNext]_txVars => [Next]_vars
  BY TxStep
<1> QED
  BY <1>1, <1>2, TxInvariant, PTL DEF TxSpec, TransactionsAreAtomic, Spec

=============================================================================
