---------------------------- MODULE AgentGrantsTx ----------------------------
(***************************************************************************)
(* The operations of AgentAccessService as the transactions the database   *)
(* executes: READ COMMITTED, with the row locks that the repository's      *)
(* FOR UPDATE reads, UPDATE statements and foreign-key checks take.  Each  *)
(* method of the service is a sequence of actions, one for every statement *)
(* that may have to wait, and a final one that commits; what it wrote is   *)
(* seen by the others from then on, when its locks are released.           *)
(*                                                                         *)
(* The tables are those of AgentGrants, and the specification implements   *)
(* AgentGrants!Spec: a commit is one of its steps, all else a stutter.     *)
(* Expiry is left to AgentGrants: here the clock stands still and the      *)
(* integration is enabled.                                                 *)
(***************************************************************************)
EXTENDS AgentGrants

CONSTANTS
  Transactions    \* concurrent service calls that run in a locking transaction

VARIABLES
  tx,             \* what every transaction does and how far it has come
  locks           \* row locks, held until the end of the transaction

txVars == <<authorizations, connections, credentials, audit, handler, enabled, now, tx, locks>>

tables == <<authorizations, connections, credentials, audit>>
frozen == <<handler, enabled, now>>

Row(table, id) == [table |-> table, id |-> id]
Rows ==
  [table: {"authorization"}, id: AuthorizationIds]
    \cup [table: {"connection"}, id: ConnectionIds]
    \cup [table: {"credential"}, id: CredentialIds]

Operations ==
  {"none", "lookup", "approve", "deny", "complete", "exchange",
   "refresh", "reuse", "revokeConnection", "revokeToken"}

\* next: the statement the transaction executes next
\* target: the row it was called with; user: its caller
\* todo: the rows its UPDATE agent_credentials has selected and not yet locked
Transaction ==
  [op: Operations,
   next: {"none", "connection", "insert", "select", "update", "commit"},
   target: AuthorizationIds \cup ConnectionIds \cup CredentialIds \cup {0},
   user: Users \cup {None},
   todo: SUBSET CredentialIds]
NoTransaction ==
  [op |-> "none", next |-> "none", target |-> 0, user |-> None, todo |-> {}]

TxInit ==
  /\ Init
  /\ enabled
  /\ tx = [t \in Transactions |-> NoTransaction]
  /\ locks = {}

-----------------------------------------------------------------------------
\* FOR KEY SHARE, taken by the foreign-key check of an INSERT, only conflicts
\* with FOR UPDATE; the other modes used here exclude each other.
Conflict(m1, m2) == m1 = "update" \/ m2 = "update"

Blockers(t, row, mode) ==
  {l.holder : l \in {l \in locks : l.row = row /\ l.holder # t /\ Conflict(mode, l.mode)}}
CanLock(t, row, mode) == Blockers(t, row, mode) = {}
Lock(t, row, mode) ==
  /\ CanLock(t, row, mode)
  /\ locks' = locks \cup {[holder |-> t, row |-> row, mode |-> mode]}

Release(t) == locks' = {l \in locks : l.holder # t}
LockedCredentials(t) ==
  {k \in CredentialIds :
     \E l \in locks : l.holder = t /\ l.row = Row("credential", k)}

\* A call starts with the FOR UPDATE read of the row it names.
Start(t, op, next, row, u) ==
  /\ tx[t].op = "none"
  /\ Lock(t, row, "update")
  /\ tx' = [tx EXCEPT ![t] =
       [op |-> op, next |-> next, target |-> row.id, user |-> u, todo |-> {}]]
  /\ UNCHANGED <<tables, frozen>>

End(t) ==
  /\ tx' = [tx EXCEPT ![t] = NoTransaction]
  /\ Release(t)

\* COMMIT of a transaction of operation op
Commit(t, op) ==
  /\ tx[t].op = op
  /\ tx[t].next = "commit"
  /\ End(t)
  /\ UNCHANGED frozen

Proceed(t, next) == tx' = [tx EXCEPT ![t].next = next]

-----------------------------------------------------------------------------
\* authorizationForDeviceCode
LookupLock(t, a, u) ==
  /\ authorizations[a].flow = "device"
  /\ Pending(a, u)
  /\ Start(t, "lookup", "commit", Row("authorization", a), u)

LookupCommit(t) ==
  /\ Commit(t, "lookup")
  /\ authorizations' = [authorizations EXCEPT ![tx[t].target].user = tx[t].user]
  /\ UNCHANGED <<connections, credentials, audit>>

\* decide
DecideLock(t, a, u, decision) ==
  /\ Pending(a, u)
  /\ Start(t, decision, "commit", Row("authorization", a), u)

ApproveCommit(t, c) ==
  LET a == tx[t].target IN
  /\ Commit(t, "approve")
  /\ FreshConnection(c)
  /\ connections' = [connections EXCEPT ![c] =
       [status |-> "active", user |-> tx[t].user, client |-> authorizations[a].client,
        scopes |-> authorizations[a].scopes, expiresAt |-> now + GrantLifetime]]
  /\ authorizations' = [authorizations EXCEPT
       ![a].user = tx[t].user, ![a].status = "approved", ![a].connection = c]
  /\ UNCHANGED <<credentials, audit>>

DenyCommit(t) ==
  /\ Commit(t, "deny")
  /\ authorizations' = [authorizations EXCEPT
       ![tx[t].target].user = tx[t].user, ![tx[t].target].status = "denied"]
  /\ UNCHANGED <<connections, credentials, audit>>

\* completeBrowserAuthorization
CompleteLock(t, a) ==
  /\ authorizations[a].flow = "browser"
  /\ authorizations[a].status = "approved"
  /\ ~authorizations[a].code
  /\ Start(t, "complete", "commit", Row("authorization", a), None)

CompleteCommit(t) ==
  /\ Commit(t, "complete")
  /\ authorizations' = [authorizations EXCEPT ![tx[t].target].code = TRUE]
  /\ UNCHANGED <<connections, credentials, audit>>

\* exchangeAuthorizationCode and exchangeDeviceCode
ExchangeLock(t, a) ==
  /\ authorizations[a].code \/ authorizations[a].deviceCode
  /\ authorizations[a].status = "approved"
  /\ Start(t, "exchange", "insert", Row("authorization", a), None)

\* issueTokens: the INSERTs check the foreign key to agent_connections.
ExchangeInsert(t) ==
  /\ tx[t].op = "exchange" /\ tx[t].next = "insert"
  /\ Lock(t, Row("connection", authorizations[tx[t].target].connection), "keyShare")
  /\ Proceed(t, "commit")
  /\ UNCHANGED <<tables, frozen>>

ExchangeCommit(t, k) ==
  LET a == tx[t].target IN
  /\ Commit(t, "exchange")
  /\ authorizations' = [authorizations EXCEPT
       ![a].status = "consumed", ![a].code = FALSE, ![a].deviceCode = FALSE]
  /\ IssueTokens(credentials, k, authorizations[a].connection,
                 OfflineAccess \in authorizations[a].scopes, k, now + GrantLifetime)
  /\ UNCHANGED <<connections, audit>>

-----------------------------------------------------------------------------
\* refresh locks the credential and then its connection...
RefreshLock(t, r) ==
  /\ credentials[r].kind = "refresh"
  /\ Start(t, IF credentials[r].used \/ credentials[r].revoked THEN "reuse" ELSE "refresh",
           "connection", Row("credential", r), None)

\* ... as revokeToken does.
RevokeTokenLock(t, k) ==
  /\ Issued(k)
  /\ Start(t, "revokeToken", "connection", Row("credential", k), None)

RevokeConnectionLock(t, c, u) ==
  /\ connections[c].status # "none"
  /\ connections[c].user = u
  /\ Start(t, "revokeConnection", "select", Row("connection", c), u)

ConnectionOf(t) ==
  IF tx[t].op = "revokeConnection" THEN tx[t].target
  ELSE IF tx[t].op = "exchange" THEN authorizations[tx[t].target].connection
  ELSE credentials[tx[t].target].connection

BrokenLockConnectionUnlocked(t) ==
  /\ tx[t].next = "connection"
  /\ \/ tx[t].op \in {"reuse", "revokeToken"} /\ Proceed(t, "select")
     \/ /\ tx[t].op = "refresh"
        /\ connections[ConnectionOf(t)].status = "active"
        /\ Proceed(t, "commit")
  /\ UNCHANGED <<tables, frozen, locks>>

LockConnection(t) ==
  /\ tx[t].next = "connection"
  /\ Lock(t, Row("connection", ConnectionOf(t)), "update")
  /\ \/ tx[t].op \in {"reuse", "revokeToken"} /\ Proceed(t, "select")
     \/ /\ tx[t].op = "refresh"
        /\ connections[ConnectionOf(t)].status = "active"
        /\ Proceed(t, "commit")
  /\ UNCHANGED <<tables, frozen>>

BrokenRefreshInvalidStaysOpen(t) ==
  /\ tx[t].op = "refresh" /\ tx[t].next = "connection"
  /\ CanLock(t, Row("connection", ConnectionOf(t)), "update")
  /\ Proceed(t, "none")
  /\ UNCHANGED <<tables, frozen, locks>>

\* The connection is not active (or belongs to another client): invalid_grant.
RefreshInvalid(t) ==
  /\ tx[t].op = "refresh" /\ tx[t].next = "connection"
  /\ CanLock(t, Row("connection", ConnectionOf(t)), "update")
  /\ End(t)
  /\ UNCHANGED <<tables, frozen>>

RefreshCommit(t, k) ==
  LET r == tx[t].target
      c == ConnectionOf(t)
  IN
  /\ Commit(t, "refresh")
  /\ IssueTokens([credentials EXCEPT ![r].used = TRUE], k, c, TRUE,
                 credentials[r].family, connections[c].expiresAt)
  /\ UNCHANGED <<authorizations, connections, audit>>

\* The tokens a revocation is about
RevocationScope(t) ==
  IF tx[t].op = "reuse" THEN FamilyMembers(credentials[tx[t].target].family)
  ELSE CredentialsOf(ConnectionOf(t))

\* UPDATE agent_credentials SET revoked_at: the rows the statement's snapshot
\* selects are locked one after the other, in no particular order.
SelectCredentials(t) ==
  /\ tx[t].next = "select"
  /\ tx' = [tx EXCEPT ![t].next = "update",
                      ![t].todo = {k \in RevocationScope(t) : ~credentials[k].revoked}]
  /\ UNCHANGED <<tables, frozen, locks>>

LockCredential(t, k) ==
  /\ tx[t].next = "update"
  /\ k \in tx[t].todo
  /\ Lock(t, Row("credential", k), "update")
  /\ tx' = [tx EXCEPT ![t].todo = @ \ {k},
                      ![t].next = IF tx[t].todo = {k} THEN "commit" ELSE "update"]
  /\ UNCHANGED <<tables, frozen>>

NothingSelected(t) ==
  /\ tx[t].next = "update"
  /\ tx[t].todo = {}
  /\ Proceed(t, "commit")
  /\ UNCHANGED <<tables, frozen, locks>>

RevocationEvent(op) ==
  CASE op = "reuse" -> "agent.token.refresh_reuse"
    [] op = "revokeToken" -> "agent.token.revoked"
    [] op = "revokeConnection" -> "agent.connection.revoked"

RevokeCommit(t) ==
  LET c == ConnectionOf(t) IN
  /\ \E op \in {"reuse", "revokeToken", "revokeConnection"} :
       /\ Commit(t, op)
       /\ audit' = audit \cup {[type |-> RevocationEvent(op), connection |-> c]}
  /\ Revoke(LockedCredentials(t))
  /\ connections' = IF tx[t].op = "revokeConnection"
                    THEN [connections EXCEPT ![c].status = "revoked"] ELSE connections
  /\ UNCHANGED authorizations

-----------------------------------------------------------------------------
\* The UPDATE of last_used_at in authenticateAccessToken waits for a
\* transaction that holds the connection FOR UPDATE; its reads never wait.
TxGrantAccess(h) ==
  /\ GrantAccess(h)
  /\ ~ \E l \in locks :
         /\ l.row = Row("connection", credentials[handler[h].credential].connection)
         /\ l.mode = "update"
  /\ UNCHANGED <<tx, locks>>

\* The rows, with the lock mode, one of which transaction t must lock next.
Wanted(t) ==
  CASE tx[t].next = "connection" -> {Row("connection", ConnectionOf(t))}
    [] tx[t].next = "insert" -> {Row("connection", ConnectionOf(t))}
    [] tx[t].next = "update" -> {Row("credential", k) : k \in tx[t].todo}
    [] OTHER -> {}
WaitsFor(t) ==
  UNION {Blockers(t, row, IF tx[t].next = "insert" THEN "keyShare" ELSE "update")
           : row \in Wanted(t)}
\* A set of transactions in which everyone waits for the next one.
Deadlocked(t) ==
  \E cycle \in SUBSET Transactions :
    /\ t \in cycle
    /\ \A s \in cycle :
         /\ WaitsFor(s) \cap cycle # {}
         /\ \E r \in cycle : s \in WaitsFor(r)

Rollback(t) ==
  /\ tx[t].op # "none"
  /\ End(t)
  /\ UNCHANGED <<tables, frozen>>

\* The database breaks a deadlock by aborting one of its transactions.
DeadlockVictim(t) == Deadlocked(t) /\ Rollback(t)
\* The connection, or the process, is lost in the middle of a transaction.
LoseConnection(t) == Rollback(t)

\* A bound of the model: when MaxConnections or MaxCredentials rows exist, an
\* INSERT fails.
TableFull(t) ==
  /\ tx[t].next = "commit"
  /\ CASE tx[t].op = "approve" -> \A c \in ConnectionIds : ~FreshConnection(c)
       [] tx[t].op = "refresh" -> \A k \in CredentialIds : k + 1 \in CredentialIds => ~FreshCredential(k)
       [] tx[t].op = "exchange" -> \A k \in CredentialIds : k + 1 \in CredentialIds => ~FreshCredential(k)
       [] OTHER -> FALSE
  /\ Rollback(t)

\* The steps a transaction takes once it has begun.
Step(t) ==
  \/ LookupCommit(t) \/ DenyCommit(t) \/ CompleteCommit(t)
  \/ \E c \in ConnectionIds : ApproveCommit(t, c)
  \/ ExchangeInsert(t)
  \/ \E k \in CredentialIds : ExchangeCommit(t, k) \/ RefreshCommit(t, k)
  \/ LockConnection(t) \/ RefreshInvalid(t)
  \/ SelectCredentials(t) \/ NothingSelected(t)
  \/ \E k \in CredentialIds : LockCredential(t, k)
  \/ RevokeCommit(t)
  \/ TableFull(t)

TxNext ==
  \/ \E a \in AuthorizationIds, cl \in Clients, sc \in ScopeSets :
       /\ \/ BeginBrowserAuthorization(a, cl, sc)
          \/ BeginDeviceAuthorization(a, cl, sc)
       /\ UNCHANGED <<tx, locks>>
  \/ \E t \in Transactions :
       \/ \E a \in AuthorizationIds, u \in Users :
            LookupLock(t, a, u) \/ \E d \in {"approve", "deny"} : DecideLock(t, a, u, d)
       \/ \E a \in AuthorizationIds : CompleteLock(t, a) \/ ExchangeLock(t, a)
       \/ \E k \in CredentialIds : RefreshLock(t, k) \/ RevokeTokenLock(t, k)
       \/ \E c \in ConnectionIds, u \in Users : RevokeConnectionLock(t, c, u)
       \/ Step(t)
       \/ DeadlockVictim(t)
       \/ LoseConnection(t)
  \/ \E h \in Handlers :
       \/ /\ \/ \E k \in CredentialIds : ReadCredential(h, k)
             \/ \E required \in RequiredScopes : ReadConnection(h, required)
             \/ RejectAccess(h)
          /\ UNCHANGED <<tx, locks>>
       \/ TxGrantAccess(h)

TxSpec == TxInit /\ [][TxNext]_txVars

\* The database queues the transactions that wait for a row, so one that can
\* take its next lock again and again gets it; and it looks for deadlocks.
FairTxSpec ==
  /\ TxSpec
  /\ \A t \in Transactions : SF_txVars(Step(t)) /\ WF_txVars(DeadlockVictim(t))

-----------------------------------------------------------------------------
\* The types of the variables; and every row lock belongs to a call that is
\* still in its transaction, conflicting locks never being held together.
TxTypeOK ==
  /\ TypeOK
  /\ tx \in [Transactions -> Transaction]
  /\ locks \subseteq [holder: Transactions, row: Rows, mode: {"update", "keyShare"}]
  /\ \A l \in locks : /\ tx[l.holder].op # "none"
                      /\ Blockers(l.holder, l.row, l.mode) = {}

\* The row locks make every service method atomic: what the transactions
\* commit, in any interleaving and with any of them aborted, is a behaviour
\* of AgentGrants (queryOptions of the repository, forUpdate in the service).
TransactionsAreAtomic == Spec

\* No service call stays in its transaction for ever, whoever waits for whom.
TransactionsEnd ==
  \A t \in Transactions : tx[t].op # "none" ~> tx[t].op = "none"

=============================================================================
