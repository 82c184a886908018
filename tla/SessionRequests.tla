---------------------------- MODULE SessionRequests ----------------------------
(***************************************************************************)
(* Requests of the account API on the connection pool of Sequelize.        *)
(*                                                                         *)
(* The guard reads the account on a connection of its own, a transaction   *)
(* keeps one from its BEGIN to its end, and recordBestEffort asks for a    *)
(* second one while its caller's transaction keeps the first (and, in a    *)
(* sign-in, the lock of the account's row).  Connections are granted in    *)
(* the order they were asked for; one that is not granted in time fails.   *)
(* The event is committed at once, the transaction later or not at all.    *)
(*                                                                         *)
(* All requests are of one Privy subject.  What the transactions do to     *)
(* wallets is WalletLinks', what sign-in, restoration and purge do to the  *)
(* account in detail is AccountLifecycle's: here an account is absent,     *)
(* active or to be deleted, and other transactions without an event        *)
(* (setPrimaryWallet, deleteWallet) use the pool as "deletion" does.       *)
(***************************************************************************)
EXTENDS Sequences, SequencesExt, ProductMetrics

CONSTANTS
  Requests,
  PoolSizes,      \* connections a pool may have
  ClientEvents,   \* events that clients post
  BatchLimit,     \* PRODUCT_EVENTS_BATCH_LIMIT
  Production,     \* NODE_ENV is "production"
  AllowUnsigned   \* PRIVY_AUTH_DEV_ALLOW_UNSIGNED is "true"

ASSUME PoolAssumption == PoolSizes \subseteq Nat \ {0} /\ BatchLimit \in Nat
ASSUME NoneAssumption == None \notin Requests

VARIABLES
  poolSize,
  queue,    \* the requests that wait for a connection
  request,  \* the state of every request
  account,  \* the committed row of the subject
  rowLock,  \* the request that holds the lock of that row
  rows      \* product_events

sessionVars == <<poolSize, queue, request, account, rowLock, rows>>

Kinds == {"session", "bind", "passkey", "deletion", "events"}

\* connections: how many it holds; seen: the account as its transaction has
\* loaded it; created: the result of findOrCreate; lost: the connection of its
\* transaction has broken; dropped: its event was not recorded.
Request ==
  [kind : Kinds \cup {None}, connections : 0..2,
   stage : {"idle", "guard", "lookup", "begin", "create", "update", "insert", "commit", "ended"},
   seen : {"absent", "active", "pending_deletion"}, created : BOOLEAN, lost : BOOLEAN,
   dropped : BOOLEAN, outcome : {"none", "ok", "refused", "unavailable", "failed"}]
NoRequest ==
  [kind |-> None, connections |-> 0, stage |-> "idle",
   seen |-> "absent", created |-> FALSE, lost |-> FALSE, dropped |-> FALSE, outcome |-> "none"]

SessionInit ==
  /\ poolSize \in PoolSizes
  /\ queue = <<>>
  /\ request = [r \in Requests |-> NoRequest]
  /\ account \in {"absent", "active", "pending_deletion"}
  /\ rowLock = None /\ rows = {}

-----------------------------------------------------------------------------
Free == poolSize - MapThenSumSet(LAMBDA r : request[r].connections, Requests)
Queued(r) == \E i \in DOMAIN queue : queue[i] = r

\* r is past the pool, at a stage.
At(r, stage) == request[r].stage = stage /\ ~Queued(r)

SetRequest(r, new) == request' = [request EXCEPT ![r] = new]

\* The next statement of r needs another connection.
Acquire(r, new) == SetRequest(r, new) /\ queue' = Append(queue, r)

\* r ends, its transaction (if any) with it: connections and locks are free.
EndRequest(r, outcome) ==
  /\ SetRequest(r, [request[r] EXCEPT !.stage = "ended", !.outcome = outcome, !.connections = 0,
                                      !.seen = "absent", !.created = FALSE])
  /\ rowLock' = IF rowLock = r THEN None ELSE rowLock

-----------------------------------------------------------------------------
\* verifyAccessToken: unsigned tokens count where development allows them; keys
\* that cannot be fetched reject the token.
Token == [claims : BOOLEAN, signature : {"valid", "invalid", "no_keys"}]
devUnsignedTokensAllowed == ~Production /\ AllowUnsigned
Verified(token) == token.claims /\ (devUnsignedTokensAllowed \/ token.signature = "valid")

\* A request arrives: sign-in verifies its token itself, with the wallet of its
\* body if there is one; for the other account requests the guard verifies the
\* token and looks the account up.
Arrive(r, kind) ==
  /\ request[r].stage = "idle"
  /\ LET new == [NoRequest EXCEPT !.kind = kind] IN
     \E token \in Token, walletGiven \in BOOLEAN :
       \/ /\ ~Verified(token)
          /\ SetRequest(r, [new EXCEPT !.stage = "ended", !.outcome = "refused"])
          /\ UNCHANGED queue
       \/ /\ Verified(token) /\ kind = "session" /\ walletGiven
          /\ SetRequest(r, [new EXCEPT !.stage = "lookup"])
          /\ UNCHANGED queue
       \/ /\ Verified(token) /\ kind = "session" /\ ~walletGiven
          /\ Acquire(r, [new EXCEPT !.stage = "begin"])
       \/ /\ Verified(token) /\ kind # "session"
          /\ Acquire(r, [new EXCEPT !.stage = "guard"])
  /\ UNCHANGED <<account, rowLock, rows>>

\* record and recordMany: one INSERT for all of the events, none for no event.
\* Which events they are is chosen when they are inserted.
PostEvents(r, size) ==
  /\ request[r].stage = "idle"
  /\ LET new == [NoRequest EXCEPT !.kind = "events"] IN
     \/ /\ size = 0
        /\ SetRequest(r, [new EXCEPT !.stage = "ended", !.outcome = "ok"])
        /\ UNCHANGED queue
     \/ /\ size > BatchLimit
        /\ SetRequest(r, [new EXCEPT !.stage = "ended", !.outcome = "refused"])
        /\ UNCHANGED queue
     \/ /\ size \in 1..BatchLimit
        /\ Acquire(r, [new EXCEPT !.stage = "insert"])
  /\ UNCHANGED <<account, rowLock, rows>>

-----------------------------------------------------------------------------
Grant ==
  /\ queue # <<>> /\ Free > 0
  /\ SetRequest(Head(queue), [request[Head(queue)] EXCEPT !.connections = @ + 1])
  /\ queue' = Tail(queue)
  /\ UNCHANGED <<account, rowLock, rows>>

BrokenAcquireTimeout(r) ==
  /\ request[r].connections = 0
  /\ \E i \in DOMAIN queue : queue[i] = r /\ queue' = RemoveAt(queue, i)
  /\ EndRequest(r, "unavailable")
  /\ UNCHANGED <<account, rows>>

InTransaction(r) ==
  request[r].connections > 0 /\ request[r].stage # "guard" /\ request[r].kind # "events"

\* The pool refuses a connection after a while; recordBestEffort goes on
\* without its event, any other request fails.
AcquireTimeout(r) ==
  /\ \E i \in DOMAIN queue : queue[i] = r /\ queue' = RemoveAt(queue, i)
  /\ IF InTransaction(r)
     THEN /\ SetRequest(r, [request[r] EXCEPT !.stage = "commit", !.dropped = TRUE])
          /\ UNCHANGED rowLock
     ELSE EndRequest(r, "unavailable")
  /\ UNCHANGED <<account, rows>>

-----------------------------------------------------------------------------
\* authenticateToken, after the token: the account must be active.
Guard(r) ==
  /\ At(r, "guard")
  /\ LET idle == [request[r] EXCEPT !.connections = 0] IN
     \/ account # "active" /\ EndRequest(r, "refused") /\ UNCHANGED queue
     \/ /\ account = "active" /\ request[r].kind = "bind"
        /\ SetRequest(r, [idle EXCEPT !.stage = "lookup"])
        /\ UNCHANGED <<queue, rowLock>>
     \/ /\ account = "active" /\ request[r].kind # "bind"
        /\ Acquire(r, [idle EXCEPT !.stage = "begin"])
        /\ UNCHANGED rowLock
  /\ UNCHANGED <<account, rows>>

\* assertOwned: an embedded wallet that is among those Privy knows of the user,
\* if Privy answers
Owned(embedded, linked) == embedded /\ linked = "yes"

AssertOwned(r) ==
  /\ At(r, "lookup")
  /\ \E embedded \in BOOLEAN, linked \in {"yes", "no", "unavailable"} :
       IF Owned(embedded, linked)
       THEN /\ Acquire(r, [request[r] EXCEPT !.stage = "begin"])
            /\ UNCHANGED rowLock
       ELSE EndRequest(r, "refused") /\ UNCHANGED queue
  /\ UNCHANGED <<account, rows>>

\* The transaction has begun and loads the account: AppUser.findOne of
\* upsertSession, assertActiveUser or findByPk of the others.  bindWallet
\* writes no account; its wallet rows are not contended here.
BeginTransaction(r) ==
  /\ At(r, "begin")
  /\ LET seen == [request[r] EXCEPT !.seen = account] IN
     \/ /\ request[r].kind = "session"
        /\ SetRequest(r, [seen EXCEPT !.stage = IF account = "absent" THEN "create" ELSE "update"])
        /\ UNCHANGED <<queue, rowLock>>
     \/ /\ request[r].kind # "session" /\ account # "active"
        /\ EndRequest(r, "refused") /\ UNCHANGED queue
     \/ /\ request[r].kind = "bind" /\ account = "active"
        /\ Acquire(r, [seen EXCEPT !.stage = "insert"])
        /\ UNCHANGED rowLock
     \/ /\ request[r].kind \in {"passkey", "deletion"} /\ account = "active"
        /\ SetRequest(r, [seen EXCEPT !.stage = "update"])
        /\ UNCHANGED <<queue, rowLock>>
  /\ UNCHANGED <<account, rows>>

BrokenFindOrCreate(r) ==
  /\ At(r, "create") /\ rowLock = None
  /\ rowLock' = r
  /\ SetRequest(r, [request[r] EXCEPT !.stage = "update", !.seen = "active", !.created = TRUE])
  /\ UNCHANGED <<queue, account, rows>>

\* findOrCreate of an account that was not there: the INSERT waits for another
\* one of the same subject, and loads the row of that if it commits.
FindOrCreate(r) ==
  /\ At(r, "create") /\ rowLock = None
  /\ IF account = "absent"
     THEN /\ rowLock' = r
          /\ SetRequest(r, [request[r] EXCEPT !.stage = "update", !.seen = "active", !.created = TRUE])
     ELSE /\ SetRequest(r, [request[r] EXCEPT !.stage = "update", !.seen = account])
          /\ UNCHANGED rowLock
  /\ UNCHANGED <<queue, account, rows>>

\* user.update, under the lock of the row; then the event, for which the service
\* asks for another connection.  A deletion records none.
UpdateAccount(r) ==
  /\ At(r, "update") /\ rowLock \in {None, r}
  /\ rowLock' = r
  /\ \/ /\ request[r].kind # "deletion"
        /\ Acquire(r, [request[r] EXCEPT !.stage = "insert"])
     \/ /\ request[r].kind = "deletion"
        /\ SetRequest(r, [request[r] EXCEPT !.stage = "commit"])
        /\ UNCHANGED queue
  /\ UNCHANGED <<account, rows>>

-----------------------------------------------------------------------------
\* The event of an account request, and the rows of events
EventOf(r) ==
  LET name == CASE request[r].kind = "session" /\ request[r].created -> "account.created"
                [] request[r].kind = "session" /\ ~request[r].created -> "account.login"
                [] request[r].kind = "passkey" -> "account.passkey.enabled"
                [] OTHER -> "wallet.bind"
  IN  EventKind(name, "backend", "succeeded", None, TRUE)
RowsOf(r, events) == {[by |-> r, event |-> e] : e \in events}

\* The INSERT is committed on its own connection, ...
Insert(r) ==
  /\ At(r, "insert")
  /\ IF request[r].kind = "events"
     THEN /\ \E batch \in SUBSET ClientEvents \ {{}} :
               Cardinality(batch) <= BatchLimit /\ rows' = rows \cup RowsOf(r, batch)
          /\ EndRequest(r, "ok")
     ELSE /\ rows' = rows \cup RowsOf(r, {EventOf(r)})
          /\ SetRequest(r, [request[r] EXCEPT !.stage = "commit", !.connections = 1])
          /\ UNCHANGED rowLock
  /\ UNCHANGED <<queue, account>>

BrokenInsertFails(r) ==
  /\ At(r, "insert")
  /\ SetRequest(r, [request[r] EXCEPT !.stage = "ended", !.outcome = "failed", !.connections = 0,
                                      !.dropped = TRUE])
  /\ rowLock' = IF rowLock = r THEN None ELSE rowLock
  /\ UNCHANGED <<queue, account, rows>>

\* ... or fails, which recordBestEffort only logs.
InsertFails(r) ==
  /\ At(r, "insert")
  /\ IF request[r].kind = "events"
     THEN EndRequest(r, "failed")
     ELSE /\ SetRequest(r, [request[r] EXCEPT !.stage = "commit", !.connections = 1, !.dropped = TRUE])
          /\ UNCHANGED rowLock
  /\ UNCHANGED <<queue, account, rows>>

\* instance.update writes the status if it differs from the loaded one.
CommitTransaction(r) ==
  /\ At(r, "commit") /\ ~request[r].lost
  /\ account' = CASE request[r].kind = "session" /\ (request[r].created \/ request[r].seen # "active") ->
                      "active"
                  [] request[r].kind = "deletion" -> "pending_deletion"
                  [] OTHER -> account
  /\ EndRequest(r, "ok")
  /\ UNCHANGED <<queue, rows>>

\* The connection of a transaction breaks: the database rolls back and frees its
\* locks; the service notices with its next statement.
LoseConnection(r) ==
  /\ InTransaction(r) /\ request[r].stage # "begin" /\ ~request[r].lost
  /\ SetRequest(r, [request[r] EXCEPT !.lost = TRUE])
  /\ rowLock' = IF rowLock = r THEN None ELSE rowLock
  /\ UNCHANGED <<queue, account, rows>>

NoticeLoss(r) ==
  /\ request[r].lost /\ ~Queued(r) /\ request[r].stage \in {"create", "update", "commit"}
  /\ EndRequest(r, "failed")
  /\ UNCHANGED <<queue, account, rows>>

-----------------------------------------------------------------------------
\* What r does once it has been asked for
Statement(r) ==
  \/ Guard(r) \/ AssertOwned(r) \/ BeginTransaction(r)
  \/ ~request[r].lost /\ (FindOrCreate(r) \/ UpdateAccount(r))
  \/ Insert(r) \/ InsertFails(r) \/ CommitTransaction(r) \/ NoticeLoss(r)

SessionNext ==
  /\ \/ \E r \in Requests :
          \/ \E kind \in Kinds \ {"events"} : Arrive(r, kind)
          \/ \E size \in 0..(BatchLimit + 1) : PostEvents(r, size)
          \/ AcquireTimeout(r) \/ Statement(r) \/ LoseConnection(r)
     \/ Grant
  /\ UNCHANGED poolSize

\* The database answers every statement, the lock of a row is granted when it is
\* free, and the pool grants or refuses.
Fairness ==
  /\ WF_sessionVars(Grant /\ UNCHANGED poolSize)
  /\ \A r \in Requests : WF_sessionVars((AcquireTimeout(r) \/ Statement(r)) /\ UNCHANGED poolSize)

SessionSpec == SessionInit /\ [][SessionNext]_sessionVars
FairSpec == SessionSpec /\ Fairness

-----------------------------------------------------------------------------
\* The types of the variables.
SessionTypeOK ==
  /\ poolSize \in PoolSizes
  /\ queue \in Seq(Requests)
  /\ request \in [Requests -> Request]
  /\ account \in {"absent", "active", "pending_deletion"}
  /\ rowLock \in Requests \cup {None}

\* Every request is answered, also when every connection is held by a transaction
\* that waits for another one (recordBestEffort within a transaction).
RequestsEnd ==
  \A r \in Requests : request[r].stage # "idle" ~> request[r].stage = "ended"

\* A request that loses its event for want of a connection, or because the INSERT
\* fails, is not failed by that: it is answered with success unless its own
\* transaction breaks (recordBestEffort).
TelemetryIsBestEffort ==
  \A r \in Requests : request[r].dropped /\ request[r].stage = "ended" =>
    request[r].outcome = (IF request[r].lost THEN "failed" ELSE "ok")

\* An event of an account is never recorded for a request that is refused, and
\* "account.created" only by the sign-in whose transaction creates the account: with
\* overlapping first sign-ins, by one at a time; another one only after that has
\* lost its transaction (upsertSession, findOrCreate).
AccountEvents == {row \in rows : request[row.by].kind # "events"}
EventsTellTheTruth ==
  /\ \A row \in AccountEvents : request[row.by].outcome \in {"none", "ok", "failed"}
  /\ \A one, other \in {row \in AccountEvents : row.event.name = "account.created"} :
       one # other => request[one.by].lost \/ request[other.by].lost

Numbers(rs, name, source, status, reasons) ==
  Cardinality({row \in InWindow(rs) :
    row.event.name = name /\ row.event.source = source /\ row.event.status = status /\ row.event.reason \in reasons})

\* The headline numbers are what a count of the rows gives, however the failures
\* are spread over reason codes, and the failure rates of passkeys and
\* wallets stay within 0 and 100 percent (dailySummary).
SummaryAddsUp ==
  LET headline == dailySummary(rows)
      reasons == {row.event.reason : row \in rows}
      policy == {"signup_with_passkey_not_allowed"}
  IN
  /\ headline.passkeyLoginRealFailure.numerator =
       Numbers(rows, "account.login.passkey", "mfe-wallets", "failed", reasons \ policy)
  /\ headline.walletConnectFailure.numerator =
       Numbers(rows, "wallet.connect", "mfe-wallets", "failed", reasons)
  /\ \A rate \in {"passkeyLoginRealFailure", "passkeyLoginRawFailure", "walletConnectFailure"} :
       headline[rate].numerator \in 0..headline[rate].denominator

=============================================================================
