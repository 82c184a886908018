SPECIFICATION FairTxSpec
CONSTANTS
  Users = {u1}
  Clients = {chatgpt}
  Read = read
  OfflineAccess = offline
  ScopeSets <- MCOffline
  None = None
  Handlers = {h1}
  MaxAuthorizations = 1
  MaxConnections = 1
  MaxCredentials = 4
  MaxTime = 0
  AuthorizationLifetime = 1
  AccessLifetime = 1
  GrantLifetime = 2
  Transactions = {t1, t2}
PROPERTIES
  TransactionsAreAtomic
  TransactionsEnd
\* A denied request, or full tables, end every behaviour of the instance.
CHECK_DEADLOCK FALSE
