SPECIFICATION Spec
CONSTANTS
  Users = {u1, u2}
  Clients = {chatgpt}
  Read = read
  OfflineAccess = offline
  ScopeSets <- MCScopeSets
  None = None
  Handlers = {h1}
  MaxAuthorizations = 2
  MaxConnections = 1
  MaxCredentials = 5
  MaxTime = 3
  AuthorizationLifetime = 1
  AccessLifetime = 1
  GrantLifetime = 2
SYMMETRY Symmetry
INVARIANTS
  IInv
  ConsentPrecedesTokens
  OneFamilyPerConnection
  RevokedTokensStayRevoked
  OneLiveRefreshToken
  RevocationIsEffective
  AccessWithinGrant
PROPERTY DecisionsAreFinal
