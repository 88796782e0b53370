SPECIFICATION Spec
CONSTANTS
  bob = bob  carol = carol  theApp = theApp
  fromBob = fromBob  toBob1 = toBob1  toBob2 = toBob2  toCarol = toCarol
  t1 = t1  t2 = t2
  Peers = {bob, carol}
  Outgoing = {toBob1, toBob2, toCarol}
  Incoming = {fromBob}
  Peer <- MCPeer
  MaxReceipts = 2
  Free = Free
  Apps = {theApp}
  Tokens = {t1, t2}
  App <- MCApp
  Scopes <- MCScopes
  Prefixed = TRUE
  MaxRequests = 2
  Window = 2
  x1 = x1  x2 = x2
  Sends = {x1, x2}
  By <- MCBy
  To <- MCTo
INVARIANTS
  AcceptedHaveAsked
  AcceptedHasContact
  SlidingLimit
  SentToApproved
PROPERTIES
  RevokedIsSilent
