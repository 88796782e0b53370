\* One HTTP exchange, one received message, a peer found, connected and gone.
SPECIFICATION FairSpec
CONSTANTS
  approved = approved  received = received  discovered = discovered
  up1 = up1  down1 = down1  p = p  h1 = h1
  Events = {approved, received, discovered, up1, down1}
  Name <- MCName
  Peer <- MCPeer
  Hooks = {h1}
  Wants <- MCWants
  Sent <- MCSent
  Readable = {approved}
  PageLimit = 2
  None = None
INVARIANTS ClientIsCurrent RequestsNeverFail NewestTellsConnection
PROPERTIES ReadStaysRead PublicationsEnd
CHECK_DEADLOCK FALSE
