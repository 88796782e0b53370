\* One message that expires after a day, two concurrent receivers, a crash of each
\* node, one compaction.
SPECIFICATION DeliverySpec
CONSTANTS
  m1 = m1  m2 = m2  m3 = m3  h1 = h1  h2 = h2  r1 = r1  r2 = r2  c1 = c1
  Msgs = {m1}
  Me = Me
  You = You
  far = far
  Peers = {You}
  Recipient <- MCToYou
  Reachable = {You}
  Rejecting = {}
  Lifetime <- ADay
  Conversations = {c1}
  Names <- MCNames
  OwnIds = {}
  Runs = {r1, r2}
  Limit = 1
  Interval = 1
  Cap = 1
  MaxRetry = 0
  MaxDial = 1
  Handlers = {h1, h2}
  Retention = 1
  CompactLimit = 1
  MaxInFlight = 2
  MaxCompactions = 1
  MaxCrashes = 1
  MaxSends = 0
  MaxPending = 1
  MaxReceiverCrashes = 1
  Nobody = Nobody
  NoEnvelope = NoEnvelope
  NoConversation = NoConversation
INVARIANTS ExpiryCoversCompaction
PROPERTIES ImplementsStoreAndForward
CHECK_DEADLOCK FALSE
