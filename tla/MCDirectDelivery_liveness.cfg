\* Two messages to a peer that is never there and one to a peer that is, one row
\* per batch; reliable transport and crypto, no crash, any publish may fail.  The
\* numbers meet HasRoom exactly: with Cap 4 the two rows starve the third.
SPECIFICATION ReliableSpec
CONSTANTS
  m1 = m1  m2 = m2  m3 = m3  h1 = h1  h2 = h2  r1 = r1  r2 = r2  c1 = c1
  Msgs = {m1, m2, m3}
  Me = Me
  You = You
  far = far
  Peers = {You, far}
  Recipient <- MCToBoth
  Reachable = {You}
  Rejecting = {}
  Lifetime <- NoLifetime
  Conversations = {c1}
  Names <- MCNames
  OwnIds = {}
  Runs = {r1}
  Limit = 1
  Interval = 1
  Cap = 5
  MaxRetry = 3
  MaxDial = 1
  Handlers = {h1}
  Retention = 1
  CompactLimit = 1
  MaxInFlight = 1
  MaxCompactions = 0
  MaxCrashes = 0
  MaxSends = 0
  MaxPending = 1
  MaxReceiverCrashes = 0
  Nobody = Nobody
  NoEnvelope = NoEnvelope
  NoConversation = NoConversation
PROPERTIES QueuedIsDelivered NoStarvation
CHECK_DEADLOCK FALSE
