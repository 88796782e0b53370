\* Two handlers and two copies of one sound envelope: no crash, no compaction.
SPECIFICATION Spec
CONSTANTS
  e1 = e1  e2 = e2  e3 = e3  alice = alice  mallory = mallory  h1 = h1  h2 = h2
  c1 = c1  c2 = c2  own = own
  Envelopes = {e1}
  Peers = {alice}
  Sender <- MCSender
  Flaw <- SoundFlaw
  Lifetime <- NoLifetime
  Conversations = {c1}
  Names <- MCNames
  OwnIds = {}
  Handlers = {h1, h2}
  Retention = 1
  CompactLimit = 1
  MaxInFlight = 1
  MaxCompactions = 0
  MaxSends = 0
  MaxCrashes = 0
  Nobody = Nobody
  NoEnvelope = NoEnvelope
  NoConversation = NoConversation
INVARIANTS OneMessagePerEnvelope
CHECK_DEADLOCK FALSE
