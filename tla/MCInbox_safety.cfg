\* Two handlers, one crash, one compaction of each envelope.
SPECIFICATION Spec
CONSTANTS
  e1 = e1  e2 = e2  e3 = e3  alice = alice  mallory = mallory  h1 = h1  h2 = h2
  c1 = c1  c2 = c2  own = own
  Envelopes = {e1, e2, e3}
  Peers = {alice, mallory}
  Sender <- MCSender
  Flaw <- MCFlaw
  Lifetime <- NoLifetime
  Conversations = {c1, c2, own}
  Names <- MCNames
  OwnIds = {own}
  Handlers = {h1, h2}
  Retention = 1
  CompactLimit = 1
  MaxInFlight = 1
  MaxCompactions = 1
  MaxSends = 1
  MaxCrashes = 1
  Nobody = Nobody
  NoEnvelope = NoEnvelope
  NoConversation = NoConversation
INVARIANTS RecordedIsStored ClockGoesOn DuplicatesBounded FlawLeavesNoTrace
SYMMETRY HandlersAlike
CHECK_DEADLOCK FALSE
