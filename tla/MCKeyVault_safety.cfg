SPECIFICATION Spec
CONSTANTS
  Identities = {alice}
  Secrets = {aliceBob}
  PeerKeys = {bob}
  MaxValue = 2
  Passes = {first, next}
  Ops = {o1, o2}
  MaxCrashes = 1
  Nil = Nil
INVARIANTS
  Readable
  StoredIsLatest
  CachedIsLatest
SYMMETRY Symmetry
CONSTRAINT Unmixed
