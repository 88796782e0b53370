SPECIFICATION Spec
CONSTANTS
  Identities = {alice}
  Secrets = {aliceBob}
  PeerKeys = {bob}
  MaxValue = 1
  Passes = {first, next}
  Ops = {o1}
  MaxCrashes = 1
  Nil = Nil
INVARIANTS
  RegisteredIsKept
