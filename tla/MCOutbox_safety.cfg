\* Two sends to one peer, two identities for the delivery task, one crash.
SPECIFICATION Spec
CONSTANTS
  m1 = m1  m2 = m2  near = near  r1 = r1  r2 = r2
  Msgs = {m1, m2}
  Peers = {near}
  Recipient <- MCRecipientNear
  Reachable = {near}
  Rejecting = {near}
  Runs = {r1, r2}
  Limit = 1
  Interval = 1
  Cap = 2
  MaxRetry = 1
  MaxDial = 2
  MaxInFlight = 1
  MaxCrashes = 1
  Nobody = Nobody
INVARIANTS TypeOK ReportedIsQueued QueuedIsStored OwnMessagesInSendOrder
PROPERTIES PublishedIsFinal
CHECK_DEADLOCK FALSE
