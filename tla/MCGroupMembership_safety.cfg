\* Two concurrent executions, two invitations, one crash.
SPECIFICATION Spec
CONSTANTS
  ann = ann  bob = bob  carol = carol  i1 = i1  i2 = i2  h1 = h1  h2 = h2
  Peers = {ann, bob, carol}
  Owner = ann
  Contacts = {bob}
  Invites = {i1, i2}
  Inviter <- MCInviter
  Invitee <- MCInvitee
  Handlers = {h1, h2}
  MaxEpoch = 2
  MaxCrashes = 1
  Nobody = Nobody
  None = None
INVARIANTS TypeOK MembersWereInvited AcceptedIsMember RemovedLosesAccess
CHECK_DEADLOCK FALSE
