\* A player reconnects while the old connection is being torn down.
SPECIFICATION FairSpec
CONSTANTS
  old = old
  new = new
  alice = alice
  Connections = {old, new}
  Senders = {alice}
  SenderOf <- TwoOfAlice
  OutboxSize = 1
INVARIANTS
  InHubWhileServing
  OutboxClosedOnce
PROPERTIES
  ConnectionsEnd
  HandlersReturn
