\* Two tabs of the owner and another player's connection.
SPECIFICATION FairSpec
CONSTANTS
  NumDice = 3
  Waiter = waiter
  Connections = {tab1, tab2, guest}
  OwnerConnections = {tab1, tab2}
INVARIANTS
  GhostDiceComeFirst
PROPERTIES
  KeepsPromise
  OnlyOwnerOrTimeoutReveals
  RollEnds
\* After the roll nothing happens any more.
CHECK_DEADLOCK FALSE
