\* The Host decides while the review of the sheet has its row in hand.
SPECIFICATION Spec
CONSTANTS
  Ids = {x, y}
  Uploads = {x}
  Handled = {x}
  Players = {alice, bob}
  Master = dm
  Campaigns = {g1}
  Table = g1
  Passes = {}
  MaxCopies = 2
  NoRow = NoRow
PROPERTIES
  HostHasTheLastWord
CHECK_DEADLOCK FALSE
