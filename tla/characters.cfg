\* Two characters, one of them uploaded, two players and the DM; a call, a
\* review and the Host, two of them with a copy of a row in hand at a time.
SPECIFICATION Spec
CONSTANTS
  Ids = {x, y}
  Uploads = {x}
  Handled = {x}
  Players = {alice, bob}
  Master = dm
  Campaigns = {g1, g2}
  Table = g1
  Passes = {p1}
  MaxCopies = 2
  NoRow = NoRow
INVARIANTS
  OnlyVettedCharactersPlay
  NoHarmWithoutPolicy
SYMMETRY Symmetry
CHECK_DEADLOCK FALSE
