\* A slow pass ends the combat while another call saves it; nothing fails.
SPECIFICATION Spec
CONSTANTS
  Callers = {p1, p2}
  Characters = {c1}
  Tools <- CombatTools
  HasStore = TRUE
  Faults = FALSE
  MaxOrder = 1
  MaxFights = 1
  MaxRound = 1
INVARIANT
  RowHoldsNoEndedFight
