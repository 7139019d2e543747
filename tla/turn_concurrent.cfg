\* Two slow passes of the same campaign at once.
SPECIFICATION FairSpec
CONSTANTS
  Callers = {p1, p2}
  Characters = {c1}
  Tools <- CombatTools
  HasStore = FALSE
  Faults = FALSE
  MaxOrder = 1
  MaxFights = 2
  MaxRound = 1
PROPERTIES
  EndedFightsStayEnded
  CallsFinish
