\* One slow pass at a time; nothing fails.
SPECIFICATION Spec
CONSTANTS
  Callers = {p1}
  Characters = {c1, c2}
  Tools <- AllTools
  HasStore = TRUE
  Faults = FALSE
  MaxOrder = 2
  MaxFights = 2
  MaxRound = 1
INVARIANT
  GateIsSafeFromAnyGoroutine
