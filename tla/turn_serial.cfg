\* One call at a time, with engine and store failures and restarts.  The one
\* character is listed up to three times; its condition changes between any two
\* steps, so the positions of an order behave like different characters.
SPECIFICATION Spec
CONSTANTS
  Callers = {p1}
  Characters = {c1}
  Tools <- AllTools
  HasStore = TRUE
  Faults = TRUE
  MaxOrder = 3
  MaxFights = 2
  MaxRound = 1
INVARIANTS
  TableMemoryAndRowAgree
  SearchNeverPanics
PROPERTIES
  TurnsMoveForward
