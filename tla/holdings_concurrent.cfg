CONSTANTS
  a = a
  b = b
  p1 = p1
  p2 = p2
  i1 = i1
  i2 = i2
  Passes = {p1, p2}
  Characters = {a, b}
  Pairs <- AnyTwo
  Tools = {"give_item", "apply_effect"}
  Amounts = {1}
  Price = 2
  Ids = {i1}
  MaxItems = 1
  MaxCoins = 0
  MaxOdd = 0
  Faults = FALSE
SPECIFICATION Spec
INVARIANT ThingsOnlyMove
