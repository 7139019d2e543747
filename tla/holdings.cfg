CONSTANTS
  a = a
  b = b
  p1 = p1
  p2 = p2
  i1 = i1
  i2 = i2
  Passes = {p1}
  Characters = {a, b}
  Pairs <- AnyTwo
  Tools = {"give_item", "transfer_currency", "vendor_sell_item", "vendor_buy_item",
           "stash_item", "stash_currency", "retrieve_item", "retrieve_currency", "apply_effect"}
  Amounts <- OneOrMinusOne
  Price = 1
  Ids = {i1, i2}
  MaxItems = 1
  MaxCoins = 1
  MaxOdd = 1
  Faults = TRUE
SPECIFICATION Spec
INVARIANTS TypeOK ThingsOnlyMove FailuresMakeNoCoins RefusalsMoveNothing
PROPERTY KeepsPromise
SYMMETRY Alike
