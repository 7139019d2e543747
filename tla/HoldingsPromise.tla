---------------------------- MODULE HoldingsPromise -----------------------------
(* What the tools that move things promise: each is one step that moves    *)
(* what it moves, all or nothing.  The rest of the actions say what else a *)
(* call may come to: one that ends in the middle, one that names the same  *)
(* character twice, one that takes from a cache without a row.             *)
(* master/internal/server/dm_tools.go, vendor.go, location.go.             *)
EXTENDS Integers

CONSTANTS Characters, Amounts, Price, Ids

VARIABLES
  carried,  \* per character: items and coins on it
  cached    \* per character: items (one id each) and coins it left behind

vars == <<carried, cached>>

\* x is left with d less, y has it.
Exchange(x, y, items, coins) ==
  /\ carried[x].items >= items /\ carried[y].items + items >= 0
  /\ carried[x].coins >= coins /\ carried[y].coins + coins >= 0
  /\ carried' = [c \in Characters |->
       CASE c = x -> [items |-> carried[x].items - items, coins |-> carried[x].coins - coins]
         [] c = y -> [items |-> carried[y].items + items, coins |-> carried[y].coins + coins]
         [] OTHER -> carried[c]]
  /\ UNCHANGED cached

Give(x, y) == Exchange(x, y, 1, 0)
Pay(x, y, n) == Exchange(x, y, 0, n)
Trade(seller, buyer) == Exchange(seller, buyer, 1, -Price)

\* Puts items and coins of x down, or picks them up again.
Change(x, items, coins) ==
  carried' = [carried EXCEPT ![x] = [items |-> @.items + items, coins |-> @.coins + coins]]
CacheCoins(x, n) == cached' = [cached EXCEPT ![x] = [items |-> @.items, coins |-> @.coins + n]]
CacheItems(x, ids) == cached' = [cached EXCEPT ![x] = [items |-> ids, coins |-> @.coins]]

StashItem(x, id) ==
  /\ carried[x].items > 0 /\ id \notin cached[x].items
  /\ Change(x, -1, 0) /\ CacheItems(x, cached[x].items \cup {id})

StashCoins(x, n) ==
  /\ carried[x].coins >= n
  /\ Change(x, 0, -n) /\ CacheCoins(x, n)

RetrieveItem(x, id) ==
  /\ id \in cached[x].items
  /\ Change(x, 1, 0) /\ CacheItems(x, cached[x].items \ {id})

\* For less than nothing it is a deposit, which x may turn out not to cover.
RetrieveCoins(x, n) ==
  /\ cached[x].coins >= n
  /\ Change(x, 0, n) /\ CacheCoins(x, -n)

\* A transfer or a retrieval that ends in the middle loses what it moved (and
\* makes what it took, when that was less than nothing) ...
LoseItem(x) == carried[x].items > 0 /\ Change(x, -1, 0) /\ UNCHANGED cached
LoseCoins(x, n) == carried[x].coins >= n /\ Change(x, 0, -n) /\ UNCHANGED cached

\* ... a deposit that ends there what it put down ...
LoseCachedItem(x, id) ==
  id \in cached[x].items /\ CacheItems(x, cached[x].items \ {id}) /\ UNCHANGED carried
LoseCachedCoins(x, n) == CacheCoins(x, -n) /\ UNCHANGED carried

\* ... and a trade leaves the seller with the item and without the money.
LosePayment(seller) ==
  /\ carried[seller].coins >= Price
  /\ Change(seller, 1, -Price)
  /\ UNCHANGED cached

\* Who gives to itself has what it gave once more; who trades with itself has
\* sold, and was paid by nobody.
Doubled(x, items, coins) ==
  /\ carried[x].items >= items /\ carried[x].items + items >= 0
  /\ carried[x].coins >= coins /\ carried[x].coins + coins >= 0
  /\ Change(x, items, coins)
  /\ UNCHANGED cached

\* A retrieval of less than nothing where nothing was ever put down.
PayNobody(x, n) ==
  /\ n <= 0 /\ cached[x].coins = 0 /\ carried[x].coins + n >= 0
  /\ Change(x, 0, n)
  /\ UNCHANGED cached

Moves ==
  \E x \in Characters :
    \/ \E y \in Characters \ {x} :
         Give(x, y) \/ Trade(x, y) \/ (\E n \in Amounts : Pay(x, y, n))
    \/ \E id \in Ids : StashItem(x, id) \/ RetrieveItem(x, id)
    \/ \E n \in Amounts : StashCoins(x, n) \/ RetrieveCoins(x, n)

LosesItem == \E x \in Characters : LoseItem(x) \/ \E id \in Ids : LoseCachedItem(x, id)
LosesCoins(amounts) ==
  \E x \in Characters, n \in amounts : LoseCoins(x, n) \/ LoseCachedCoins(x, n)
LosesPayment == \E x \in Characters : LosePayment(x)
Doubles ==
  \E x \in Characters :
    Doubled(x, 1, 0) \/ Doubled(x, -1, Price) \/ \E n \in Amounts : Doubled(x, 0, n)
PaysNobody == \E x \in Characters, n \in Amounts : PayNobody(x, n)

\* What moves nothing is no step.
Next ==
  /\ vars' # vars
  /\ Moves \/ LosesItem \/ LosesCoins(Amounts) \/ LosesPayment \/ Doubles \/ PaysNobody

Init ==
  /\ carried \in [Characters -> [items : Nat, coins : Nat]]
  /\ cached = [x \in Characters |-> [items |-> {}, coins |-> 0]]

Spec == Init /\ [][Next]_vars
================================================================================
