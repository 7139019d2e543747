-------------------------------- MODULE Holdings --------------------------------
(***************************************************************************)
(* The tools that move items and coins between two characters, between a   *)
(* character and a vendor and between a character and the cache it left at *)
(* a place: master/internal/server/dm_tools.go, vendor.go, location.go and *)
(* store/sqlite_campaign_pack.go.  Each reads the rows, asks the system    *)
(* engine and writes two rows one after the other, without a transaction.  *)
(*                                                                         *)
(* A pass is a slow pass that makes such calls one at a time.  Items are   *)
(* of one kind, coins of one denomination; the party stays where it is.    *)
(***************************************************************************)
EXTENDS Integers, FiniteSets, FiniteSetsExt

CONSTANTS
  Passes,
  Characters,
  Pairs,        \* <<character, other character>> a call may name
  Tools,        \* the calls an instance makes
  Amounts,      \* coins a call may name, negative ones too
  Price,        \* what an item costs
  Ids,          \* bound: rows ever in stashed_items
  MaxItems,     \* bound: items and coins a character starts with
  MaxCoins,
  MaxOdd,       \* bound: calls that name one character twice or less than nothing
  Faults        \* whether a call may be cut short

Trades == {"vendor_sell_item", "vendor_buy_item"}
TwoCharacters == {"give_item", "transfer_currency"} \cup Trades
Stashing == {"stash_item", "stash_currency"}
Retrieving == {"retrieve_item", "retrieve_currency"}
Currency == {"transfer_currency", "stash_currency", "retrieve_currency"}
AllTools == TwoCharacters \cup Stashing \cup Retrieving \cup {"apply_effect"}

ASSUME ToolsAssumption == Tools \subseteq AllTools /\ Pairs \subseteq Characters \X Characters
ASSUME AmountsAssumption ==
  /\ Amounts \subseteq Int /\ Price \in Nat
  /\ MaxItems \in Nat /\ MaxCoins \in Nat /\ MaxOdd \in Nat /\ Faults \in BOOLEAN

VARIABLES
  row,      \* the characters' rows
  stash,    \* per character: its rows of stashed_items, its stashed_currency
  purses,   \* characters that have a row of stashed_currency
  loc,      \* per pass: program counter and locals
  began,    \* items and coins there were at the start
  refused,  \* whether the last call was, and what the store held when it began
  odd,      \* calls so far that MaxOdd bounds
  amiss     \* kinds of calls that did not move what they were to move

vars == <<row, stash, purses, loc, began, refused, odd, amiss>>

Nothing == [items |-> 0, coins |-> 0]
Idle == [pc |-> "idle", tool |-> "none", x |-> "nobody", y |-> "nobody", n |-> 0, id |-> 0,
         a |-> Nothing, b |-> Nothing]

At(p, label) == loc[p].pc = label
Goto(p, label) == loc' = [loc EXCEPT ![p].pc = label]
Return(p, was) ==
  /\ loc' = [loc EXCEPT ![p] = Idle]
  /\ refused' = IF was THEN [refused EXCEPT !.now = TRUE]
                ELSE [now |-> FALSE, row |-> row', stash |-> stash']

TotalItems(r, s) ==
  MapThenSumSet(LAMBDA c : r[c].items, Characters)
  + MapThenSumSet(LAMBDA c : Cardinality(s[c].items), Characters)
TotalCoins(r, s) ==
  MapThenSumSet(LAMBDA c : r[c].coins, Characters)
  + MapThenSumSet(LAMBDA c : s[c].coins, Characters)

Init ==
  /\ row \in [Characters -> [items : 0 .. MaxItems, coins : 0 .. MaxCoins]]
  /\ stash = [c \in Characters |-> [items |-> {}, coins |-> 0]]
  /\ loc = [p \in Passes |-> Idle]
  /\ began = [items |-> TotalItems(row, stash), coins |-> TotalCoins(row, stash)]
  /\ refused = [now |-> FALSE, row |-> row, stash |-> stash]
  /\ purses = {} /\ odd = 0 /\ amiss = {}

--------------------------------------------------------------------------------
(* What a call moves, as the engine computes it, between side "x", the     *)
(* character the call names first (the vendor of a trade), and side "y",   *)
(* the other character or the cache of the first.                          *)

Moved(tool, n) ==
  CASE tool \in {"give_item", "stash_item"} -> [items |-> 1, coins |-> 0]
    [] tool \in {"transfer_currency", "stash_currency"} -> [items |-> 0, coins |-> n]
    [] tool = "vendor_sell_item" -> [items |-> 1, coins |-> -Price]
    [] tool = "vendor_buy_item" -> [items |-> -1, coins |-> Price]
    [] tool = "retrieve_item" -> [items |-> -1, coins |-> 0]
    [] tool = "retrieve_currency" -> [items |-> 0, coins |-> -n]
    [] OTHER -> Nothing

Plus(v, d) == [items |-> v.items + d.items, coins |-> v.coins + d.coins]
Minus(v, d) == [items |-> v.items - d.items, coins |-> v.coins - d.coins]

\* Mutant: the currency leg of a trade starts from the rows as they were read.
AfterUnchained(r, side, v) ==
  IF side = "x" THEN Minus(v, Moved(r.tool, r.n))
  ELSE IF r.tool \in Trades THEN [items |-> v.items, coins |-> v.coins + Moved(r.tool, r.n).coins]
  ELSE Plus(v, Moved(r.tool, r.n))

\* v after the call, v being what side x, or side y, held when it was read.
After(r, side, v) ==
  IF side = "x" THEN Minus(v, Moved(r.tool, r.n)) ELSE Plus(v, Moved(r.tool, r.n))

Covers(v) == v.items >= 0 /\ v.coins >= 0

\* TransferItem and TransferCurrency, RemoveItemFromInventory, RemoveCurrency:
\* rejected unless whoever gives it has it.
CanMove(r) ==
  /\ Covers(After(r, "x", r.a))
  /\ r.tool \in TwoCharacters => Covers(After(r, "y", r.b))

\* Mutant: whoever is given something is written first.
ReceiverFirst(tool) == IF tool \in TwoCharacters THEN "y" ELSE "x"

\* Whoever pays is written first in a trade, else whoever gives.
FirstSide(tool) == IF tool = "vendor_sell_item" THEN "y" ELSE "x"
LastSide(tool) ==
  IF tool \in Retrieving \/ (tool \in TwoCharacters /\ FirstSide(tool) = "y") THEN "x" ELSE "y"

Who(r, side) == IF side = "x" THEN r.x ELSE r.y

\* Nothing keeps a call from naming one character as both: it is read twice,
\* and the copy written last is what it has.
Twice(r) == r.tool \in TwoCharacters /\ r.x = r.y

\* An UPDATE of stashed_currency that matches no row.
Rowless(r) == r.tool = "retrieve_currency" /\ r.x \notin purses

SaveCharacter(r, side) ==
  row' = [row EXCEPT ![Who(r, side)] = After(r, side, IF side = "x" THEN r.a ELSE r.b)]

--------------------------------------------------------------------------------
(* A call.                                                                 *)

Call(p) ==
  /\ At(p, "idle")
  /\ \E tool \in Tools, pair \in Pairs :
       \E n \in IF tool \in Currency THEN Amounts ELSE {0} :
         /\ loc' = [loc EXCEPT ![p] =
              [Idle EXCEPT !.pc = IF tool \in Retrieving THEN "find" ELSE "readX",
                           !.tool = tool, !.x = pair[1], !.n = n,
                           !.y = IF tool \in TwoCharacters THEN pair[2] ELSE "nobody"]]
         /\ odd' = odd + IF n < 0 \/ (tool \in TwoCharacters /\ pair[1] = pair[2]) THEN 1 ELSE 0
         /\ odd' <= MaxOdd
  /\ refused' = [now |-> FALSE, row |-> row, stash |-> stash]
  /\ UNCHANGED <<row, stash, purses, began, amiss>>

\* Mutant: the cache is not asked whether it holds that much.
FindUnchecked(p) ==
  /\ At(p, "find")
  /\ \/ /\ loc[p].tool = "retrieve_item"
        /\ \E id \in stash[loc[p].x].items :
             loc' = [loc EXCEPT ![p].pc = "delete", ![p].id = id]
     \/ loc[p].tool = "retrieve_currency" /\ Goto(p, "delete")
  /\ UNCHANGED <<row, stash, purses, began, refused, odd, amiss>>

\* RetrieveItem selects one row of the item, RemoveStashedCurrency reads what
\* there is; neither finding enough refuses the call ...
Find(p) ==
  /\ At(p, "find")
  /\ \/ /\ loc[p].tool = "retrieve_item"
        /\ \E id \in stash[loc[p].x].items :
             loc' = [loc EXCEPT ![p].pc = "delete", ![p].id = id]
     \/ /\ loc[p].tool = "retrieve_currency" /\ stash[loc[p].x].coins >= loc[p].n
        /\ Goto(p, "delete")
  /\ UNCHANGED <<row, stash, purses, began, refused, odd, amiss>>

FindNothing(p) ==
  /\ At(p, "find")
  /\ \/ loc[p].tool = "retrieve_item" /\ stash[loc[p].x].items = {}
     \/ loc[p].tool = "retrieve_currency" /\ stash[loc[p].x].coins < loc[p].n
  /\ Return(p, TRUE)
  /\ UNCHANGED <<row, stash, purses, began, odd, amiss>>

\* Mutant: every row of the item is deleted, not the one selected.
DeleteAll(p) ==
  /\ At(p, "delete")
  /\ stash' = [stash EXCEPT ![loc[p].x] =
       IF loc[p].tool = "retrieve_item" THEN [items |-> {}, coins |-> @.coins]
       ELSE [items |-> @.items, coins |-> @.coins - IF Rowless(loc[p]) THEN 0 ELSE loc[p].n]]
  /\ Goto(p, "readX")
  /\ UNCHANGED <<row, purses, began, refused, odd, amiss>>

\* ... and deletes it, or subtracts from whatever there then is.
Delete(p) ==
  /\ At(p, "delete")
  /\ stash' = [stash EXCEPT ![loc[p].x] =
       IF loc[p].tool = "retrieve_item" THEN [items |-> @.items \ {loc[p].id}, coins |-> @.coins]
       ELSE [items |-> @.items, coins |-> @.coins - IF Rowless(loc[p]) THEN 0 ELSE loc[p].n]]
  /\ Goto(p, "readX")
  /\ UNCHANGED <<row, purses, began, refused, odd, amiss>>

ReadX(p) ==
  /\ At(p, "readX")
  /\ loc' = [loc EXCEPT ![p].pc = IF loc[p].tool \in TwoCharacters THEN "readY" ELSE "engine",
                        ![p].a = row[loc[p].x]]
  /\ UNCHANGED <<row, stash, purses, began, refused, odd, amiss>>

ReadY(p) ==
  /\ At(p, "readY")
  /\ loc' = [loc EXCEPT ![p].pc = "engine", ![p].b = row[loc[p].y]]
  /\ UNCHANGED <<row, stash, purses, began, refused, odd, amiss>>

\* The engine changes copies; what is left to write of a retrieval is the
\* character's row.
Engine(p) ==
  /\ At(p, "engine") /\ CanMove(loc[p])
  /\ Goto(p, IF loc[p].tool \in Retrieving THEN "saveSecond" ELSE "saveFirst")
  /\ UNCHANGED <<row, stash, purses, began, refused, odd, amiss>>

\* Mutant: a sale is written leg by leg, and the buyer cannot pay.
RefuseAfterItemLeg(p) ==
  /\ At(p, "engine") /\ loc[p].tool \notin Retrieving
  /\ row' = IF loc[p].tool = "vendor_sell_item" /\ loc[p].a.items > 0
            THEN [row EXCEPT ![loc[p].x].items = loc[p].a.items - 1,
                             ![loc[p].y].items = loc[p].b.items + 1]
            ELSE row
  /\ Return(p, TRUE)
  /\ UNCHANGED <<stash, purses, began, odd, amiss>>

\* The engine refuses what it likes, or before it was asked the PvP gate did.
Refuse(p) ==
  /\ At(p, "engine") /\ loc[p].tool \notin Retrieving
  /\ Return(p, TRUE)
  /\ UNCHANGED <<row, stash, purses, began, odd, amiss>>

\* The id of a stashed item is made when its owner's row has been written.
SaveFirst(p) ==
  /\ At(p, "saveFirst")
  /\ SaveCharacter(loc[p], FirstSide(loc[p].tool))
  /\ UNCHANGED <<stash, purses, began, odd, amiss>>
  /\ \/ loc[p].tool = "apply_effect" /\ Return(p, FALSE)
     \/ /\ loc[p].tool = "stash_item"
        /\ \E id \in Ids \ UNION {stash[c].items : c \in Characters} :
             loc' = [loc EXCEPT ![p].pc = "saveSecond", ![p].id = id]
        /\ UNCHANGED refused
     \/ /\ loc[p].tool \notin {"apply_effect", "stash_item"}
        /\ Goto(p, "saveSecond")
        /\ UNCHANGED refused

SaveSecond(p) ==
  /\ At(p, "saveSecond") /\ loc[p].tool \notin Stashing
  /\ SaveCharacter(loc[p], LastSide(loc[p].tool))
  /\ amiss' = amiss \cup (IF Twice(loc[p]) THEN {"twice"} ELSE {})
                    \cup (IF Rowless(loc[p]) THEN {"lost"} ELSE {})
  /\ UNCHANGED <<stash, purses, began, odd>>
  /\ Return(p, FALSE)

\* StashItem inserts a row, AddStashedCurrency inserts one or adds to it.
Deposit(p) ==
  /\ At(p, "saveSecond") /\ loc[p].tool \in Stashing
  /\ stash' = [stash EXCEPT ![loc[p].x] =
       IF loc[p].tool = "stash_item"
       THEN [items |-> @.items \cup {loc[p].id}, coins |-> @.coins]
       ELSE [items |-> @.items, coins |-> @.coins + loc[p].n]]
  /\ purses' = IF loc[p].tool = "stash_currency" THEN purses \cup {loc[p].x} ELSE purses
  /\ UNCHANGED <<row, began, odd, amiss>>
  /\ Return(p, FALSE)

\* One write has been made and another is due.
HalfDone(p) ==
  /\ \/ At(p, "saveSecond")
     \/ loc[p].tool \in Retrieving /\ loc[p].pc \in {"readX", "engine"}
  /\ ~Rowless(loc[p])

\* What it costs to end there: a trade's price, what was on its way, or the
\* other side's share of a payment of less than nothing.
Cost(r) == IF r.tool \in Trades THEN "trade" ELSE IF r.n < 0 THEN "minus" ELSE "lost"
GiveUp(p) ==
  /\ amiss' = IF HalfDone(p) THEN amiss \cup {Cost(loc[p])} ELSE amiss
  /\ UNCHANGED <<row, stash, purses, began, odd>>
  /\ Return(p, FALSE)

\* The engine refuses a retrieval, with what it was for out of the cache.
RefuseRetrieval(p) == At(p, "engine") /\ loc[p].tool \in Retrieving /\ GiveUp(p)

\* A read, the engine or a write fails, the pass's deadline passes, or the
\* process ends.
CutShort(p) == Faults /\ ~At(p, "idle") /\ GiveUp(p)

Next ==
  \E p \in Passes :
    \/ Call(p) \/ Find(p) \/ FindNothing(p) \/ Delete(p) \/ ReadX(p) \/ ReadY(p)
    \/ Engine(p) \/ Refuse(p) \/ RefuseRetrieval(p) \/ SaveFirst(p) \/ SaveSecond(p)
    \/ Deposit(p) \/ CutShort(p)

Spec == Init /\ [][Next]_vars

--------------------------------------------------------------------------------
(* Properties.                                                             *)

Labels == {"idle", "find", "delete", "readX", "readY", "engine", "saveFirst", "saveSecond"}
Rows == [items : Nat, coins : Nat]
Caches == [items : SUBSET Ids, coins : Int]

\* No row, and unless a call named less than nothing no cache, holds less than
\* nothing (RemoveStashedCurrency, sqlite_campaign_pack.go:240-247).
TypeOK ==
  /\ row \in [Characters -> Rows]
  /\ stash \in [Characters -> Caches] /\ purses \subseteq Characters
  /\ odd = 0 => \A c \in Characters : stash[c].coins >= 0
  /\ \A p \in Passes :
       /\ loc[p].pc \in Labels /\ loc[p].tool \in AllTools \cup {"none"}
       /\ loc[p].pc # "idle" => loc[p].x \in Characters
       /\ loc[p].tool \in TwoCharacters => loc[p].y \in Characters
       /\ loc[p].a \in Rows /\ loc[p].b \in Rows
  /\ refused.now \in BOOLEAN
  /\ odd \in 0 .. MaxOdd
  /\ amiss \subseteq {"lost", "trade", "minus", "twice"}

Quiescent == \A p \in Passes : At(p, "idle")

\* A tool moves "a real item from one character's inventory into another's"
\* (dm_tools.go:1606-1607), or into a cache and back: between calls no item
\* and no coin was made or lost, of whatever amounts the calls were.  But for
\* a call that ended between its two writes, one that named a character twice
\* and went through, and a retrieval from a cache without a row.
ThingsOnlyMove ==
  Quiescent /\ amiss = {} =>
    began = [items |-> TotalItems(row, stash), coins |-> TotalCoins(row, stash)]

\* What a call that ends between its writes may cost: coins are lost and never
\* made unless the call named less than nothing, and an item is made only by a
\* trade whose seller was not written (dm_tools.go:1685-1695,
\* vendor.go:287-292, 393-398).  A character that gives to itself makes what it
\* gives.
FailuresMakeNoCoins ==
  Quiescent =>
    /\ {"minus", "twice"} \cap amiss = {} => TotalCoins(row, stash) <= began.coins
    /\ {"trade", "twice"} \cap amiss = {} => TotalItems(row, stash) <= began.items

\* A trade nobody can pay, a gift nobody has, a cache that holds too little or
\* the PvP gate "fails cleanly, with nothing moved" (dm_tools.go:376, 389;
\* vendor.go:204-208, location.go:431, 551).  A retrieval the engine refuses is
\* not among them: it ends between its writes.
RefusalsMoveNothing == refused.now => row = refused.row /\ stash = refused.stash

\* The write a pass has still to make counts as made; a call that names one
\* character twice counts when its last write is.
Carried ==
  [c \in Characters |->
     LET due == {p \in Passes : /\ HalfDone(p) /\ loc[p].tool \notin Stashing
                                /\ c = Who(loc[p], LastSide(loc[p].tool))}
         r == loc[CHOOSE p \in due : TRUE]
     IN IF due = {} THEN row[c]
        ELSE IF Twice(r) THEN r.a ELSE After(r, LastSide(r.tool), row[c])]

Cached ==
  [c \in Characters |->
     LET due == {p \in Passes : HalfDone(p) /\ loc[p].tool \in Stashing /\ c = loc[p].x}
         r == loc[CHOOSE p \in due : TRUE]
     IN IF due = {} THEN stash[c]
        ELSE [items |-> stash[c].items \cup IF r.tool = "stash_item" THEN {r.id} ELSE {},
              coins |-> stash[c].coins + IF r.tool = "stash_currency" THEN r.n ELSE 0]]

Promise == INSTANCE HoldingsPromise WITH carried <- Carried, cached <- Cached

\* One call at a time, each tool is one all-or-nothing move between two
\* characters or a character and its cache, and what a call costs that ends in
\* the middle, names one character twice or takes from a cache without a row
\* is what the promise says and no more.
KeepsPromise == Promise!Spec
================================================================================
