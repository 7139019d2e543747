----------------------------- MODULE HoldingsProofs -----------------------------
(***************************************************************************)
(* What holds of the tools that move things when the campaign's slow       *)
(* passes come one after the other, whatever characters and amounts the    *)
(* calls name: a refused call leaves the store as it was, every call keeps *)
(* the promise of an all-or-nothing move, and what there is in all is what *)
(* there was, but for the calls Holdings names.                            *)
(***************************************************************************)
EXTENDS Holdings, FiniteSetTheorems, TLAPS

OnePass == \E p \in Passes : Passes = {p}

Locals ==
  [pc : Labels, tool : AllTools \cup {"none"},
   x : Characters \cup {"nobody"}, y : Characters \cup {"nobody"},
   n : Int, id : Ids \cup {0}, a : Rows, b : Rows]

\* What the locals r of the pass say of the rows w, the caches s and who has
\* a stashed_currency in q: what was read is still there, what was found is
\* still to be deleted.
LocalsOK(r, w, s, q) ==
  /\ r.tool \in TwoCharacters => r.y \in Characters
  /\ r.pc # "idle" =>
       /\ r.x \in Characters /\ r.tool \in AllTools
       /\ IF r.tool \in Currency THEN r.n \in Amounts ELSE r.n = 0
  /\ r.pc \in {"find", "delete"} => r.tool \in Retrieving
  /\ r.pc = "delete" =>
       IF r.tool = "retrieve_item" THEN r.id \in s[r.x].items ELSE r.n <= s[r.x].coins
  /\ r.pc \notin {"idle", "find"} /\ r.tool = "retrieve_currency" /\ r.x \notin q => r.n <= 0
  /\ r.pc = "readY" => r.tool \in TwoCharacters /\ r.a = w[r.x]
  /\ r.pc \in {"engine", "saveFirst"} =>
       r.a = w[r.x] /\ (r.tool \in TwoCharacters => r.b = w[r.y])
  /\ r.pc \in {"saveFirst", "saveSecond"} => CanMove(r)
  /\ r.pc = "saveFirst" => r.tool \notin Retrieving
  /\ r.pc = "saveSecond" =>
       /\ r.tool # "apply_effect"
       /\ Twice(r) => r.a = r.b /\ w[r.x] = After(r, FirstSide(r.tool), r.a)
       /\ ~Twice(r) /\ r.tool \in Retrieving \cup {"vendor_sell_item"} => r.a = w[r.x]
       /\ ~Twice(r) /\ r.tool \in TwoCharacters \ {"vendor_sell_item"} => r.b = w[r.y]
       /\ r.tool = "stash_item" => r.id \in Ids \ s[r.x].items

\* Before its first write a call has changed nothing.
Untouched(r) ==
  r.pc \in IF r.tool \in Retrieving THEN {"find", "delete"}
           ELSE {"readX", "readY", "engine", "saveFirst"}

RefusedOK(r) ==
  /\ Untouched(r) => row = refused.row /\ stash = refused.stash
  /\ refused.now => r.pc = "idle" /\ row = refused.row /\ stash = refused.stash

Refusals ==
  [now : BOOLEAN, row : [Characters -> Rows], stash : [Characters -> Caches]]

\* Who has no stashed_currency has put nothing down.
PursesOK ==
  purses \subseteq Characters /\ \A c \in Characters \ purses : stash[c].coins = 0

\* Only a call that names less than nothing takes a cache below nothing.
OddOK ==
  /\ odd \in 0 .. MaxOdd
  /\ odd = 0 => /\ \A c \in Characters : stash[c].coins >= 0
                /\ \A p \in Passes : loc[p].n >= 0

Kinds == {"lost", "trade", "minus", "twice"}

IInv ==
  /\ row \in [Characters -> Rows]
  /\ stash \in [Characters -> Caches]
  /\ loc \in [Passes -> Locals]
  /\ refused \in Refusals
  /\ amiss \subseteq Kinds
  /\ PursesOK /\ OddOK
  /\ \A p \in Passes : LocalsOK(loc[p], row, stash, purses) /\ RefusedOK(loc[p])
--------------------------------------------------------------------------------
(* What a call moves.                                                      *)

USE DEF Rows, Caches, Labels, AllTools, TwoCharacters, Trades, Stashing, Retrieving, Currency

\* What a call moves is a number of items and of coins.
LEMMA MovedIsNumbers ==
  ASSUME NEW tool \in AllTools, NEW n \in Int
  PROVE  Moved(tool, n) \in [items : Int, coins : Int]
  BY AmountsAssumption DEF Moved, Nothing

\* What a side holds after the call is a number too, and one a row can hold
\* when it covers what it gives.
LEMMA AfterIsNumbers ==
  ASSUME NEW r \in Locals, r.tool \in AllTools, NEW side, NEW v \in Rows
  PROVE  /\ After(r, side, v) \in [items : Int, coins : Int]
         /\ Covers(After(r, side, v)) => After(r, side, v) \in Rows
<1>1. Moved(r.tool, r.n) \in [items : Int, coins : Int]
  BY MovedIsNumbers DEF Locals
<1>. QED
  BY <1>1 DEF After, Plus, Minus, Covers

\* The side written first, and the side written last, hold what a row can hold.
LEMMA WrittenIsRow ==
  ASSUME NEW r \in Locals, r.tool \in AllTools, CanMove(r)
  PROVE  /\ After(r, "x", r.a) \in Rows
         /\ r.tool \in TwoCharacters => After(r, "y", r.b) \in Rows
  BY AfterIsNumbers DEF CanMove, Locals

--------------------------------------------------------------------------------
(* The invariant.                                                          *)

\* One pass, its locals in r after the step.
LEMMA InvStep ==
  ASSUME IInv, NEW p, Passes = {p}, NEW r \in Locals, loc' = [loc EXCEPT ![p] = r],
         row' \in [Characters -> Rows], stash' \in [Characters -> Caches],
         refused' \in Refusals, amiss' \subseteq Kinds, PursesOK', odd' \in 0 .. MaxOdd,
         odd' = 0 => r.n >= 0 /\ \A c \in Characters : stash'[c].coins >= 0,
         LocalsOK(r, row', stash', purses'),
         Untouched(r) => row' = refused'.row /\ stash' = refused'.stash,
         refused'.now => r.pc = "idle" /\ row' = refused'.row /\ stash' = refused'.stash
  PROVE  IInv'
<1>1. loc' \in [Passes -> Locals] /\ loc'[p] = r
  BY DEF IInv
<1>2. OddOK'
  BY <1>1 DEF OddOK
<1>. QED
  BY <1>1, <1>2 DEF IInv, RefusedOK

\* What the invariant says of the one pass.
LEMMA PassFacts ==
  ASSUME IInv, NEW p, Passes = {p}
  PROVE  /\ p \in Passes /\ loc[p] \in Locals
         /\ LocalsOK(loc[p], row, stash, purses) /\ RefusedOK(loc[p])
         /\ odd \in 0 .. MaxOdd
         /\ odd = 0 => loc[p].n >= 0 /\ \A c \in Characters : stash[c].coins >= 0
  BY DEF IInv, OddOK

LEMMA IdleIsFine ==
  ASSUME NEW w, NEW s, NEW q
  PROVE  /\ Idle \in Locals /\ LocalsOK(Idle, w, s, q) /\ ~Untouched(Idle)
         /\ Idle.pc = "idle"
  BY DEF Idle, Nothing, Locals, LocalsOK, Untouched

\* A step that ends the call.
LEMMA ReturnStep ==
  ASSUME IInv, NEW p, Passes = {p}, NEW was \in BOOLEAN, Return(p, was),
         was => Untouched(loc[p]) /\ UNCHANGED <<row, stash>>,
         row' \in [Characters -> Rows], stash' \in [Characters -> Caches],
         amiss' \subseteq Kinds, PursesOK', odd' = odd,
         odd = 0 => \A c \in Characters : stash'[c].coins >= 0
  PROVE  IInv'
<1>1. loc' = [loc EXCEPT ![p] = Idle]
  BY DEF Return
<1>2. refused' \in Refusals /\ refused'.now = was
      /\ (was => row' = refused'.row /\ stash' = refused'.stash)
  <2>1. CASE was
    <3>1. row = refused.row /\ stash = refused.stash
      BY <2>1, PassFacts DEF RefusedOK
    <3>2. refused' = [refused EXCEPT !.now = TRUE]
      BY <2>1 DEF Return
    <3>. QED
      BY <2>1, <3>1, <3>2 DEF IInv, Refusals
  <2>2. CASE ~was
    BY <2>2 DEF Return, Refusals
  <2>. QED
    BY <2>1, <2>2
<1>3. Idle.n >= 0
  BY DEF Idle
<1>4. odd' \in 0 .. MaxOdd
  BY PassFacts
<1>. QED
  BY <1>1, <1>2, <1>3, <1>4, IdleIsFine, InvStep

\* What is left alone stays as the invariant has it.
LEMMA StoreStays ==
  ASSUME IInv, UNCHANGED <<stash, purses>>
  PROVE  PursesOK' /\ (odd = 0 => \A c \in Characters : stash'[c].coins >= 0)
  BY DEF IInv, PursesOK, OddOK

\* A step within the call that leaves the store alone.
LEMMA LocalStep ==
  ASSUME IInv, NEW p, Passes = {p}, NEW r \in Locals, loc' = [loc EXCEPT ![p] = r],
         ~At(p, "idle"), UNCHANGED <<row, stash, purses, began, refused, odd, amiss>>,
         r.n = loc[p].n, LocalsOK(r, row, stash, purses), Untouched(r) => Untouched(loc[p])
  PROVE  IInv'
<1>1. ~refused.now /\ (Untouched(r) => row = refused.row /\ stash = refused.stash)
  BY PassFacts DEF At, RefusedOK
<1>2. /\ odd' \in 0 .. MaxOdd /\ PursesOK'
      /\ odd' = 0 => r.n >= 0 /\ \A c \in Characters : stash'[c].coins >= 0
  BY PassFacts, StoreStays
<1>3. /\ row' \in [Characters -> Rows] /\ stash' \in [Characters -> Caches]
      /\ refused' \in Refusals /\ amiss' \subseteq Kinds
  BY DEF IInv
<1>4. /\ LocalsOK(r, row', stash', purses')
      /\ Untouched(r) => row' = refused'.row /\ stash' = refused'.stash
      /\ refused'.now => r.pc = "idle" /\ row' = refused'.row /\ stash' = refused'.stash
  BY <1>1
<1>. QED
  BY <1>2, <1>3, <1>4, InvStep

\* The locals a call begins with.
Started(tool, pair, n) ==
  [Idle EXCEPT !.pc = IF tool \in Retrieving THEN "find" ELSE "readX",
               !.tool = tool, !.x = pair[1], !.n = n,
               !.y = IF tool \in TwoCharacters THEN pair[2] ELSE "nobody"]

LEMMA CallKeepsInv ==
  ASSUME IInv, NEW p, Passes = {p}, Call(p)
  PROVE  IInv'
<1>0. PICK tool \in Tools, pair \in Pairs :
        \E n \in IF tool \in Currency THEN Amounts ELSE {0} :
          /\ loc' = [loc EXCEPT ![p] = Started(tool, pair, n)]
          /\ odd' = odd + IF n < 0 \/ (tool \in TwoCharacters /\ pair[1] = pair[2]) THEN 1 ELSE 0
          /\ odd' <= MaxOdd
  BY DEF Call, Started
<1>1. PICK n \in IF tool \in Currency THEN Amounts ELSE {0} :
        /\ loc' = [loc EXCEPT ![p] = Started(tool, pair, n)]
        /\ odd' = odd + IF n < 0 \/ (tool \in TwoCharacters /\ pair[1] = pair[2]) THEN 1 ELSE 0
        /\ odd' <= MaxOdd
  BY <1>0
<1> DEFINE r == Started(tool, pair, n)
<1>2. pair[1] \in Characters /\ pair[2] \in Characters /\ n \in Int /\ tool \in AllTools
  BY ToolsAssumption, AmountsAssumption
<1>3. /\ r.tool = tool /\ r.x = pair[1] /\ r.n = n
      /\ r.y = IF tool \in TwoCharacters THEN pair[2] ELSE "nobody"
      /\ r.pc = IF tool \in Retrieving THEN "find" ELSE "readX"
  BY DEF Started, Idle
<1>4. r \in Locals
  BY <1>2 DEF Started, Locals, Idle, Nothing
<1> HIDE DEF r
<1>5. LocalsOK(r, row, stash, purses)
  BY <1>2, <1>3 DEF LocalsOK
<1>6. refused' = [now |-> FALSE, row |-> row, stash |-> stash] /\ UNCHANGED <<row, stash, purses, amiss>>
  BY DEF Call
<1>7. refused' \in Refusals
  BY <1>6 DEF IInv, Refusals
<1>8. /\ odd' \in 0 .. MaxOdd /\ PursesOK'
      /\ odd' = 0 => r.n >= 0 /\ \A c \in Characters : stash'[c].coins >= 0
  <2>1. odd \in Nat /\ MaxOdd \in Nat
    BY PassFacts, AmountsAssumption
  <2>2. odd' \in 0 .. MaxOdd /\ (odd' = 0 => odd = 0 /\ n >= 0)
    BY <1>1, <1>2, <2>1
  <2>. QED
    BY <1>3, <1>6, <2>2, StoreStays
<1>9. /\ row' \in [Characters -> Rows] /\ stash' \in [Characters -> Caches] /\ amiss' \subseteq Kinds
      /\ LocalsOK(r, row', stash', purses') /\ loc' = [loc EXCEPT ![p] = r]
      /\ row' = refused'.row /\ stash' = refused'.stash /\ ~refused'.now
  BY <1>1, <1>5, <1>6 DEF IInv, r
<1>. QED
  BY <1>4, <1>7, <1>8, <1>9, InvStep

LEMMA FindKeepsInv ==
  ASSUME IInv, NEW p, Passes = {p}, Find(p)
  PROVE  IInv'
<1>1. /\ loc[p] \in Locals /\ LocalsOK(loc[p], row, stash, purses) /\ loc[p].pc = "find"
      /\ loc[p].tool \in Retrieving /\ loc[p].x \in Characters /\ ~At(p, "idle")
  BY PassFacts DEF Find, At, LocalsOK
<1>2. CASE loc[p].tool = "retrieve_item"
  <2>1. PICK id \in stash[loc[p].x].items : loc' = [loc EXCEPT ![p].pc = "delete", ![p].id = id]
    BY <1>2 DEF Find
  <2> DEFINE r == [loc[p] EXCEPT !.pc = "delete", !.id = id]
  <2>2. id \in Ids
    BY <1>1 DEF IInv
  <2>3. r \in Locals
    BY <1>1, <2>2 DEF Locals
  <2>4. loc' = [loc EXCEPT ![p] = r]
    BY <1>1, <2>1 DEF IInv, Locals
  <2>5. /\ r.pc = "delete" /\ r.id = id /\ r.x = loc[p].x /\ r.y = loc[p].y
        /\ r.tool = loc[p].tool /\ r.n = loc[p].n
    BY <1>1 DEF Locals
  <2> HIDE DEF r
  <2>6. LocalsOK(r, row, stash, purses) /\ Untouched(loc[p])
    BY <1>1, <1>2, <2>5 DEF LocalsOK, Untouched
  <2>. QED
    BY <1>1, <2>3, <2>4, <2>5, <2>6, LocalStep DEF Find
<1>3. CASE loc[p].tool = "retrieve_currency"
  <2> DEFINE r == [loc[p] EXCEPT !.pc = "delete"]
  <2>1. r \in Locals
    BY <1>1 DEF Locals
  <2>2. loc' = [loc EXCEPT ![p] = r] /\ loc[p].n <= stash[loc[p].x].coins
    BY <1>1, <1>3 DEF Find, Goto, IInv, Locals
  <2>3. r.pc = "delete" /\ r.n = loc[p].n /\ r.x = loc[p].x /\ r.y = loc[p].y /\ r.tool = loc[p].tool
    BY <1>1 DEF Locals
  <2>5. loc[p].x \notin purses => r.n <= 0
    BY <1>1, <2>2, <2>3 DEF IInv, PursesOK
  <2> HIDE DEF r
  <2>4. LocalsOK(r, row, stash, purses) /\ Untouched(loc[p])
    BY <1>1, <1>3, <2>2, <2>3, <2>5 DEF LocalsOK, Untouched
  <2>. QED
    BY <1>1, <2>1, <2>2, <2>3, <2>4, LocalStep DEF Find
<1>. QED
  BY <1>1, <1>2, <1>3

LEMMA FindNothingKeepsInv ==
  ASSUME IInv, NEW p, Passes = {p}, FindNothing(p)
  PROVE  IInv'
<1>1. Untouched(loc[p])
  BY PassFacts DEF FindNothing, At, LocalsOK, Untouched
<1>2. UNCHANGED <<row, stash, purses, odd, amiss>> /\ Return(p, TRUE)
  BY DEF FindNothing
<1>. QED
  BY <1>1, <1>2, StoreStays, ReturnStep DEF IInv

\* What deleting takes from a cache: the row that was found, or coins.
LEMMA DeleteFacts ==
  ASSUME IInv, NEW p, Passes = {p}, Delete(p)
  PROVE  /\ loc[p].x \in Characters /\ stash[loc[p].x] \in Caches
         /\ stash' = [stash EXCEPT ![loc[p].x] =
              IF loc[p].tool = "retrieve_item"
              THEN [items |-> stash[loc[p].x].items \ {loc[p].id}, coins |-> stash[loc[p].x].coins]
              ELSE [items |-> stash[loc[p].x].items,
                    coins |-> stash[loc[p].x].coins - IF Rowless(loc[p]) THEN 0 ELSE loc[p].n]]
         /\ stash' \in [Characters -> Caches]
         /\ PursesOK'
         /\ odd = 0 => \A c \in Characters : stash'[c].coins >= 0
<1> DEFINE x == loc[p].x
           gone == IF Rowless(loc[p]) THEN 0 ELSE loc[p].n
<1>1. /\ loc[p] \in Locals /\ LocalsOK(loc[p], row, stash, purses) /\ loc[p].pc = "delete"
      /\ loc[p].tool \in Retrieving /\ x \in Characters /\ loc[p].n \in Int
  BY PassFacts DEF Delete, At, LocalsOK, Locals
<1>2. stash[x] \in Caches /\ gone \in Int
  BY <1>1 DEF IInv
<1>3. stash' = [stash EXCEPT ![x] =
        IF loc[p].tool = "retrieve_item"
        THEN [items |-> stash[x].items \ {loc[p].id}, coins |-> stash[x].coins]
        ELSE [items |-> stash[x].items, coins |-> stash[x].coins - gone]]
  BY <1>1 DEF Delete, IInv
<1>4. stash[x].coins - gone \in Int
  BY <1>2
<1> DEFINE left == IF loc[p].tool = "retrieve_item" THEN stash[x].coins ELSE stash[x].coins - gone
<1>5. left \in Int /\ stash'[x].coins = left
      /\ \A c \in Characters : c # x => stash'[c] = stash[c]
  BY <1>1, <1>2, <1>3, <1>4 DEF IInv
<1>6. stash' \in [Characters -> Caches]
  BY <1>1, <1>2, <1>3, <1>4 DEF IInv
<1>7. x \notin purses => left = stash[x].coins
  BY <1>1, <1>2 DEF Rowless
<1>8. left >= 0 \/ loc[p].tool = "retrieve_item" \/ Rowless(loc[p])
  BY <1>1, <1>2 DEF LocalsOK
<1>9. odd = 0 => left >= 0
  BY <1>1, <1>2, <1>8, PassFacts
<1>10. PursesOK'
  <2>1. purses' = purses
    BY DEF Delete
  <2>. QED
    BY <1>5, <1>7, <2>1 DEF IInv, PursesOK
<1>11. odd = 0 => \A c \in Characters : stash'[c].coins >= 0
  BY <1>5, <1>9, PassFacts
<1>. QED
  BY <1>1, <1>2, <1>3, <1>6, <1>10, <1>11

LEMMA DeleteKeepsInv ==
  ASSUME IInv, NEW p, Passes = {p}, Delete(p)
  PROVE  IInv'
<1>1. /\ loc[p] \in Locals /\ LocalsOK(loc[p], row, stash, purses) /\ loc[p].pc = "delete"
      /\ loc[p].tool \in Retrieving /\ ~refused.now
  BY PassFacts DEF Delete, At, LocalsOK, RefusedOK
<1> DEFINE r == [loc[p] EXCEPT !.pc = "readX"]
<1>2. /\ r \in Locals /\ r.pc = "readX" /\ r.n = loc[p].n
      /\ r.tool = loc[p].tool /\ r.x = loc[p].x /\ r.y = loc[p].y
  BY <1>1 DEF Locals
<1>3. loc' = [loc EXCEPT ![p] = r]
  BY <1>1 DEF Delete, Goto, IInv, Locals
<1> HIDE DEF r
<1>4. UNCHANGED <<row, purses, refused, odd, amiss>>
  BY DEF Delete
<1>5. LocalsOK(r, row, stash', purses) /\ ~Untouched(r)
  BY <1>1, <1>2 DEF LocalsOK, Untouched
<1>6. odd' \in 0 .. MaxOdd /\ (odd' = 0 => r.n >= 0)
  BY <1>2, <1>4, PassFacts
<1>. QED
  BY <1>1, <1>2, <1>3, <1>4, <1>5, <1>6, DeleteFacts, InvStep DEF IInv

LEMMA ReadXKeepsInv ==
  ASSUME IInv, NEW p, Passes = {p}, ReadX(p)
  PROVE  IInv'
<1>1. /\ loc[p] \in Locals /\ LocalsOK(loc[p], row, stash, purses) /\ loc[p].pc = "readX"
      /\ loc[p].x \in Characters /\ ~At(p, "idle")
  BY PassFacts DEF ReadX, At, LocalsOK
<1> DEFINE l == IF loc[p].tool \in TwoCharacters THEN "readY" ELSE "engine"
           r == [loc[p] EXCEPT !.pc = l, !.a = row[loc[p].x]]
<1>2. r \in Locals /\ loc' = [loc EXCEPT ![p] = r]
  <2>1. row[loc[p].x] \in Rows
    BY <1>1 DEF IInv
  <2>2. r \in Locals
    <3>1. l \in Labels
      OBVIOUS
    <3> HIDE DEF l
    <3>. QED
      BY <1>1, <2>1, <3>1 DEF Locals
  <2>3. loc' = [loc EXCEPT ![p] = r]
    BY <1>1 DEF ReadX, IInv, Locals
  <2>. QED
    BY <2>2, <2>3
<1>3. /\ r.pc = IF loc[p].tool \in TwoCharacters THEN "readY" ELSE "engine"
      /\ r.a = row[r.x] /\ r.n = loc[p].n
      /\ r.tool = loc[p].tool /\ r.x = loc[p].x /\ r.y = loc[p].y
  BY <1>1 DEF Locals
<1> HIDE DEF r
<1>4. LocalsOK(r, row, stash, purses)
  BY <1>1, <1>3 DEF LocalsOK
<1>5. Untouched(r) => Untouched(loc[p])
  BY <1>1, <1>3 DEF Untouched
<1>. QED
  BY <1>1, <1>2, <1>3, <1>4, <1>5, LocalStep DEF ReadX

LEMMA ReadYKeepsInv ==
  ASSUME IInv, NEW p, Passes = {p}, ReadY(p)
  PROVE  IInv'
<1>1. /\ loc[p] \in Locals /\ LocalsOK(loc[p], row, stash, purses) /\ loc[p].pc = "readY"
      /\ loc[p].tool \in TwoCharacters /\ loc[p].y \in Characters /\ ~At(p, "idle")
  BY PassFacts DEF ReadY, At, LocalsOK
<1> DEFINE r == [loc[p] EXCEPT !.pc = "engine", !.b = row[loc[p].y]]
<1>2. r \in Locals /\ loc' = [loc EXCEPT ![p] = r]
  BY <1>1 DEF ReadY, IInv, Locals
<1>3. /\ r.pc = "engine" /\ r.a = loc[p].a /\ r.b = row[r.y] /\ r.n = loc[p].n
      /\ r.tool = loc[p].tool /\ r.x = loc[p].x /\ r.y = loc[p].y
  BY <1>1 DEF Locals
<1> HIDE DEF r
<1>4. LocalsOK(r, row, stash, purses) /\ (Untouched(r) => Untouched(loc[p]))
  BY <1>1, <1>3 DEF LocalsOK, Untouched
<1>. QED
  BY <1>1, <1>2, <1>3, <1>4, LocalStep DEF ReadY

LEMMA EngineKeepsInv ==
  ASSUME IInv, NEW p, Passes = {p}, Engine(p)
  PROVE  IInv'
<1>1. /\ loc[p] \in Locals /\ LocalsOK(loc[p], row, stash, purses) /\ loc[p].pc = "engine"
      /\ CanMove(loc[p]) /\ ~At(p, "idle")
  BY PassFacts DEF Engine, At, LocalsOK
<1> DEFINE l == IF loc[p].tool \in Retrieving THEN "saveSecond" ELSE "saveFirst"
           r == [loc[p] EXCEPT !.pc = l]
<1>2. r \in Locals /\ loc' = [loc EXCEPT ![p] = r]
  <2>1. r \in Locals
    BY <1>1 DEF Locals
  <2>2. loc' = [loc EXCEPT ![p].pc = l]
    BY <1>1 DEF Engine, Goto
  <2>. QED
    BY <2>1, <2>2 DEF IInv
<1>3. /\ r.pc = l /\ r.a = loc[p].a /\ r.b = loc[p].b /\ r.n = loc[p].n
      /\ r.tool = loc[p].tool /\ r.x = loc[p].x /\ r.y = loc[p].y
  BY <1>1 DEF Locals
<1>4. CanMove(r)
  BY <1>1, <1>3 DEF CanMove, After
<1> HIDE DEF r
<1>5. LocalsOK(r, row, stash, purses) /\ (Untouched(r) => Untouched(loc[p]))
  BY <1>1, <1>3, <1>4 DEF LocalsOK, Untouched, Twice
<1>. QED
  BY <1>1, <1>2, <1>3, <1>5, LocalStep DEF Engine

LEMMA RefuseKeepsInv ==
  ASSUME IInv, NEW p, Passes = {p}, Refuse(p)
  PROVE  IInv'
<1>1. Untouched(loc[p])
  BY DEF Refuse, At, Untouched
<1>2. UNCHANGED <<row, stash, purses, odd, amiss>> /\ Return(p, TRUE)
  BY DEF Refuse
<1>. QED
  BY <1>1, <1>2, StoreStays, ReturnStep DEF IInv

\* Writing a side writes what a row can hold, and leaves every other row alone.
LEMMA SaveFacts ==
  ASSUME IInv, NEW r \in Locals, LocalsOK(r, row, stash, purses), r.pc \in {"saveFirst", "saveSecond"},
         NEW side, side = "x" \/ (side = "y" /\ r.tool \in TwoCharacters),
         SaveCharacter(r, side)
  PROVE  /\ row' \in [Characters -> Rows]
         /\ side = "x" => row' = [row EXCEPT ![r.x] = After(r, "x", r.a)]
         /\ side = "y" => row' = [row EXCEPT ![r.y] = After(r, "y", r.b)]
<1>1. /\ r.x \in Characters /\ r.tool \in AllTools /\ CanMove(r)
      /\ r.tool \in TwoCharacters => r.y \in Characters
  BY DEF LocalsOK
<1>2. CASE side = "x"
  BY <1>1, <1>2, WrittenIsRow DEF SaveCharacter, Who, IInv
<1>3. CASE side = "y"
  BY <1>1, <1>3, WrittenIsRow DEF SaveCharacter, Who, IInv
<1>. QED
  BY <1>2, <1>3

\* After the first write the other side is as it was read; of a character
\* named twice there is what was written.
LEMMA FirstWriteFacts ==
  ASSUME IInv, NEW p, Passes = {p}, SaveFirst(p)
  PROVE  /\ row' \in [Characters -> Rows]
         /\ ~Twice(loc[p]) /\ loc[p].tool = "vendor_sell_item" => row'[loc[p].x] = row[loc[p].x]
         /\ ~Twice(loc[p]) /\ loc[p].tool \in TwoCharacters \ {"vendor_sell_item"} =>
              row'[loc[p].y] = row[loc[p].y]
         /\ Twice(loc[p]) =>
              /\ loc[p].a = row[loc[p].x] /\ loc[p].a = loc[p].b
              /\ row' = [row EXCEPT ![loc[p].x] = After(loc[p], FirstSide(loc[p].tool), loc[p].a)]
<1> DEFINE r == loc[p]
<1>1. /\ r \in Locals /\ LocalsOK(r, row, stash, purses) /\ r.pc = "saveFirst" /\ row \in [Characters -> Rows]
      /\ r.x \in Characters /\ (r.tool \in TwoCharacters => r.y \in Characters)
      /\ r.a = row[r.x] /\ (r.tool \in TwoCharacters => r.b = row[r.y])
      /\ SaveCharacter(r, FirstSide(r.tool))
  BY PassFacts DEF SaveFirst, At, LocalsOK, IInv
<1> HIDE DEF r
<1>2. CASE r.tool = "vendor_sell_item"
  <2>1. FirstSide(r.tool) = "y" /\ r.tool \in TwoCharacters
    BY <1>2 DEF FirstSide
  <2>2. row' \in [Characters -> Rows] /\ row' = [row EXCEPT ![r.y] = After(r, "y", r.b)]
    BY <1>1, <2>1, SaveFacts
  <2>. QED
    BY <1>1, <1>2, <2>1, <2>2 DEF Twice, r
<1>3. CASE r.tool # "vendor_sell_item"
  <2>1. FirstSide(r.tool) = "x"
    BY <1>3 DEF FirstSide
  <2>2. row' \in [Characters -> Rows] /\ row' = [row EXCEPT ![r.x] = After(r, "x", r.a)]
    BY <1>1, <2>1, SaveFacts
  <2>. QED
    BY <1>1, <1>3, <2>1, <2>2 DEF Twice, r
<1>. QED
  BY <1>2, <1>3

LEMMA SaveFirstKeepsInv ==
  ASSUME IInv, NEW p, Passes = {p}, SaveFirst(p)
  PROVE  IInv'
<1>1. /\ loc[p] \in Locals /\ LocalsOK(loc[p], row, stash, purses) /\ loc[p].pc = "saveFirst"
      /\ loc[p].tool \in AllTools \ Retrieving /\ ~refused.now
      /\ loc[p].x \in Characters /\ CanMove(loc[p])
      /\ loc[p].tool \in TwoCharacters => loc[p].y \in Characters
  BY PassFacts DEF SaveFirst, At, LocalsOK, RefusedOK
<1>2. row' \in [Characters -> Rows]
  BY FirstWriteFacts
<1>3. UNCHANGED <<stash, purses, odd, amiss>>
  BY DEF SaveFirst
<1>4. CASE Return(p, FALSE)
  BY <1>2, <1>3, <1>4, StoreStays, ReturnStep DEF IInv
<1>5. ASSUME NEW r \in Locals, r = [loc[p] EXCEPT !.pc = "saveSecond", !.id = r.id],
             loc' = [loc EXCEPT ![p] = r], loc[p].tool # "apply_effect", UNCHANGED refused,
             r.tool = "stash_item" => r.id \in Ids \ stash[r.x].items
      PROVE  IInv'
  <2>1. /\ r.pc = "saveSecond" /\ r.a = loc[p].a /\ r.b = loc[p].b /\ r.n = loc[p].n
        /\ r.tool = loc[p].tool /\ r.x = loc[p].x /\ r.y = loc[p].y
    BY <1>1, <1>5 DEF Locals
  <2>2. CanMove(r) /\ \A side, v : After(r, side, v) = After(loc[p], side, v)
    BY <1>1, <2>1 DEF CanMove, After
  <2>3. Twice(r) <=> Twice(loc[p])
    BY <2>1 DEF Twice
  <2>4. Twice(r) => r.a = r.b /\ row'[r.x] = After(r, FirstSide(r.tool), r.a)
    BY <1>1, <2>1, <2>2, <2>3, FirstWriteFacts DEF IInv
  <2>5. /\ ~Twice(r) /\ r.tool \in Retrieving \cup {"vendor_sell_item"} => r.a = row'[r.x]
        /\ ~Twice(r) /\ r.tool \in TwoCharacters \ {"vendor_sell_item"} => r.b = row'[r.y]
    BY <1>1, <2>1, <2>3, FirstWriteFacts DEF LocalsOK
  <2>6. LocalsOK(r, row', stash, purses) /\ ~Untouched(r)
    BY <1>1, <1>5, <2>1, <2>2, <2>4, <2>5 DEF LocalsOK, Untouched
  <2>7. /\ odd' \in 0 .. MaxOdd /\ PursesOK'
        /\ odd' = 0 => r.n >= 0 /\ \A c \in Characters : stash'[c].coins >= 0
    BY <1>3, <2>1, PassFacts, StoreStays
  <2>8. stash' \in [Characters -> Caches] /\ refused' \in Refusals /\ amiss' \subseteq Kinds
    BY <1>3, <1>5 DEF IInv
  <2>. QED
    BY <1>1, <1>2, <1>3, <1>5, <2>6, <2>7, <2>8, InvStep
<1>6. CASE loc[p].tool = "stash_item" /\ UNCHANGED refused
  <2>1. PICK id \in Ids \ UNION {stash[c].items : c \in Characters} :
          loc' = [loc EXCEPT ![p].pc = "saveSecond", ![p].id = id]
    BY <1>6 DEF SaveFirst
  <2> DEFINE r == [loc[p] EXCEPT !.pc = "saveSecond", !.id = id]
  <2>2. r \in Locals /\ r.id = id /\ r.x = loc[p].x /\ loc' = [loc EXCEPT ![p] = r]
    BY <1>1, <2>1 DEF Locals, IInv
  <2>3. id \notin stash[loc[p].x].items
    BY <1>1, <2>1
  <2>. QED
    BY <1>5, <1>6, <2>2, <2>3
<1>7. CASE loc[p].tool \notin {"apply_effect", "stash_item"} /\ Goto(p, "saveSecond") /\ UNCHANGED refused
  <2> DEFINE r == [loc[p] EXCEPT !.pc = "saveSecond", !.id = loc[p].id]
  <2>1. /\ r \in Locals /\ r.id = loc[p].id /\ r.tool = loc[p].tool
        /\ loc' = [loc EXCEPT ![p] = r]
    BY <1>1, <1>7 DEF Goto, Locals, IInv
  <2>. QED
    BY <1>5, <1>7, <2>1
<1>. QED
  BY <1>4, <1>6, <1>7 DEF SaveFirst

LEMMA SaveSecondKeepsInv ==
  ASSUME IInv, NEW p, Passes = {p}, SaveSecond(p)
  PROVE  IInv'
<1>1. /\ loc[p] \in Locals /\ LocalsOK(loc[p], row, stash, purses) /\ loc[p].pc = "saveSecond"
      /\ loc[p].tool \in TwoCharacters \cup Retrieving
  BY PassFacts DEF SaveSecond, At, LocalsOK
<1>2. LastSide(loc[p].tool) = "x" \/ (LastSide(loc[p].tool) = "y" /\ loc[p].tool \in TwoCharacters)
  BY <1>1 DEF LastSide, FirstSide
<1>3. row' \in [Characters -> Rows]
  BY <1>1, <1>2, SaveFacts DEF SaveSecond
<1>4. amiss' \subseteq Kinds /\ UNCHANGED <<stash, purses, odd>> /\ Return(p, FALSE)
  BY DEF SaveSecond, IInv, Kinds
<1>. QED
  BY <1>3, <1>4, StoreStays, ReturnStep DEF IInv

LEMMA DepositKeepsInv ==
  ASSUME IInv, NEW p, Passes = {p}, Deposit(p)
  PROVE  IInv'
<1> DEFINE x == loc[p].x
<1>1. /\ loc[p] \in Locals /\ LocalsOK(loc[p], row, stash, purses) /\ loc[p].pc = "saveSecond"
      /\ x \in Characters /\ loc[p].n \in Int /\ loc[p].tool \in Stashing
      /\ stash[x] \in Caches /\ stash \in [Characters -> Caches]
  BY PassFacts DEF Deposit, At, LocalsOK, Locals, IInv
<1> DEFINE ids == IF loc[p].tool = "stash_item" THEN stash[x].items \cup {loc[p].id} ELSE stash[x].items
           coins == IF loc[p].tool = "stash_item" THEN stash[x].coins ELSE stash[x].coins + loc[p].n
<1>2. stash' = [stash EXCEPT ![x] = [items |-> ids, coins |-> coins]]
  BY <1>1 DEF Deposit
<1>3. ids \in SUBSET Ids /\ coins \in Int /\ (odd = 0 => coins >= 0)
  BY <1>1, PassFacts DEF LocalsOK
<1>4. /\ stash' \in [Characters -> Caches] /\ stash'[x].coins = coins
      /\ \A c \in Characters : c # x => stash'[c] = stash[c]
  <2> HIDE DEF ids, coins
  <2>. QED
    BY <1>1, <1>2, <1>3
<1>5. odd = 0 => \A c \in Characters : stash'[c].coins >= 0
  BY <1>3, <1>4, PassFacts
<1>6. PursesOK'
  <2>1. purses' = IF loc[p].tool = "stash_currency" THEN purses \cup {x} ELSE purses
    BY DEF Deposit
  <2>2. loc[p].tool # "stash_currency" => coins = stash[x].coins
    BY <1>1
  <2>. QED
    BY <1>1, <1>4, <2>1, <2>2 DEF IInv, PursesOK
<1>7. UNCHANGED <<row, odd, amiss>> /\ Return(p, FALSE)
  BY DEF Deposit
<1>. QED
  BY <1>4, <1>5, <1>6, <1>7, ReturnStep DEF IInv

LEMMA GiveUpKeepsInv ==
  ASSUME IInv, NEW p, Passes = {p}, GiveUp(p)
  PROVE  IInv'
<1>1. amiss' \subseteq Kinds /\ UNCHANGED <<row, stash, purses, odd>> /\ Return(p, FALSE)
  BY DEF GiveUp, Cost, IInv, Kinds
<1>. QED
  BY <1>1, StoreStays, ReturnStep DEF IInv

LEMMA InitIInv == Init => IInv
<1>. SUFFICES ASSUME Init  PROVE IInv
  OBVIOUS
<1>1. row \in [Characters -> Rows] /\ stash \in [Characters -> Caches]
  BY AmountsAssumption DEF Init
<1>2. PursesOK
  BY DEF Init, PursesOK
<1>3. OddOK
  <2>1. Idle.n >= 0
    BY DEF Idle
  <2>. QED
    BY <2>1, AmountsAssumption DEF Init, OddOK
<1>. QED
  BY <1>1, <1>2, <1>3, IdleIsFine DEF Init, IInv, Refusals, RefusedOK

LEMMA NextPreservesIInv == OnePass /\ IInv /\ [Next]_vars => IInv'
<1>. SUFFICES ASSUME OnePass, IInv, [Next]_vars  PROVE IInv'
  OBVIOUS
<1>1. CASE UNCHANGED vars
  BY <1>1 DEF vars, IInv, RefusedOK, PursesOK, OddOK
<1>2. CASE Next
  <2>1. PICK p \in Passes : Passes = {p}
    BY DEF OnePass
  <2>. QED
    BY <1>2, <2>1, CallKeepsInv, FindKeepsInv, FindNothingKeepsInv, DeleteKeepsInv, ReadXKeepsInv,
       ReadYKeepsInv, EngineKeepsInv, RefuseKeepsInv, SaveFirstKeepsInv, SaveSecondKeepsInv,
       DepositKeepsInv, GiveUpKeepsInv DEF Next, RefuseRetrieval, CutShort
<1>. QED
  BY <1>1, <1>2

LEMMA InvHolds ==
  ASSUME OnePass
  PROVE  Spec => []IInv
  BY InitIInv, NextPreservesIInv, PTL DEF Spec

\* A call that the engine, the cache or the PvP gate refuses leaves every row
\* and every cache as the call found it (vendor.go:204-208, location.go:431,
\* 551), whatever the characters, the calls and the failures before it.
THEOREM RefusedCallsMoveNothing ==
  ASSUME OnePass
  PROVE  Spec => []RefusalsMoveNothing
<1>1. OnePass /\ IInv => RefusalsMoveNothing
  BY DEF OnePass, IInv, RefusedOK, RefusalsMoveNothing
<1>. QED
  BY <1>1, InvHolds, PTL

\* No row ever holds less than nothing, and no cache does unless a call named
\* less than nothing.
THEOREM HoldingsTypeCorrect ==
  ASSUME OnePass
  PROVE  Spec => []TypeOK
<1>1. IInv => TypeOK
  BY DEF IInv, TypeOK, Refusals, Locals, LocalsOK, PursesOK, OddOK, Kinds
<1>. QED
  BY <1>1, InvHolds, PTL

--------------------------------------------------------------------------------
(* The promise.                                                            *)

\* The row and the cache of c as the promise sees them, when r are the locals
\* of the one pass.
RowOf(r, w, q, c) ==
  IF /\ r.pc = "saveSecond" \/ (r.tool \in Retrieving /\ r.pc \in {"readX", "engine"})
     /\ ~(r.tool = "retrieve_currency" /\ r.x \notin q)
     /\ r.tool \notin Stashing /\ c = Who(r, LastSide(r.tool))
  THEN IF Twice(r) THEN r.a ELSE After(r, LastSide(r.tool), w[c])
  ELSE w[c]

CacheOf(r, s, c) ==
  IF r.pc = "saveSecond" /\ r.tool \in Stashing /\ c = r.x
  THEN [items |-> s[c].items \cup IF r.tool = "stash_item" THEN {r.id} ELSE {},
        coins |-> s[c].coins + IF r.tool = "stash_currency" THEN r.n ELSE 0]
  ELSE s[c]

LEMMA ViewIs ==
  ASSUME NEW p, Passes = {p}
  PROVE  /\ Carried = [c \in Characters |-> RowOf(loc[p], row, purses, c)]
         /\ Cached = [c \in Characters |-> CacheOf(loc[p], stash, c)]
<1>1. ASSUME NEW c \in Characters  PROVE Carried[c] = RowOf(loc[p], row, purses, c)
  <2> DEFINE Owes(q) == /\ HalfDone(q) /\ loc[q].tool \notin Stashing
                        /\ c = Who(loc[q], LastSide(loc[q].tool))
  <2>1. Owes(p) => Carried[c] = IF Twice(loc[p]) THEN loc[p].a
                                ELSE After(loc[p], LastSide(loc[p].tool), row[c])
    BY DEF Carried
  <2>2. ~Owes(p) => Carried[c] = row[c]
    BY DEF Carried
  <2>. QED
    BY <2>1, <2>2 DEF RowOf, HalfDone, At, Rowless
<1>2. ASSUME NEW c \in Characters  PROVE Cached[c] = CacheOf(loc[p], stash, c)
  <2> DEFINE Owes(q) == HalfDone(q) /\ loc[q].tool \in Stashing /\ c = loc[q].x
  <2>1. Owes(p) => Cached[c] =
          [items |-> stash[c].items \cup IF loc[p].tool = "stash_item" THEN {loc[p].id} ELSE {},
           coins |-> stash[c].coins + IF loc[p].tool = "stash_currency" THEN loc[p].n ELSE 0]
    BY DEF Cached
  <2>2. ~Owes(p) => Cached[c] = stash[c]
    BY DEF Cached
  <2>. QED
    BY <2>1, <2>2 DEF CacheOf, HalfDone, At, Rowless
<1>. QED
  BY <1>1, <1>2 DEF Carried, Cached

LEMMA NextViewIs ==
  ASSUME NEW p, Passes = {p}
  PROVE  /\ Carried' = [c \in Characters |-> RowOf(loc'[p], row', purses', c)]
         /\ Cached' = [c \in Characters |-> CacheOf(loc'[p], stash', c)]
<1>1. ASSUME NEW c \in Characters  PROVE Carried'[c] = RowOf(loc'[p], row', purses', c)
  <2> DEFINE Owes(q) == /\ HalfDone(q)' /\ loc'[q].tool \notin Stashing
                        /\ c = Who(loc'[q], LastSide(loc'[q].tool))
  <2>1. Owes(p) => Carried'[c] = IF Twice(loc'[p]) THEN loc'[p].a
                                 ELSE After(loc'[p], LastSide(loc'[p].tool), row'[c])
    BY DEF Carried
  <2>2. ~Owes(p) => Carried'[c] = row'[c]
    BY DEF Carried
  <2>. QED
    BY <2>1, <2>2 DEF RowOf, HalfDone, At, Rowless
<1>2. ASSUME NEW c \in Characters  PROVE Cached'[c] = CacheOf(loc'[p], stash', c)
  <2> DEFINE Owes(q) == HalfDone(q)' /\ loc'[q].tool \in Stashing /\ c = loc'[q].x
  <2>1. Owes(p) => Cached'[c] =
          [items |-> stash'[c].items \cup IF loc'[p].tool = "stash_item" THEN {loc'[p].id} ELSE {},
           coins |-> stash'[c].coins + IF loc'[p].tool = "stash_currency" THEN loc'[p].n ELSE 0]
    BY DEF Cached
  <2>2. ~Owes(p) => Cached'[c] = stash'[c]
    BY DEF Cached
  <2>. QED
    BY <2>1, <2>2 DEF CacheOf, HalfDone, At, Rowless
<1>. QED
  BY <1>1, <1>2 DEF Carried, Cached

\* A step the promise does not see.
LEMMA QuietStep ==
  ASSUME NEW p, Passes = {p},
         \A c \in Characters : /\ RowOf(loc'[p], row', purses', c) = RowOf(loc[p], row, purses, c)
                               /\ CacheOf(loc'[p], stash', c) = CacheOf(loc[p], stash, c)
  PROVE  UNCHANGED Promise!vars
  BY ViewIs, NextViewIs DEF Promise!vars

\* Between calls the promise sees the store as it is.
LEMMA ViewOfIdle ==
  ASSUME NEW p, loc[p] = Idle
  PROVE  \A c : RowOf(loc[p], row, purses, c) = row[c] /\ CacheOf(loc[p], stash, c) = stash[c]
  BY DEF RowOf, CacheOf, Idle

LEMMA NextViewOfIdle ==
  ASSUME NEW p, loc'[p] = Idle
  PROVE  \A c : RowOf(loc'[p], row', purses', c) = row'[c] /\ CacheOf(loc'[p], stash', c) = stash'[c]
  BY DEF RowOf, CacheOf, Idle

LEMMA ReadsAreQuiet ==
  ASSUME IInv, NEW p, Passes = {p},
         Call(p) \/ Find(p) \/ FindNothing(p) \/ ReadX(p) \/ ReadY(p) \/ Engine(p) \/ Refuse(p)
  PROVE  UNCHANGED Promise!vars
<1>0. loc[p] \in Locals /\ LocalsOK(loc[p], row, stash, purses) /\ loc \in [Passes -> Locals] /\ p \in Passes
  BY PassFacts DEF IInv
<1>1. UNCHANGED <<row, stash, purses>>
  BY DEF Call, Find, FindNothing, ReadX, ReadY, Engine, Refuse
<1>2. CASE Call(p)
  <2>1. loc'[p].pc \in {"find", "readX"} /\ (loc'[p].pc = "readX" => loc'[p].tool \notin Retrieving)
    <3>1. PICK tool \in Tools, pair \in Pairs :
            \E n \in IF tool \in Currency THEN Amounts ELSE {0} :
              loc' = [loc EXCEPT ![p] = Started(tool, pair, n)]
      BY <1>2 DEF Call, Started
    <3>2. PICK n \in IF tool \in Currency THEN Amounts ELSE {0} :
            loc'[p] = Started(tool, pair, n)
      BY <1>0, <3>1
    <3>. QED
      BY <3>2 DEF Idle, Started
  <2>2. loc[p].pc = "idle"
    BY <1>2 DEF Call, At
  <2>. QED
    BY <1>1, <2>1, <2>2, QuietStep DEF RowOf, CacheOf
<1>3. CASE Find(p)
  <2>1. loc'[p].pc = "delete" /\ loc[p].pc = "find"
    BY <1>0, <1>3 DEF Find, Goto, At, Locals
  <2>. QED
    BY <1>1, <2>1, QuietStep DEF RowOf, CacheOf
<1>4. CASE FindNothing(p)
  <2>1. loc'[p] = Idle /\ loc[p].pc = "find"
    BY <1>0, <1>4 DEF FindNothing, Return, At
  <2>2. \A c : RowOf(loc[p], row, purses, c) = row[c] /\ CacheOf(loc[p], stash, c) = stash[c]
    BY <2>1 DEF RowOf, CacheOf
  <2>3. \A c : RowOf(loc'[p], row', purses', c) = row[c] /\ CacheOf(loc'[p], stash', c) = stash[c]
    BY <1>1, <2>1, NextViewOfIdle
  <2>. QED
    BY <2>2, <2>3, QuietStep
<1>5. CASE ReadX(p)
  <2>1. /\ loc[p].pc = "readX" /\ loc'[p].pc \in {"readY", "engine"} /\ loc'[p].tool = loc[p].tool
        /\ loc'[p].x = loc[p].x /\ loc'[p].y = loc[p].y /\ loc'[p].n = loc[p].n
        /\ (loc'[p].pc = "engine" <=> loc[p].tool \notin TwoCharacters)
    BY <1>0, <1>5 DEF ReadX, At, Locals
  <2>. QED
    BY <1>1, <2>1, QuietStep DEF RowOf, CacheOf, After, Who, LastSide, Twice
<1>6. CASE ReadY(p)
  <2>1. loc[p].pc = "readY" /\ loc'[p].pc = "engine" /\ loc'[p].tool = loc[p].tool /\ loc[p].tool \in TwoCharacters
    BY <1>0, <1>6 DEF ReadY, At, Locals, LocalsOK
  <2>. QED
    BY <1>1, <2>1, QuietStep DEF RowOf, CacheOf
<1>7. CASE Engine(p)
  <2>1. /\ loc[p].pc = "engine" /\ loc'[p].tool = loc[p].tool
        /\ loc'[p].x = loc[p].x /\ loc'[p].y = loc[p].y /\ loc'[p].n = loc[p].n
        /\ loc'[p].pc = IF loc[p].tool \in Retrieving THEN "saveSecond" ELSE "saveFirst"
    BY <1>0, <1>7 DEF Engine, Goto, At, Locals
  <2>. QED
    BY <1>1, <2>1, QuietStep DEF RowOf, CacheOf, After, Who, LastSide, Twice
<1>8. CASE Refuse(p)
  <2>1. loc'[p] = Idle /\ loc[p].pc = "engine" /\ loc[p].tool \notin Retrieving
    BY <1>0, <1>8 DEF Refuse, Return, At
  <2>2. \A c : RowOf(loc[p], row, purses, c) = row[c] /\ CacheOf(loc[p], stash, c) = stash[c]
    BY <2>1 DEF RowOf, CacheOf
  <2>3. \A c : RowOf(loc'[p], row', purses', c) = row[c] /\ CacheOf(loc'[p], stash', c) = stash[c]
    BY <1>1, <2>1, NextViewOfIdle
  <2>. QED
    BY <2>2, <2>3, QuietStep
<1>. QED
  BY <1>2, <1>3, <1>4, <1>5, <1>6, <1>7, <1>8

\* The last write, and what is due before it.
LEMMA LastWriteFacts ==
  ASSUME IInv, NEW p, Passes = {p}, SaveSecond(p)
  PROVE  /\ loc[p] \in Locals /\ LocalsOK(loc[p], row, stash, purses) /\ loc[p].pc = "saveSecond"
         /\ loc[p].x \in Characters /\ loc[p].tool \in TwoCharacters \cup Retrieving
         /\ Who(loc[p], LastSide(loc[p].tool)) \in Characters
         /\ row' = [row EXCEPT ![Who(loc[p], LastSide(loc[p].tool))] =
              After(loc[p], LastSide(loc[p].tool), IF LastSide(loc[p].tool) = "x" THEN loc[p].a ELSE loc[p].b)]
         /\ row' \in [Characters -> Rows] /\ stash' = stash
         /\ Carried' = row' /\ Cached' = stash /\ Cached = stash
<1>0. /\ loc[p] \in Locals /\ LocalsOK(loc[p], row, stash, purses) /\ loc[p].pc = "saveSecond"
      /\ loc[p].tool \in TwoCharacters \cup Retrieving
      /\ loc'[p] = Idle /\ loc[p].x \in Characters /\ stash \in [Characters -> Caches]
  BY PassFacts DEF IInv, SaveSecond, At, LocalsOK, Return
<1>1. LastSide(loc[p].tool) = "x" \/ (LastSide(loc[p].tool) = "y" /\ loc[p].tool \in TwoCharacters)
  BY <1>0 DEF LastSide, FirstSide
<1>2. row' \in [Characters -> Rows] /\ stash' = stash
  BY <1>0, <1>1, SaveFacts DEF SaveSecond
<1>3. Who(loc[p], LastSide(loc[p].tool)) \in Characters
  BY <1>0, <1>1 DEF LocalsOK, Who
<1>4. \A c \in Characters : RowOf(loc'[p], row', purses', c) = row'[c] /\ CacheOf(loc'[p], stash', c) = stash[c]
  BY <1>0, <1>2, NextViewOfIdle
<1>5. \A c \in Characters : CacheOf(loc[p], stash, c) = stash[c]
  BY <1>0 DEF CacheOf
<1>6. Carried' = row' /\ Cached' = stash /\ Cached = stash
  BY <1>0, <1>2, <1>4, <1>5, ViewIs, NextViewIs
<1>. QED
  BY <1>0, <1>2, <1>3, <1>6 DEF SaveSecond, SaveCharacter

\* The last write was counted when it became due, but for a character named
\* twice and a cache without a row.
LEMMA LastWriteIsQuiet ==
  ASSUME IInv, NEW p, Passes = {p}, SaveSecond(p), ~Twice(loc[p]), ~Rowless(loc[p])
  PROVE  UNCHANGED Promise!vars
<1> DEFINE r == loc[p]
           c == Who(r, LastSide(r.tool))
<1>0. /\ LocalsOK(r, row, stash, purses) /\ r.pc = "saveSecond" /\ c \in Characters
      /\ r.tool \in TwoCharacters \cup Retrieving
      /\ row' = [row EXCEPT ![c] = After(r, LastSide(r.tool), IF LastSide(r.tool) = "x" THEN r.a ELSE r.b)]
      /\ Carried' = row' /\ UNCHANGED Cached
  BY LastWriteFacts
<1>1. (IF LastSide(r.tool) = "x" THEN r.a ELSE r.b) = row[c]
  BY <1>0 DEF LocalsOK, Who, LastSide, FirstSide
<1>2. \A d \in Characters : RowOf(r, row, purses, d) = IF d = c THEN After(r, LastSide(r.tool), row[c]) ELSE row[d]
  BY <1>0 DEF RowOf, Rowless
<1>3. row \in [Characters -> Rows]
  BY DEF IInv
<1>4. Carried = [row EXCEPT ![c] = After(r, LastSide(r.tool), row[c])]
  BY <1>0, <1>2, <1>3, ViewIs
<1>. QED
  BY <1>0, <1>1, <1>4 DEF Promise!vars

\* Who gives to itself is written a second time.
LEMMA DoublesImplement ==
  ASSUME IInv, NEW p, Passes = {p}, SaveSecond(p), Twice(loc[p])
  PROVE  Promise!Doubles
<1> DEFINE r == loc[p]
           x == loc[p].x
           m == Moved(r.tool, r.n)
<1>0. /\ r \in Locals /\ LocalsOK(r, row, stash, purses) /\ r.pc = "saveSecond" /\ x \in Characters
      /\ r.tool \in TwoCharacters /\ r.y = x /\ r.a = r.b /\ r.a \in Rows /\ CanMove(r) /\ r.n \in Int
      /\ row \in [Characters -> Rows] /\ r.tool \in AllTools
      /\ r.tool \in Currency => r.n \in Amounts
  BY LastWriteFacts DEF Twice, LocalsOK, Locals, IInv
<1>1. Carried = [row EXCEPT ![x] = r.a]
  <2>1. \A d \in Characters : RowOf(r, row, purses, d) = IF d = x THEN r.a ELSE row[d]
    BY <1>0 DEF RowOf, Who
  <2>. QED
    BY <1>0, <2>1, ViewIs
<1>2. Carried' = [row EXCEPT ![x] = After(r, LastSide(r.tool), r.a)] /\ UNCHANGED Cached
  BY <1>0, LastWriteFacts DEF Who
<1>3. Carried[x] = r.a /\ \A v : After(r, LastSide(r.tool), r.a) = v => Carried' = [Carried EXCEPT ![x] = v]
  BY <1>0, <1>1, <1>2
<1>4. Covers(Minus(r.a, m)) /\ Covers(Plus(r.a, m))
  BY <1>0 DEF CanMove, After
<1>5. After(r, LastSide(r.tool), r.a) = IF r.tool = "vendor_sell_item" THEN Minus(r.a, m) ELSE Plus(r.a, m)
  BY <1>0 DEF After, LastSide, FirstSide
<1>6. Price \in Nat /\ r.a.items \in Nat /\ r.a.coins \in Nat
  BY <1>0, AmountsAssumption
<1> HIDE DEF m, r, x
<1>7. CASE r.tool = "give_item"
  <2>1. m = [items |-> 1, coins |-> 0]
    BY <1>7 DEF m, Moved
  <2>2. Plus(r.a, m) = [items |-> r.a.items + 1, coins |-> r.a.coins + 0] /\ r.a.items >= 1
    BY <1>4, <1>6, <2>1 DEF Plus, Minus, Covers
  <2>3. Carried' = [Carried EXCEPT ![x] = [items |-> Carried[x].items + 1, coins |-> Carried[x].coins + 0]]
    BY <1>3, <1>5, <1>7, <2>2
  <2>4. Carried[x].coins >= 0 /\ Carried[x].coins + 0 >= 0 /\ Carried[x].items + 1 >= 0
    BY <1>3, <1>6
  <2>5. Promise!Doubled(x, 1, 0)
    BY <1>2, <1>3, <2>2, <2>3, <2>4 DEF Promise!Doubled, Promise!Change
  <2>. QED
    BY <1>0, <2>5 DEF Promise!Doubles
<1>8. CASE r.tool = "transfer_currency"
  <2>1. m = [items |-> 0, coins |-> r.n]
    BY <1>8 DEF m, Moved
  <2>2. /\ Plus(r.a, m) = [items |-> r.a.items + 0, coins |-> r.a.coins + r.n]
        /\ r.a.coins >= r.n /\ r.a.coins + r.n >= 0
    BY <1>0, <1>4, <1>6, <2>1 DEF Plus, Minus, Covers
  <2>3. Carried' = [Carried EXCEPT ![x] = [items |-> Carried[x].items + 0, coins |-> Carried[x].coins + r.n]]
    BY <1>3, <1>5, <1>8, <2>2
  <2>4. Carried[x].items >= 0 /\ Carried[x].items + 0 >= 0
    BY <1>3, <1>6
  <2>5. Promise!Doubled(x, 0, r.n)
    BY <1>2, <1>3, <2>2, <2>3, <2>4 DEF Promise!Doubled, Promise!Change
  <2>. QED
    BY <1>0, <1>8, <2>5 DEF Promise!Doubles
<1>9. CASE r.tool \in Trades
  <2>1. After(r, LastSide(r.tool), r.a) = [items |-> r.a.items + -1, coins |-> r.a.coins + Price]
    <3>1. CASE r.tool = "vendor_sell_item"
      BY <1>5, <1>6, <3>1 DEF m, Moved, Minus
    <3>2. CASE r.tool = "vendor_buy_item"
      BY <1>5, <1>6, <3>2 DEF m, Moved, Plus
    <3>. QED
      BY <1>9, <3>1, <3>2
  <2>2. r.a.items + -1 >= 0 /\ r.a.coins >= Price
    <3>1. CASE r.tool = "vendor_sell_item"
      BY <1>4, <1>6, <3>1 DEF m, Moved, Minus, Plus, Covers
    <3>2. CASE r.tool = "vendor_buy_item"
      BY <1>4, <1>6, <3>2 DEF m, Moved, Minus, Plus, Covers
    <3>. QED
      BY <1>9, <3>1, <3>2
  <2>3. Carried' = [Carried EXCEPT ![x] = [items |-> Carried[x].items + -1, coins |-> Carried[x].coins + Price]]
    BY <1>3, <2>1
  <2>4. Carried[x].items >= -1 /\ Carried[x].coins + Price >= 0
    BY <1>3, <1>6
  <2>5. Promise!Doubled(x, -1, Price)
    BY <1>2, <1>3, <2>2, <2>3, <2>4 DEF Promise!Doubled, Promise!Change
  <2>. QED
    BY <1>0, <2>5 DEF Promise!Doubles
<1>. QED
  BY <1>0, <1>7, <1>8, <1>9

\* A retrieval from a cache without a row costs what it names.
LEMMA PaysNobodyImplements ==
  ASSUME IInv, NEW p, Passes = {p}, SaveSecond(p), Rowless(loc[p])
  PROVE  Promise!PaysNobody
<1> DEFINE r == loc[p]
           x == loc[p].x
<1>0. /\ r \in Locals /\ LocalsOK(r, row, stash, purses) /\ r.pc = "saveSecond" /\ x \in Characters
      /\ r.tool = "retrieve_currency" /\ x \notin purses /\ CanMove(r) /\ r.n \in Amounts
      /\ r.n <= 0 /\ ~Twice(r) /\ r.a = row[x]
      /\ row \in [Characters -> Rows] /\ row[x] \in Rows /\ stash[x].coins = 0
  BY LastWriteFacts DEF Rowless, Twice, LocalsOK, Locals, IInv, PursesOK
<1>1. r.n \in Int /\ row[x].items \in Nat /\ row[x].coins \in Nat
  BY <1>0, AmountsAssumption
<1>2. Carried = row
  <2>1. \A d \in Characters : RowOf(r, row, purses, d) = row[d]
    BY <1>0 DEF RowOf
  <2>. QED
    BY <1>0, <2>1, ViewIs
<1>3. After(r, "x", row[x]) = [items |-> row[x].items + 0, coins |-> row[x].coins + r.n]
  BY <1>0, <1>1 DEF After, Minus, Moved
<1>4. Carried' = [row EXCEPT ![x] = [items |-> row[x].items + 0, coins |-> row[x].coins + r.n]]
  <2>1. LastSide(r.tool) = "x"
    BY <1>0 DEF LastSide
  <2>2. Carried' = [row EXCEPT ![x] = After(r, "x", r.a)]
    BY <2>1, LastWriteFacts DEF Who
  <2>. QED
    BY <1>0, <1>3, <2>2
<1>5. row[x].coins + r.n >= 0
  BY <1>0, <1>3 DEF CanMove, Covers
<1>6. Promise!PayNobody(x, r.n)
  BY <1>0, <1>2, <1>4, <1>5, LastWriteFacts DEF Promise!PayNobody, Promise!Change
<1>. QED
  BY <1>0, <1>6 DEF Promise!PaysNobody

\* A deposit was counted when it became due.
LEMMA DepositIsQuiet ==
  ASSUME IInv, NEW p, Passes = {p}, Deposit(p)
  PROVE  UNCHANGED Promise!vars
<1>0. /\ loc[p] \in Locals /\ LocalsOK(loc[p], row, stash, purses) /\ loc[p].pc = "saveSecond"
      /\ loc[p].tool \in Stashing /\ loc'[p] = Idle /\ loc[p].x \in Characters
  BY PassFacts DEF IInv, Deposit, At, LocalsOK, Return
<1>1. \A c \in Characters : stash'[c] = CacheOf(loc[p], stash, c)
  <2>1. stash[loc[p].x] \in Caches /\ loc[p].n \in Int
    BY <1>0 DEF IInv, Locals
  <2>2. stash'[loc[p].x] = CacheOf(loc[p], stash, loc[p].x)
    <3>1. CASE loc[p].tool = "stash_item"
      <4>1. stash'[loc[p].x] = [items |-> stash[loc[p].x].items \cup {loc[p].id}, coins |-> stash[loc[p].x].coins]
        BY <1>0, <3>1 DEF Deposit, IInv
      <4>2. stash[loc[p].x].coins + 0 = stash[loc[p].x].coins
        BY <2>1
      <4>. QED
        BY <1>0, <3>1, <4>1, <4>2 DEF CacheOf
    <3>2. CASE loc[p].tool = "stash_currency"
      <4>1. stash'[loc[p].x] = [items |-> stash[loc[p].x].items, coins |-> stash[loc[p].x].coins + loc[p].n]
        BY <1>0, <3>2 DEF Deposit, IInv
      <4>. QED
        BY <1>0, <3>2, <4>1 DEF CacheOf
    <3>. QED
      BY <1>0, <3>1, <3>2
  <2>3. \A c \in Characters : c # loc[p].x => stash'[c] = stash[c]
    BY <1>0 DEF Deposit, IInv
  <2>. QED
    BY <2>2, <2>3 DEF CacheOf
<1>2. \A c \in Characters : RowOf(loc[p], row, purses, c) = row[c]
  BY <1>0 DEF RowOf
<1>3. \A c \in Characters : RowOf(loc'[p], row', purses', c) = row[c] /\ CacheOf(loc'[p], stash', c) = stash'[c]
  <2>1. row' = row
    BY DEF Deposit
  <2>. QED
    BY <1>0, <2>1, NextViewOfIdle
<1>. QED
  BY <1>1, <1>2, <1>3, QuietStep

\* Deleting from a cache is the retrieval, when there is a row.
LEMMA DeleteImplements ==
  ASSUME IInv, NEW p, Passes = {p}, Delete(p), ~Rowless(loc[p])
  PROVE  Promise!Moves
<1> DEFINE r == loc[p]
           x == loc[p].x
<1>0. /\ r \in Locals /\ LocalsOK(r, row, stash, purses) /\ r.pc = "delete" /\ x \in Characters
      /\ r.tool \in Retrieving /\ row[x] \in Rows /\ stash[x] \in Caches
      /\ row \in [Characters -> Rows] /\ stash \in [Characters -> Caches]
      /\ ~(r.tool = "retrieve_currency" /\ x \notin purses)
  BY PassFacts DEF IInv, Delete, At, LocalsOK, Rowless
<1>1. Carried = row /\ Cached = stash
  BY <1>0, ViewIs DEF RowOf, CacheOf
<1>2. /\ loc'[p].pc = "readX" /\ loc'[p].tool = r.tool /\ loc'[p].x = x /\ loc'[p].n = r.n
      /\ row' = row /\ purses' = purses
  BY <1>0, PassFacts DEF Delete, Goto, IInv, Locals
<1>3. \A c \in Characters : CacheOf(loc'[p], stash', c) = stash'[c]
  BY <1>2 DEF CacheOf
<1>4. stash' \in [Characters -> [items : SUBSET Ids, coins : Int]]
  BY <1>0, DeleteFacts
<1>5. Cached' = stash'
  BY <1>3, <1>4, NextViewIs
<1>6. Carried' = [row EXCEPT ![x] = Minus(row[x], Moved(r.tool, r.n))]
  <2>1. \A c \in Characters : RowOf(loc'[p], row', purses', c) =
          IF c = x THEN Minus(row[x], Moved(r.tool, r.n)) ELSE row[c]
    BY <1>0, <1>2 DEF RowOf, After, Who, LastSide, Twice
  <2>. QED
    BY <1>0, <2>1, NextViewIs
<1> HIDE DEF r, x
<1>7. CASE r.tool = "retrieve_item"
  <2>1. Carried' = [Carried EXCEPT ![x] = [items |-> @.items + 1, coins |-> @.coins + 0]]
    <3>1. Minus(row[x], Moved(r.tool, r.n)) = [items |-> row[x].items + 1, coins |-> row[x].coins + 0]
      BY <1>0, <1>7 DEF Minus, Moved
    <3>. QED
      BY <1>0, <1>1, <1>6, <3>1
  <2>2. r.id \in stash[x].items /\ r.id \in Ids
    BY <1>0, <1>7 DEF LocalsOK, r, x
  <2>3. Cached' = [Cached EXCEPT ![x] = [items |-> Cached[x].items \ {r.id}, coins |-> @.coins]]
    BY <1>0, <1>1, <1>5, <1>7, DeleteFacts DEF r, x
  <2>4. Promise!RetrieveItem(x, r.id)
    BY <1>1, <2>1, <2>2, <2>3 DEF Promise!RetrieveItem, Promise!Change, Promise!CacheItems
  <2>. QED
    BY <1>0, <2>2, <2>4 DEF Promise!Moves
<1>8. CASE r.tool = "retrieve_currency"
  <2>1. Carried' = [Carried EXCEPT ![x] = [items |-> @.items + 0, coins |-> @.coins + r.n]]
    <3>1. Minus(row[x], Moved(r.tool, r.n)) = [items |-> row[x].items + 0, coins |-> row[x].coins + r.n]
      BY <1>0, <1>8 DEF Minus, Moved, Locals, r
    <3>. QED
      BY <1>0, <1>1, <1>6, <3>1
  <2>2. r.n <= stash[x].coins /\ r.n \in Int
    BY <1>0, <1>8 DEF LocalsOK, Locals, r, x
  <2>3. Cached' = [Cached EXCEPT ![x] = [items |-> @.items, coins |-> @.coins + -r.n]]
    <3>1. stash[x].coins - r.n = stash[x].coins + -r.n
      BY <1>0, <2>2
    <3>2. stash' = [stash EXCEPT ![x] = [items |-> stash[x].items, coins |-> stash[x].coins - r.n]]
      BY <1>0, <1>8, DeleteFacts DEF r, x
    <3>. QED
      BY <1>0, <1>1, <1>5, <3>1, <3>2
  <2>4. Promise!RetrieveCoins(x, r.n)
    BY <1>0, <1>1, <2>1, <2>2, <2>3 DEF Promise!RetrieveCoins, Promise!Change, Promise!CacheCoins
  <2>. QED
    BY <1>0, <1>8, <2>4 DEF Promise!Moves, LocalsOK, r
<1>. QED
  BY <1>0, <1>7, <1>8

\* An UPDATE of no row changes none.
LEMMA RowlessDeleteIsQuiet ==
  ASSUME IInv, NEW p, Passes = {p}, Delete(p), Rowless(loc[p])
  PROVE  UNCHANGED Promise!vars
<1> DEFINE x == loc[p].x
<1>0. /\ loc[p] \in Locals /\ loc[p].pc = "delete" /\ loc[p].tool = "retrieve_currency"
      /\ x \in Characters /\ x \notin purses /\ stash[x] \in Caches /\ stash \in [Characters -> Caches]
      /\ stash' = [stash EXCEPT ![x] =
           [items |-> stash[x].items, coins |-> stash[x].coins - IF Rowless(loc[p]) THEN 0 ELSE loc[p].n]]
  BY PassFacts, DeleteFacts DEF IInv, Delete, At, Rowless
<1>1. stash[x].coins - 0 = stash[x].coins
  BY <1>0
<1>2. stash' = stash
  BY <1>0, <1>1
<1>3. /\ loc'[p].pc = "readX" /\ loc'[p].tool = loc[p].tool /\ loc'[p].x = x
      /\ row' = row /\ purses' = purses
  BY <1>0, PassFacts DEF Delete, Goto, IInv, Locals
<1>. QED
  BY <1>0, <1>2, <1>3, QuietStep DEF RowOf, CacheOf

\* Of a character that is to be written twice the promise sees only the last.
LEMMA FirstOfTwoIsQuiet ==
  ASSUME IInv, NEW p, Passes = {p}, SaveFirst(p), Twice(loc[p])
  PROVE  UNCHANGED Promise!vars
<1> DEFINE x == loc[p].x
<1>0. /\ loc[p] \in Locals /\ loc[p].pc = "saveFirst" /\ loc[p].tool \in TwoCharacters
      /\ x \in Characters /\ loc[p].y = x /\ loc[p].a = row[x]
      /\ row \in [Characters -> Rows] /\ stash \in [Characters -> Caches]
      /\ row' = [row EXCEPT ![x] = After(loc[p], FirstSide(loc[p].tool), loc[p].a)]
  BY PassFacts, FirstWriteFacts DEF IInv, SaveFirst, At, LocalsOK, Twice
<1>1. /\ loc'[p].pc = "saveSecond" /\ loc'[p].tool = loc[p].tool /\ loc'[p].a = loc[p].a
      /\ loc'[p].x = x /\ loc'[p].y = x
      /\ stash' = stash
  <2>1. Goto(p, "saveSecond") /\ stash' = stash
    BY <1>0 DEF SaveFirst
  <2>. QED
    BY <1>0, <2>1, PassFacts DEF Goto, IInv, Locals
<1>2. \A c \in Characters : RowOf(loc'[p], row', purses', c) = row[c]
  BY <1>0, <1>1 DEF RowOf, Twice, Who
<1>. QED
  BY <1>0, <1>1, <1>2, QuietStep DEF RowOf, CacheOf

\* The first write of a tool for two characters is the move between them.
LEMMA TwoCharactersImplement ==
  ASSUME IInv, NEW p, Passes = {p}, SaveFirst(p), loc[p].tool \in TwoCharacters, ~Twice(loc[p])
  PROVE  Promise!Moves
<1> DEFINE r == loc[p]
           x == loc[p].x
           y == loc[p].y
           m == Moved(r.tool, r.n)
<1>0. /\ r \in Locals /\ LocalsOK(r, row, stash, purses) /\ r.pc = "saveFirst"
      /\ x \in Characters /\ y \in Characters /\ x # y
      /\ row[x] \in Rows /\ row[y] \in Rows /\ row \in [Characters -> Rows]
      /\ r.a = row[x] /\ r.b = row[y] /\ CanMove(r)
      /\ stash \in [Characters -> Caches]
      /\ r.tool \in AllTools /\ r.n \in Int /\ (r.tool \in Currency => r.n \in Amounts)
  BY PassFacts DEF IInv, SaveFirst, At, LocalsOK, Locals, Twice
<1>1. Carried = row /\ Cached = stash
  BY <1>0, ViewIs DEF RowOf, CacheOf
<1>2. /\ loc'[p].pc = "saveSecond" /\ loc'[p].tool = r.tool
      /\ loc'[p].x = x /\ loc'[p].y = y /\ loc'[p].n = r.n
      /\ stash' = stash
  <2>1. Goto(p, "saveSecond") /\ stash' = stash
    BY DEF SaveFirst
  <2>. QED
    BY <1>0, <2>1, PassFacts DEF Goto, IInv, Locals
<1>3. Cached' = Cached
  BY <1>0, <1>1, <1>2, NextViewIs DEF CacheOf
<1> DEFINE NewRow(c) == CASE c = x -> Minus(row[x], m) [] c = y -> Plus(row[y], m) [] OTHER -> row[c]
<1>4. Carried' = [c \in Characters |-> NewRow(c)]
  <2>1. CASE r.tool = "vendor_sell_item"
    <3>1. row' = [row EXCEPT ![y] = Plus(row[y], m)]
      BY <1>0, <2>1 DEF SaveFirst, FirstSide, SaveCharacter, Who, After
    <3>2. \A c \in Characters : RowOf(loc'[p], row', purses', c) = IF c = x THEN Minus(row'[x], m) ELSE row'[c]
      BY <1>0, <1>2, <2>1 DEF RowOf, After, Who, LastSide, FirstSide, Twice
    <3>3. \A c \in Characters : RowOf(loc'[p], row', purses', c) = NewRow(c)
      BY <1>0, <3>1, <3>2
    <3>. QED
      BY <3>3, NextViewIs
  <2>2. CASE r.tool # "vendor_sell_item"
    <3>1. row' = [row EXCEPT ![x] = Minus(row[x], m)]
      BY <1>0, <2>2 DEF SaveFirst, FirstSide, SaveCharacter, Who, After
    <3>2. \A c \in Characters : RowOf(loc'[p], row', purses', c) = IF c = y THEN Plus(row'[y], m) ELSE row'[c]
      BY <1>0, <1>2, <2>2 DEF RowOf, After, Who, LastSide, FirstSide, Twice
    <3>3. \A c \in Characters : RowOf(loc'[p], row', purses', c) = NewRow(c)
      BY <1>0, <3>1, <3>2
    <3>. QED
      BY <3>3, NextViewIs
  <2>. QED
    BY <2>1, <2>2
<1>5. Covers(Minus(row[x], m)) /\ Covers(Plus(row[y], m))
  BY <1>0 DEF CanMove, After
<1>6. m \in [items : Int, coins : Int]
  BY <1>0, MovedIsNumbers
<1>7. Promise!Exchange(x, y, m.items, m.coins)
  <2>1. /\ row[x].items >= m.items /\ row[y].items + m.items >= 0
        /\ row[x].coins >= m.coins /\ row[y].coins + m.coins >= 0
    BY <1>0, <1>5, <1>6 DEF Covers, Minus, Plus
  <2>. QED
    BY <1>1, <1>3, <1>4, <2>1 DEF Promise!Exchange, Minus, Plus
<1> HIDE DEF m, r, x, y
<1>8. CASE r.tool = "give_item"
  <2>1. m = [items |-> 1, coins |-> 0]
    BY <1>8 DEF m, Moved
  <2>. QED
    BY <1>0, <1>7, <2>1 DEF Promise!Give, Promise!Moves
<1>9. CASE r.tool = "transfer_currency"
  <2>1. m = [items |-> 0, coins |-> r.n]
    BY <1>9 DEF m, Moved
  <2>. QED
    BY <1>0, <1>7, <1>9, <2>1 DEF Promise!Pay, Promise!Moves
<1>10. CASE r.tool = "vendor_sell_item"
  <2>1. m = [items |-> 1, coins |-> -Price]
    BY <1>10 DEF m, Moved
  <2>. QED
    BY <1>0, <1>7, <2>1 DEF Promise!Trade, Promise!Moves
<1>11. CASE r.tool = "vendor_buy_item"
  <2>1. Price \in Nat /\ m = [items |-> -1, coins |-> Price]
    BY <1>11, AmountsAssumption DEF m, Moved
  <2>2. Minus(row[x], m) = [items |-> row[x].items + 1, coins |-> row[x].coins + -Price]
    BY <1>0, <2>1 DEF Minus
  <2>3. Plus(row[y], m) = [items |-> row[y].items - 1, coins |-> row[y].coins - -Price]
    BY <1>0, <2>1 DEF Plus
  <2>4. /\ row[y].items >= 1 /\ row[x].items + 1 >= 0
        /\ row[y].coins >= -Price /\ row[x].coins + -Price >= 0
    BY <1>0, <1>5, <2>1, <2>2, <2>3 DEF Covers
  <2>5. Promise!Exchange(y, x, 1, -Price)
    BY <1>0, <1>1, <1>3, <1>4, <2>2, <2>3, <2>4 DEF Promise!Exchange
  <2>. QED
    BY <1>0, <2>5 DEF Promise!Trade, Promise!Moves
<1>. QED
  BY <1>8, <1>9, <1>10, <1>11 DEF r

\* The first write of a deposit is the deposit; an effect moves nothing.
LEMMA OthersImplement ==
  ASSUME IInv, NEW p, Passes = {p}, SaveFirst(p), loc[p].tool \notin TwoCharacters
  PROVE  Promise!Moves \/ UNCHANGED Promise!vars
<1> DEFINE r == loc[p]
           x == loc[p].x
           m == Moved(r.tool, r.n)
<1>0. /\ r \in Locals /\ LocalsOK(r, row, stash, purses) /\ r.pc = "saveFirst"
      /\ x \in Characters /\ row[x] \in Rows /\ row \in [Characters -> Rows]
      /\ r.a = row[x] /\ CanMove(r)
      /\ stash[x] \in Caches /\ stash \in [Characters -> Caches]
      /\ r.tool \in Stashing \cup {"apply_effect"} /\ r.n \in Int /\ (r.tool \in Currency => r.n \in Amounts)
  BY PassFacts DEF IInv, SaveFirst, At, LocalsOK, Locals
<1>1. Carried = row /\ Cached = stash
  BY <1>0, ViewIs DEF RowOf, CacheOf
<1>2. row' = [row EXCEPT ![x] = Minus(row[x], m)] /\ stash' = stash
  BY <1>0 DEF SaveFirst, FirstSide, SaveCharacter, Who, After
<1>3. Covers(Minus(row[x], m))
  BY <1>0 DEF CanMove, After
<1>4. CASE r.tool = "apply_effect"
  <2>1. loc'[p] = Idle
    BY <1>4, PassFacts DEF SaveFirst, Return, IInv
  <2>2. Minus(row[x], m) = row[x]
    BY <1>0, <1>4 DEF Minus, Moved, Nothing
  <2>3. row' = row /\ stash' = stash
    BY <1>0, <1>2, <2>2
  <2> HIDE DEF r, x, m
  <2>4. \A c : RowOf(loc'[p], row', purses', c) = row[c] /\ CacheOf(loc'[p], stash', c) = stash[c]
    BY <2>1, <2>3, NextViewOfIdle
  <2> USE DEF r, x, m
  <2>5. \A c \in Characters : RowOf(loc[p], row, purses, c) = row[c] /\ CacheOf(loc[p], stash, c) = stash[c]
    BY <1>0, <1>4 DEF RowOf, CacheOf
  <2>. QED
    BY <2>4, <2>5, QuietStep
<1>5. ASSUME loc'[p].pc = "saveSecond", loc'[p].tool = r.tool, loc'[p].x = x, r.tool \in Stashing
      PROVE  /\ Carried' = [Carried EXCEPT ![x] = Minus(row[x], m)]
             /\ Cached' = [c \in Characters |-> CacheOf(loc'[p], stash, c)]
  <2>1. \A c \in Characters : RowOf(loc'[p], row', purses', c) = row'[c]
    BY <1>5 DEF RowOf
  <2>2. Carried' = [c \in Characters |-> row'[c]] /\ Cached' = [c \in Characters |-> CacheOf(loc'[p], stash', c)]
    BY <2>1, NextViewIs
  <2>3. row' = [c \in Characters |-> row'[c]]
    BY <1>0, <1>2
  <2>. QED
    BY <1>1, <1>2, <2>2, <2>3
<1>6. CASE r.tool = "stash_item"
  <2>1. PICK id \in Ids \ UNION {stash[c].items : c \in Characters} :
          loc' = [loc EXCEPT ![p].pc = "saveSecond", ![p].id = id]
    BY <1>6 DEF SaveFirst
  <2>2. loc'[p].pc = "saveSecond" /\ loc'[p].tool = r.tool /\ loc'[p].x = x /\ loc'[p].id = id
    BY <1>0, <2>1, PassFacts DEF IInv, Locals
  <2>3. id \notin stash[x].items
    BY <1>0, <2>1
  <2>4. Minus(row[x], m) = [items |-> row[x].items + -1, coins |-> row[x].coins + 0] /\ row[x].items > 0
    BY <1>0, <1>3, <1>6 DEF Minus, Moved, Covers
  <2>5. stash[x].coins + 0 = stash[x].coins
    BY <1>0
  <2>6. Cached' = [Cached EXCEPT ![x] = [items |-> Cached[x].items \cup {id}, coins |-> @.coins]]
    <3>1. \A c \in Characters : CacheOf(loc'[p], stash, c) =
            IF c = x THEN [items |-> stash[x].items \cup {id}, coins |-> stash[x].coins] ELSE stash[c]
      BY <1>6, <2>2, <2>5 DEF CacheOf
    <3>2. Cached' = [c \in Characters |-> CacheOf(loc'[p], stash, c)]
      BY <1>5, <1>6, <2>2
    <3>. QED
      BY <1>0, <1>1, <3>1, <3>2
  <2>7. Promise!StashItem(x, id)
    BY <1>0, <1>1, <1>5, <1>6, <2>2, <2>3, <2>4, <2>6 DEF Promise!StashItem, Promise!Change, Promise!CacheItems
  <2>. QED
    BY <1>0, <2>7 DEF Promise!Moves
<1>7. CASE r.tool = "stash_currency"
  <2>1. loc' = [loc EXCEPT ![p].pc = "saveSecond"]
    BY <1>7 DEF SaveFirst, Goto
  <2>2. loc'[p].pc = "saveSecond" /\ loc'[p].tool = r.tool /\ loc'[p].x = x /\ loc'[p].n = r.n
    BY <1>0, <2>1, PassFacts DEF IInv, Locals
  <2>3. Minus(row[x], m) = [items |-> row[x].items + 0, coins |-> row[x].coins + -r.n] /\ row[x].coins >= r.n
    BY <1>0, <1>3, <1>7 DEF Minus, Moved, Covers
  <2>4. Cached' = [Cached EXCEPT ![x] = [items |-> @.items, coins |-> @.coins + r.n]]
    <3>1. stash[x].items \cup {} = stash[x].items
      OBVIOUS
    <3>2. \A c \in Characters : CacheOf(loc'[p], stash, c) =
            IF c = x THEN [items |-> stash[x].items, coins |-> stash[x].coins + r.n] ELSE stash[c]
      BY <1>7, <2>2, <3>1 DEF CacheOf
    <3>3. Cached' = [c \in Characters |-> CacheOf(loc'[p], stash, c)]
      BY <1>5, <1>7, <2>2
    <3>. QED
      BY <1>0, <1>1, <3>2, <3>3
  <2>5. Promise!StashCoins(x, r.n)
    BY <1>0, <1>1, <1>5, <1>7, <2>2, <2>3, <2>4 DEF Promise!StashCoins, Promise!Change, Promise!CacheCoins
  <2>. QED
    BY <1>0, <1>7, <2>5 DEF Promise!Moves
<1>. QED
  BY <1>0, <1>4, <1>6, <1>7

\* A call that ends with a row still to write costs what that row would have
\* got: an item, coins, or in a trade the price.
LEMMA ItemLost ==
  ASSUME row \in [Characters -> Rows], NEW c \in Characters,
         Carried = [row EXCEPT ![c] = Plus(row[c], [items |-> 1, coins |-> 0])],
         Carried' = row, UNCHANGED Cached
  PROVE  Promise!LosesItem
<1>1. row[c] \in Rows /\ Carried[c] = [items |-> row[c].items + 1, coins |-> row[c].coins + 0]
  BY DEF Plus
<1>2. \A v : row[c] = v => Carried' = [Carried EXCEPT ![c] = v]
  BY <1>1
<1>3. row[c] = [items |-> Carried[c].items + -1, coins |-> Carried[c].coins + 0] /\ Carried[c].items > 0
  BY <1>1
<1>. QED
  BY <1>2, <1>3 DEF Promise!LosesItem, Promise!LoseItem, Promise!Change

LEMMA CoinsLost ==
  ASSUME row \in [Characters -> Rows], NEW c \in Characters, NEW n \in Int,
         NEW amounts, n \in amounts,
         Carried = [row EXCEPT ![c] = Plus(row[c], [items |-> 0, coins |-> n])],
         Carried' = row, UNCHANGED Cached
  PROVE  Promise!LosesCoins(amounts)
<1>1. row[c] \in Rows /\ Carried[c] = [items |-> row[c].items + 0, coins |-> row[c].coins + n]
  BY DEF Plus
<1>2. \A v : row[c] = v => Carried' = [Carried EXCEPT ![c] = v]
  BY <1>1
<1>3. row[c] = [items |-> Carried[c].items + 0, coins |-> Carried[c].coins + -n] /\ Carried[c].coins >= n
  BY <1>1
<1>. QED
  BY <1>2, <1>3 DEF Promise!LosesCoins, Promise!LoseCoins, Promise!Change

LEMMA PaymentLost ==
  ASSUME row \in [Characters -> Rows], NEW c \in Characters,
         Carried = [row EXCEPT ![c] = Plus(row[c], [items |-> -1, coins |-> Price])],
         Carried' = row, UNCHANGED Cached
  PROVE  Promise!LosesPayment
<1>1. row[c] \in Rows /\ Carried[c] = [items |-> row[c].items + -1, coins |-> row[c].coins + Price]
  BY DEF Plus
<1>2. \A v : row[c] = v => Carried' = [Carried EXCEPT ![c] = v]
  BY <1>1
<1>3. /\ row[c] = [items |-> Carried[c].items + 1, coins |-> Carried[c].coins + -Price]
      /\ Carried[c].coins >= Price
  BY <1>1, AmountsAssumption
<1>. QED
  BY <1>2, <1>3 DEF Promise!LosesPayment, Promise!LosePayment, Promise!Change

\* What is due to a character counts in either case the same: on top of the
\* row there is.
LEMMA DueIs ==
  ASSUME IInv, NEW p, Passes = {p}, HalfDone(p), loc[p].tool \notin Stashing
  PROVE  LET r == loc[p]
             c == Who(r, LastSide(r.tool))
             lost == IF r.tool \in {"give_item", "retrieve_item"} THEN [items |-> 1, coins |-> 0]
                     ELSE IF r.tool \in Trades THEN [items |-> -1, coins |-> Price]
                     ELSE [items |-> 0, coins |-> r.n]
         IN  /\ c \in Characters /\ Cached = stash
             /\ Carried = [row EXCEPT ![c] = Plus(row[c], lost)]
             /\ r.tool \in {"give_item", "retrieve_item", "transfer_currency", "retrieve_currency"} \cup Trades
<1> DEFINE r == loc[p]
           side == LastSide(r.tool)
           c == Who(r, side)
           lost == IF r.tool \in {"give_item", "retrieve_item"} THEN [items |-> 1, coins |-> 0]
                   ELSE IF r.tool \in Trades THEN [items |-> -1, coins |-> Price]
                   ELSE [items |-> 0, coins |-> r.n]
           due == IF Twice(r) THEN r.a ELSE After(r, side, row[c])
<1>a. /\ r \in Locals /\ LocalsOK(r, row, stash, purses) /\ r.n \in Int /\ r.a \in Rows
      /\ row \in [Characters -> Rows] /\ stash \in [Characters -> Caches]
      /\ r.pc = "saveSecond" \/ (r.tool \in Retrieving /\ r.pc \in {"readX", "engine"})
  BY PassFacts DEF IInv, HalfDone, At, Locals
<1>1. /\ r.x \in Characters /\ (r.tool \in TwoCharacters => r.y \in Characters)
      /\ r.tool \in {"give_item", "retrieve_item", "transfer_currency", "retrieve_currency"} \cup Trades
  BY <1>a DEF LocalsOK
<1>b. c \in Characters
  BY <1>1 DEF Who, LastSide
<1>0. /\ r \in Locals /\ LocalsOK(r, row, stash, purses) /\ r.pc # "idle" /\ r.tool \in AllTools
      /\ r.x \in Characters /\ c \in Characters /\ row \in [Characters -> Rows]
      /\ stash \in [Characters -> Caches] /\ r.n \in Int /\ r.a \in Rows /\ row[c] \in Rows
      /\ r.pc = "saveSecond" \/ (r.tool \in Retrieving /\ r.pc \in {"readX", "engine"})
  BY <1>a, <1>b, <1>1
<1>2. \A d \in Characters : CacheOf(r, stash, d) = stash[d]
  BY DEF CacheOf
<1>3. \A d \in Characters : RowOf(r, row, purses, d) = IF d = c THEN due ELSE row[d]
  BY <1>0 DEF HalfDone, Rowless, RowOf
<1>4. Cached = stash /\ Carried = [row EXCEPT ![c] = due]
  BY <1>0, <1>2, <1>3, ViewIs
<1>5. Price \in Nat /\ row[c].items \in Nat /\ row[c].coins \in Nat /\ r.a.items \in Nat /\ r.a.coins \in Nat
  BY <1>0, AmountsAssumption
<1>6. due = Plus(row[c], lost)
  <2>1. CASE Twice(r)
    <3>1. /\ r.tool \in TwoCharacters /\ c = r.x /\ r.pc = "saveSecond"
          /\ row[c] = After(r, FirstSide(r.tool), r.a)
      BY <1>0, <2>1 DEF Twice, Who, LocalsOK
    <3>2. CASE r.tool = "vendor_sell_item"
      <4>1. row[c] = [items |-> r.a.items + 1, coins |-> r.a.coins + -Price]
        BY <1>5, <3>1, <3>2 DEF After, FirstSide, Plus, Moved
      <4>. QED
        BY <1>0, <1>5, <2>1, <3>2, <4>1 DEF Plus
    <3>3. CASE r.tool = "vendor_buy_item"
      <4>1. row[c] = [items |-> r.a.items + 1, coins |-> r.a.coins - Price]
        BY <1>5, <3>1, <3>3 DEF After, FirstSide, Minus, Moved
      <4>. QED
        BY <1>0, <1>5, <2>1, <3>3, <4>1 DEF Plus
    <3>4. CASE r.tool = "give_item"
      <4>1. row[c] = [items |-> r.a.items - 1, coins |-> r.a.coins - 0]
        BY <1>5, <3>1, <3>4 DEF After, FirstSide, Minus, Moved
      <4>. QED
        BY <1>0, <1>5, <2>1, <3>4, <4>1 DEF Plus
    <3>5. CASE r.tool = "transfer_currency"
      <4>1. row[c] = [items |-> r.a.items - 0, coins |-> r.a.coins - r.n]
        BY <1>0, <1>5, <3>1, <3>5 DEF After, FirstSide, Minus, Moved
      <4>. QED
        BY <1>0, <1>5, <2>1, <3>5, <4>1 DEF Plus
    <3>. QED
      BY <3>1, <3>2, <3>3, <3>4, <3>5
  <2>2. CASE ~Twice(r)
    <3>1. CASE r.tool \in Retrieving
      BY <1>0, <1>5, <2>2, <3>1 DEF After, LastSide, Minus, Plus, Moved
    <3>2. CASE r.tool = "vendor_sell_item"
      BY <1>5, <2>2, <3>2 DEF After, LastSide, FirstSide, Minus, Plus, Moved
    <3>3. CASE r.tool \in {"vendor_buy_item", "give_item", "transfer_currency"}
      BY <2>2, <3>3 DEF After, LastSide, FirstSide, Moved
    <3>. QED
      BY <1>1, <3>1, <3>2, <3>3
  <2>. QED
    BY <2>1, <2>2
<1>. QED
  BY <1>0, <1>1, <1>4, <1>6

LEMMA GiveUpImplements ==
  ASSUME IInv, NEW p, Passes = {p}, GiveUp(p)
  PROVE  \/ amiss' = amiss /\ UNCHANGED Promise!vars
         \/ /\ "lost" \in amiss' /\ amiss \subseteq amiss'
            /\ Promise!LosesItem \/ Promise!LosesCoins(Amounts \cap Nat)
         \/ "minus" \in amiss' /\ amiss \subseteq amiss' /\ Promise!LosesCoins(Amounts \ Nat)
         \/ "trade" \in amiss' /\ amiss \subseteq amiss' /\ Promise!LosesPayment
<1> DEFINE r == loc[p]
           x == loc[p].x
<1>0. /\ r \in Locals /\ LocalsOK(r, row, stash, purses) /\ r.n \in Int
      /\ row \in [Characters -> Rows] /\ stash \in [Characters -> Caches]
      /\ loc'[p] = Idle /\ row' = row /\ stash' = stash
  BY PassFacts DEF IInv, GiveUp, Return, Locals
<1>1. Carried' = row /\ Cached' = stash
  <2>1. \A d \in Characters : RowOf(loc'[p], row', purses', d) = row[d] /\ CacheOf(loc'[p], stash', d) = stash[d]
    BY <1>0, NextViewOfIdle
  <2>. QED
    BY <1>0, <2>1, NextViewIs
<1>2. CASE ~HalfDone(p)
  <2>1. \A d \in Characters : RowOf(loc[p], row, purses, d) = row[d] /\ CacheOf(loc[p], stash, d) = stash[d]
    BY <1>2 DEF HalfDone, Rowless, At, RowOf, CacheOf
  <2>2. Carried = row /\ Cached = stash
    BY <1>0, <2>1, ViewIs
  <2>3. amiss' = amiss
    BY <1>2 DEF GiveUp
  <2>. QED
    BY <1>1, <2>2, <2>3 DEF Promise!vars
<1>3. HalfDone(p) => Cost(r) \in amiss' /\ amiss \subseteq amiss'
  BY DEF GiveUp
<1>4. CASE HalfDone(p) /\ r.tool \notin Stashing
  <2> DEFINE c == Who(r, LastSide(r.tool))
             lost == IF r.tool \in {"give_item", "retrieve_item"} THEN [items |-> 1, coins |-> 0]
                     ELSE IF r.tool \in Trades THEN [items |-> -1, coins |-> Price]
                     ELSE [items |-> 0, coins |-> r.n]
  <2>1. /\ c \in Characters /\ Cached = stash /\ Carried = [row EXCEPT ![c] = Plus(row[c], lost)]
        /\ r.tool \in {"give_item", "retrieve_item", "transfer_currency", "retrieve_currency"} \cup Trades
    BY <1>4, DueIs
  <2>2. UNCHANGED Cached
    BY <1>1, <2>1
  <2> HIDE DEF c
  <2>3. CASE r.tool \in {"give_item", "retrieve_item"}
    <3>1. Promise!LosesItem
      BY <1>0, <1>1, <2>1, <2>2, <2>3, ItemLost
    <3>2. r.n = 0
      BY <1>0, <1>4, <2>3 DEF LocalsOK, HalfDone, At
    <3>. QED
      BY <1>3, <1>4, <2>3, <3>1, <3>2 DEF Cost
  <2>4. CASE r.tool \in Trades
    <3>1. Promise!LosesPayment
      BY <1>0, <1>1, <2>1, <2>2, <2>4, PaymentLost
    <3>. QED
      BY <1>3, <1>4, <2>4, <3>1 DEF Cost
  <2>5. CASE r.tool \in {"transfer_currency", "retrieve_currency"}
    <3>1. r.n \in Amounts
      BY <1>0, <1>4, <2>5 DEF LocalsOK, HalfDone, At
    <3>2. CASE r.n < 0
      <4>1. r.n \in Amounts \ Nat
        BY <3>1, <3>2
      <4>2. Promise!LosesCoins(Amounts \ Nat)
        BY <1>0, <1>1, <2>1, <2>2, <2>5, <4>1, CoinsLost
      <4>. QED
        BY <1>3, <1>4, <2>5, <3>2, <4>2 DEF Cost
    <3>3. CASE r.n >= 0
      <4>1. r.n \in Amounts \cap Nat
        BY <1>0, <3>1, <3>3
      <4>2. Promise!LosesCoins(Amounts \cap Nat)
        BY <1>0, <1>1, <2>1, <2>2, <2>5, <4>1, CoinsLost
      <4>3. ~(r.n < 0)
        BY <1>0, <3>3
      <4>. QED
        BY <1>3, <1>4, <2>5, <4>2, <4>3 DEF Cost
    <3>. QED
      BY <1>0, <3>2, <3>3
  <2>. QED
    BY <2>1, <2>3, <2>4, <2>5
<1>5. CASE HalfDone(p) /\ r.tool \in Stashing
  <2>0. x \in Characters /\ stash[x] \in Caches /\ r.pc = "saveSecond"
    BY <1>0, <1>5 DEF LocalsOK, HalfDone, At
  <2>1. \A d \in Characters : RowOf(loc[p], row, purses, d) = row[d]
    BY <1>5 DEF RowOf
  <2>2. Carried = row
    BY <1>0, <2>1, ViewIs
  <2>4. CASE r.tool = "stash_item"
    <3>1. r.id \in Ids \ stash[x].items
      BY <1>0, <2>0, <2>4 DEF LocalsOK
    <3>2. stash[x].coins + 0 = stash[x].coins
      BY <2>0
    <3>3. \A d \in Characters : CacheOf(loc[p], stash, d) =
            IF d = x THEN [items |-> stash[x].items \cup {r.id}, coins |-> stash[x].coins] ELSE stash[d]
      BY <2>0, <2>4, <3>2 DEF CacheOf
    <3>4. Cached = [stash EXCEPT ![x] = [items |-> stash[x].items \cup {r.id}, coins |-> stash[x].coins]]
      <4>1. Cached = [d \in Characters |-> CacheOf(loc[p], stash, d)]
        BY ViewIs
      <4>. QED
        BY <1>0, <2>0, <3>3, <4>1
    <3>5. (stash[x].items \cup {r.id}) \ {r.id} = stash[x].items
      BY <3>1
    <3>6. [items |-> Cached[x].items \ {r.id}, coins |-> Cached[x].coins] = stash[x]
      BY <1>0, <2>0, <3>4, <3>5
    <3>7. Cached' = [Cached EXCEPT ![x] = [items |-> Cached[x].items \ {r.id}, coins |-> @.coins]]
      BY <1>0, <1>1, <3>4, <3>6
    <3>8. Promise!LoseCachedItem(x, r.id)
      BY <1>0, <1>1, <2>0, <2>2, <3>4, <3>7 DEF Promise!LoseCachedItem, Promise!CacheItems
    <3>9. Promise!LosesItem
      BY <2>0, <3>1, <3>8 DEF Promise!LosesItem
    <3>10. r.n = 0
      BY <1>0, <2>0, <2>4 DEF LocalsOK
    <3>. QED
      BY <1>3, <1>5, <2>4, <3>9, <3>10 DEF Cost
  <2>5. CASE r.tool = "stash_currency"
    <3>1. stash[x].items \cup {} = stash[x].items
      OBVIOUS
    <3>2. \A d \in Characters : CacheOf(loc[p], stash, d) =
            IF d = x THEN [items |-> stash[x].items, coins |-> stash[x].coins + r.n] ELSE stash[d]
      BY <2>0, <2>5, <3>1 DEF CacheOf
    <3>3. Cached = [stash EXCEPT ![x] = [items |-> stash[x].items, coins |-> stash[x].coins + r.n]]
      BY <1>0, <3>2, ViewIs
    <3>4. [items |-> Cached[x].items, coins |-> Cached[x].coins + -r.n] = stash[x]
      BY <1>0, <2>0, <3>3
    <3>5. Cached' = [Cached EXCEPT ![x] = [items |-> @.items, coins |-> @.coins + -r.n]]
      BY <1>0, <1>1, <3>3, <3>4
    <3>6. Promise!LoseCachedCoins(x, r.n)
      BY <1>0, <1>1, <2>2, <3>5 DEF Promise!LoseCachedCoins, Promise!CacheCoins
    <3>7. r.n \in Amounts
      BY <1>0, <2>0, <2>5 DEF LocalsOK
    <3>8. CASE r.n < 0
      <4>1. r.n \in Amounts \ Nat
        BY <3>7, <3>8
      <4>. QED
        BY <1>3, <1>5, <2>0, <2>5, <3>6, <3>8, <4>1 DEF Cost, Promise!LosesCoins
    <3>9. CASE r.n >= 0
      <4>1. r.n \in Amounts \cap Nat /\ ~(r.n < 0)
        BY <1>0, <3>7, <3>9
      <4>. QED
        BY <1>3, <1>5, <2>0, <2>5, <3>6, <4>1 DEF Cost, Promise!LosesCoins
    <3>. QED
      BY <1>0, <3>8, <3>9
  <2>. QED
    BY <1>5, <2>4, <2>5
<1>. QED
  BY <1>2, <1>4, <1>5

\* What a step is to the promise, and what is noted when a call did not move
\* what it was to move.
LEMMA StepKinds ==
  ASSUME IInv, NEW p, Passes = {p}, Next
  PROVE  \/ amiss \subseteq amiss' /\ UNCHANGED Promise!vars
         \/ amiss' = amiss /\ Promise!Moves
         \/ /\ "lost" \in amiss' /\ amiss \subseteq amiss'
            /\ Promise!LosesItem \/ Promise!LosesCoins(Amounts \cap Nat) \/ Promise!PaysNobody
         \/ "minus" \in amiss' /\ amiss \subseteq amiss' /\ Promise!LosesCoins(Amounts \ Nat)
         \/ "trade" \in amiss' /\ amiss \subseteq amiss' /\ Promise!LosesPayment
         \/ "twice" \in amiss' /\ amiss \subseteq amiss' /\ Promise!Doubles
<1>1. CASE Call(p) \/ Find(p) \/ FindNothing(p) \/ ReadX(p) \/ ReadY(p) \/ Engine(p) \/ Refuse(p)
  <2>1. amiss' = amiss
    BY <1>1 DEF Call, Find, FindNothing, ReadX, ReadY, Engine, Refuse
  <2>. QED
    BY <1>1, <2>1, ReadsAreQuiet
<1>2. CASE Delete(p)
  <2>1. amiss' = amiss
    BY <1>2 DEF Delete
  <2>. QED
    BY <1>2, <2>1, DeleteImplements, RowlessDeleteIsQuiet
<1>3. CASE SaveFirst(p)
  <2>1. amiss' = amiss
    BY <1>3 DEF SaveFirst
  <2>. QED
    BY <1>3, <2>1, TwoCharactersImplement, FirstOfTwoIsQuiet, OthersImplement
<1>4. CASE SaveSecond(p)
  <2>1. /\ amiss \subseteq amiss'
        /\ Twice(loc[p]) => "twice" \in amiss'
        /\ Rowless(loc[p]) => "lost" \in amiss'
    BY <1>4 DEF SaveSecond
  <2>. QED
    BY <1>4, <2>1, LastWriteIsQuiet, DoublesImplement, PaysNobodyImplements
<1>5. CASE Deposit(p)
  <2>1. amiss' = amiss
    BY <1>5 DEF Deposit
  <2>. QED
    BY <1>5, <2>1, DepositIsQuiet
<1>6. CASE GiveUp(p)
  BY <1>6, GiveUpImplements
<1>. QED
  BY <1>1, <1>2, <1>3, <1>4, <1>5, <1>6 DEF Next, RefuseRetrieval, CutShort

\* One pass at a time, each tool is one all-or-nothing move between two
\* characters or a character and its cache.  A call that ends between its
\* writes, names one character twice or takes from a cache without a row costs
\* what the promise says: a gift lost, an item sold and kept, a gift made.  For
\* any number of characters, items, coins and calls, whoever they name and
\* whatever amount.
THEOREM PromiseKept ==
  ASSUME OnePass
  PROVE  Spec => KeepsPromise
<1>1. Init => Promise!Init
  <2>. SUFFICES ASSUME Init  PROVE Promise!Init
    OBVIOUS
  <2>1. PICK p \in Passes : Passes = {p}
    BY DEF OnePass
  <2>2. \A c \in Characters : RowOf(loc[p], row, purses, c) = row[c] /\ CacheOf(loc[p], stash, c) = stash[c]
    BY ViewOfIdle DEF Init
  <2>3. row \in [Characters -> Rows] /\ stash \in [Characters -> Caches]
    BY InitIInv DEF IInv
  <2>4. Carried = row /\ Cached = stash
    <3>1. /\ Carried = [c \in Characters |-> RowOf(loc[p], row, purses, c)]
          /\ Cached = [c \in Characters |-> CacheOf(loc[p], stash, c)]
      BY <2>1, ViewIs
    <3>. QED
      BY <2>2, <2>3, <3>1
  <2>. QED
    BY <2>3, <2>4 DEF Init, Promise!Init
<1>2. IInv /\ [Next]_vars => [Promise!Next]_(Promise!vars)
  <2>. SUFFICES ASSUME IInv, [Next]_vars  PROVE Promise!Next \/ UNCHANGED Promise!vars
    OBVIOUS
  <2>1. PICK p \in Passes : Passes = {p}
    BY DEF OnePass
  <2>2. CASE UNCHANGED vars
    BY <2>1, <2>2, QuietStep DEF vars
  <2>3. CASE Next
    <3>1. \A amounts : amounts \subseteq Amounts /\ Promise!LosesCoins(amounts) => Promise!LosesCoins(Amounts)
      BY DEF Promise!LosesCoins
    <3>2. \/ UNCHANGED Promise!vars \/ Promise!Moves \/ Promise!LosesItem \/ Promise!LosesCoins(Amounts)
          \/ Promise!LosesPayment \/ Promise!Doubles \/ Promise!PaysNobody
      BY <2>1, <2>3, <3>1, StepKinds
    <3>. QED
      BY <3>2 DEF Promise!Next
  <2>. QED
    BY <2>2, <2>3
<1>. QED
  BY <1>1, <1>2, InvHolds, PTL DEF Spec, KeepsPromise, Promise!Spec
--------------------------------------------------------------------------------
(* Sums.  A fold over a set is a function that takes out one element after *)
(* the other; two of them differ by what their terms differ.               *)

Taken(s) == CHOOSE x \in s : TRUE
OneMore(f, it, s) == IF s = {} THEN 0 ELSE f[Taken(s)] + it[s \ {Taken(s)}]
Adds(f, it, S) == it = [s \in SUBSET S |-> OneMore(f, it, s)]

\* The least of a set of numbers.
LEMMA Least ==
  ASSUME NEW N \in SUBSET Nat, N # {}
  PROVE  \E n \in N : \A m \in Nat : m < n => m \notin N
<1>1. PICK n \in N : \A m \in N : ~ <<m, n>> \in OpToRel(<, Nat)
  BY NatLessThanWellFounded, WFMin
<1>2. ASSUME NEW m \in Nat, m < n  PROVE m \notin N
  <2>1. <<m, n>> \in OpToRel(<, Nat)
    BY <1>2 DEF OpToRel
  <2>. QED
    BY <1>1, <2>1
<1>. QED
  BY <1>2

LEMMA TakenFrom ==
  ASSUME NEW s, IsFiniteSet(s), s # {}
  PROVE  /\ Taken(s) \in s /\ IsFiniteSet(s \ {Taken(s)})
         /\ Cardinality(s) \in Nat \ {0} /\ Cardinality(s \ {Taken(s)}) = Cardinality(s) - 1
<1>1. Taken(s) \in s
  BY DEF Taken
<1>. QED
  BY <1>1, FS_RemoveElement, FS_CardinalityType, FS_EmptySet

LEMMA SumsExist ==
  ASSUME NEW S, IsFiniteSet(S), NEW f \in [S -> Int]
  PROVE  \E it \in [SUBSET S -> Int] : Adds(f, it, S)
<1> DEFINE Upto(it, n) == \A s \in SUBSET S : Cardinality(s) <= n => it[s] = OneMore(f, it, s)
           Bad == {n \in Nat : ~ \E it \in [SUBSET S -> Int] : Upto(it, n)}
<1>1. \A s \in SUBSET S : IsFiniteSet(s) /\ Cardinality(s) \in Nat
  BY FS_Subset, FS_CardinalityType
<1>2. Bad = {}
  <2>1. SUFFICES ASSUME Bad # {}  PROVE FALSE
    OBVIOUS
  <2>2. PICK n \in Bad : \A m \in Nat : m < n => m \notin Bad
    BY <2>1, Least
  <2>3. CASE n = 0
    <3> DEFINE it == [s \in SUBSET S |-> 0]
    <3>1. \A s \in SUBSET S : Cardinality(s) <= 0 => s = {}
      BY <1>1, FS_EmptySet
    <3>2. it \in [SUBSET S -> Int] /\ Upto(it, 0)
      BY <3>1 DEF OneMore
    <3>. QED
      BY <2>2, <2>3, <3>2
  <2>4. CASE n # 0
    <3>1. n - 1 \in Nat /\ n - 1 < n
      BY <2>4
    <3>0. n - 1 \notin Bad
      <4> HIDE DEF Bad
      <4>. QED
        BY <2>2, <3>1
    <3>2. PICK it \in [SUBSET S -> Int] : Upto(it, n - 1)
      BY <3>0, <3>1
    <3> DEFINE jt == [s \in SUBSET S |-> IF Cardinality(s) <= n - 1 THEN it[s] ELSE OneMore(f, it, s)]
    <3>3. \A s \in SUBSET S : OneMore(f, it, s) \in Int
      <4>1. ASSUME NEW s \in SUBSET S  PROVE OneMore(f, it, s) \in Int
        <5>1. CASE s # {}
          <6>1. Taken(s) \in S /\ s \ {Taken(s)} \in SUBSET S
            BY <1>1, <5>1, TakenFrom
          <6>2. f[Taken(s)] \in Int /\ it[s \ {Taken(s)}] \in Int
            BY <6>1
          <6>. QED
            BY <5>1, <6>2 DEF OneMore
        <5>. QED
          BY <5>1 DEF OneMore
      <4>. QED
        BY <4>1
    <3>4. jt \in [SUBSET S -> Int]
      BY <3>2, <3>3
    <3>5. ASSUME NEW s \in SUBSET S, Cardinality(s) <= n  PROVE jt[s] = OneMore(f, jt, s)
      <4>1. s # {} => Taken(s) \in s /\ Cardinality(s \ {Taken(s)}) <= n - 1
        BY <1>1, <2>2, <3>5, TakenFrom
      <4>2. s # {} => jt[s \ {Taken(s)}] = it[s \ {Taken(s)}]
        BY <4>1
      <4>3. OneMore(f, jt, s) = OneMore(f, it, s)
        BY <4>2 DEF OneMore
      <4>4. jt[s] = OneMore(f, it, s)
        BY <3>2
      <4>. QED
        BY <4>3, <4>4
    <3>6. Upto(jt, n)
      BY <3>5
    <3> HIDE DEF jt, Upto
    <3>7. \E k \in [SUBSET S -> Int] : Upto(k, n)
      BY <3>4, <3>6
    <3>. QED
      BY <2>2, <3>7
  <2>. QED
    BY <2>3, <2>4
<1>3. PICK it \in [SUBSET S -> Int] : Upto(it, Cardinality(S))
  BY <1>1, <1>2
<1>4. \A s \in SUBSET S : it[s] = OneMore(f, it, s)
  BY <1>1, <1>3, FS_Subset
<1>. QED
  BY <1>4 DEF Adds

\* One term more or less changes the sum by as much.
LEMMA SumsDiffer ==
  ASSUME NEW S, IsFiniteSet(S), NEW f \in [S -> Int], NEW g \in [S -> Int], NEW c \in S, NEW d \in Int,
         g[c] = f[c] + d, \A x \in S \ {c} : g[x] = f[x],
         NEW it, NEW jt, Adds(f, it, S), Adds(g, jt, S)
  PROVE  it[S] \in Int /\ jt[S] = it[S] + d
<1> DEFINE Ok(s) == it[s] \in Int /\ jt[s] = it[s] + IF c \in s THEN d ELSE 0
           Bad == {n \in Nat : \E s \in SUBSET S : Cardinality(s) = n /\ ~ Ok(s)}
<1>1. \A s \in SUBSET S : IsFiniteSet(s) /\ Cardinality(s) \in Nat
  BY FS_Subset, FS_CardinalityType
<1>2. Bad = {}
  <2>1. SUFFICES ASSUME Bad # {}  PROVE FALSE
    OBVIOUS
  <2>2. PICK n \in Bad : \A m \in Nat : m < n => m \notin Bad
    BY <2>1, Least
  <2>3. PICK s \in SUBSET S : Cardinality(s) = n /\ ~ Ok(s)
    BY <2>2
  <2>4. it[s] = OneMore(f, it, s) /\ jt[s] = OneMore(g, jt, s)
    BY DEF Adds
  <2>5. s # {}
    BY <2>3, <2>4 DEF OneMore
  <2> DEFINE x == Taken(s)
             less == s \ {Taken(s)}
  <2>6. x \in s /\ Cardinality(less) = n - 1 /\ n - 1 \in Nat /\ less \in SUBSET S
    BY <1>1, <2>3, <2>5, TakenFrom
  <2>7. n - 1 \notin Bad
    BY <2>2, <2>6
  <2>8. Ok(less)
    BY <2>6, <2>7
  <2>9. it[s] = f[x] + it[less] /\ jt[s] = g[x] + jt[less]
    BY <2>4, <2>5 DEF OneMore
  <2>10. CASE x = c
    <3>1. c \notin less /\ c \in s
      BY <2>6, <2>10
    <3>2. g[x] = f[x] + d /\ f[x] \in Int
      BY <2>10
    <3> HIDE DEF x, less
    <3>3. it[less] \in Int /\ jt[less] = it[less] + 0
      BY <2>8, <3>1
    <3>4. it[s] \in Int /\ jt[s] = it[s] + d
      BY <2>9, <3>2, <3>3
    <3>. QED
      BY <2>3, <3>1, <3>4
  <2>11. CASE x # c
    <3>1. c \in less <=> c \in s
      BY <2>11
    <3>2. g[x] = f[x] /\ f[x] \in Int
      BY <2>6, <2>11
    <3> HIDE DEF x, less
    <3>3. it[s] \in Int /\ jt[s] = it[s] + IF c \in less THEN d ELSE 0
      BY <2>8, <2>9, <3>2
    <3>. QED
      BY <2>3, <3>1, <3>3
  <2>. QED
    BY <2>10, <2>11
<1>3. Ok(S)
  BY <1>1, <1>2
<1>. QED
  BY <1>3

Goods == [items : Int, coins : Int]
CarriedItems(r) == MapThenSumSet(LAMBDA c : r[c].items, Characters)
CoinsOf(r) == MapThenSumSet(LAMBDA c : r[c].coins, Characters)
CachedItems(s) == MapThenSumSet(LAMBDA c : Cardinality(s[c].items), Characters)

\* Each of the four is the sum of a function on the characters.
LEMMA CarriedItemsIs ==
  ASSUME IsFiniteSet(Characters), NEW r, NEW f \in [Characters -> Int],
         \A c \in Characters : f[c] = r[c].items
  PROVE  \E it : Adds(f, it, Characters) /\ CarriedItems(r) = it[Characters]
<1> DEFINE One(it, s) == IF s = {} THEN 0 ELSE r[CHOOSE x \in s : TRUE].items + it[s \ {CHOOSE x \in s : TRUE}]
           P(it) == it = [s \in SUBSET Characters |-> One(it, s)]
           sum == CHOOSE it : P(it)
<1>1. CarriedItems(r) = sum[Characters]
  BY DEF CarriedItems, MapThenSumSet, MapThenFoldSet
<1>2. \A it : \A s \in SUBSET Characters : One(it, s) = OneMore(f, it, s)
  BY DEF OneMore, Taken
<1> HIDE DEF One
<1>3. \A it : P(it) <=> Adds(f, it, Characters)
  BY <1>2 DEF Adds
<1>4. \E it : P(it)
  BY <1>3, SumsExist
<1> HIDE DEF P
<1>5. P(sum)
  BY <1>4
<1>. QED
  BY <1>1, <1>3, <1>5

LEMMA CoinsOfIs ==
  ASSUME IsFiniteSet(Characters), NEW r, NEW f \in [Characters -> Int],
         \A c \in Characters : f[c] = r[c].coins
  PROVE  \E it : Adds(f, it, Characters) /\ CoinsOf(r) = it[Characters]
<1> DEFINE One(it, s) == IF s = {} THEN 0 ELSE r[CHOOSE x \in s : TRUE].coins + it[s \ {CHOOSE x \in s : TRUE}]
           P(it) == it = [s \in SUBSET Characters |-> One(it, s)]
           sum == CHOOSE it : P(it)
<1>1. CoinsOf(r) = sum[Characters]
  BY DEF CoinsOf, MapThenSumSet, MapThenFoldSet
<1>2. \A it : \A s \in SUBSET Characters : One(it, s) = OneMore(f, it, s)
  BY DEF OneMore, Taken
<1> HIDE DEF One
<1>3. \A it : P(it) <=> Adds(f, it, Characters)
  BY <1>2 DEF Adds
<1>4. \E it : P(it)
  BY <1>3, SumsExist
<1> HIDE DEF P
<1>5. P(sum)
  BY <1>4
<1>. QED
  BY <1>1, <1>3, <1>5

LEMMA CachedItemsIs ==
  ASSUME IsFiniteSet(Characters), NEW r, NEW f \in [Characters -> Int],
         \A c \in Characters : f[c] = Cardinality(r[c].items)
  PROVE  \E it : Adds(f, it, Characters) /\ CachedItems(r) = it[Characters]
<1> DEFINE One(it, s) == IF s = {} THEN 0
                         ELSE Cardinality(r[CHOOSE x \in s : TRUE].items) + it[s \ {CHOOSE x \in s : TRUE}]
           P(it) == it = [s \in SUBSET Characters |-> One(it, s)]
           sum == CHOOSE it : P(it)
<1>1. CachedItems(r) = sum[Characters]
  BY DEF CachedItems, MapThenSumSet, MapThenFoldSet
<1>2. \A it : \A s \in SUBSET Characters : One(it, s) = OneMore(f, it, s)
  BY DEF OneMore, Taken
<1> HIDE DEF One
<1>3. \A it : P(it) <=> Adds(f, it, Characters)
  BY <1>2 DEF Adds
<1>4. \E it : P(it)
  BY <1>3, SumsExist
<1> HIDE DEF P
<1>5. P(sum)
  BY <1>4
<1>. QED
  BY <1>1, <1>3, <1>5

LEMMA TotalsAre ==
  ASSUME NEW r, NEW s
  PROVE  /\ TotalItems(r, s) = CarriedItems(r) + CachedItems(s)
         /\ TotalCoins(r, s) = CoinsOf(r) + CoinsOf(s)
  BY DEF TotalItems, TotalCoins, CarriedItems, CachedItems, CoinsOf, CoinsOf

LEMMA CarriedItemsDiffer ==
  ASSUME IsFiniteSet(Characters), NEW r, NEW q, NEW c \in Characters, NEW d \in Int,
         \A x \in Characters : r[x].items \in Int,
         q[c].items = r[c].items + d,
         \A x \in Characters : x # c => q[x].items = r[x].items
  PROVE  CarriedItems(r) \in Int /\ CarriedItems(q) = CarriedItems(r) + d
<1> DEFINE f == [x \in Characters |-> r[x].items]
           g == [x \in Characters |-> q[x].items]
<1>1. f \in [Characters -> Int]
  OBVIOUS
<1>2. g \in [Characters -> Int]
  <2>1. \A x \in Characters : q[x].items \in Int
    OBVIOUS
  <2>. QED
    BY <2>1
<1>3. g[c] = f[c] + d /\ \A x \in Characters \ {c} : g[x] = f[x]
  OBVIOUS
<1>4. \A x \in Characters : f[x] = r[x].items /\ g[x] = q[x].items
  OBVIOUS
<1> HIDE DEF f, g
<1>5. PICK it : Adds(f, it, Characters) /\ CarriedItems(r) = it[Characters]
  BY <1>1, <1>4, CarriedItemsIs
<1>6. PICK jt : Adds(g, jt, Characters) /\ CarriedItems(q) = jt[Characters]
  BY <1>2, <1>4, CarriedItemsIs
<1>7. it[Characters] \in Int /\ jt[Characters] = it[Characters] + d
  BY <1>1, <1>2, <1>3, <1>5, <1>6, SumsDiffer
<1>. QED
  BY <1>5, <1>6, <1>7

LEMMA CoinsOfDiffer ==
  ASSUME IsFiniteSet(Characters), NEW r, NEW q, NEW c \in Characters, NEW d \in Int,
         \A x \in Characters : r[x].coins \in Int,
         q[c].coins = r[c].coins + d,
         \A x \in Characters : x # c => q[x].coins = r[x].coins
  PROVE  CoinsOf(r) \in Int /\ CoinsOf(q) = CoinsOf(r) + d
<1> DEFINE f == [x \in Characters |-> r[x].coins]
           g == [x \in Characters |-> q[x].coins]
<1>1. f \in [Characters -> Int]
  OBVIOUS
<1>2. g \in [Characters -> Int]
  <2>1. \A x \in Characters : q[x].coins \in Int
    OBVIOUS
  <2>. QED
    BY <2>1
<1>3. g[c] = f[c] + d /\ \A x \in Characters \ {c} : g[x] = f[x]
  OBVIOUS
<1>4. \A x \in Characters : f[x] = r[x].coins /\ g[x] = q[x].coins
  OBVIOUS
<1> HIDE DEF f, g
<1>5. PICK it : Adds(f, it, Characters) /\ CoinsOf(r) = it[Characters]
  BY <1>1, <1>4, CoinsOfIs
<1>6. PICK jt : Adds(g, jt, Characters) /\ CoinsOf(q) = jt[Characters]
  BY <1>2, <1>4, CoinsOfIs
<1>7. it[Characters] \in Int /\ jt[Characters] = it[Characters] + d
  BY <1>1, <1>2, <1>3, <1>5, <1>6, SumsDiffer
<1>. QED
  BY <1>5, <1>6, <1>7

LEMMA CachedItemsDiffer ==
  ASSUME IsFiniteSet(Characters), NEW r, NEW q, NEW c \in Characters, NEW d \in Int,
         \A x \in Characters : Cardinality(r[x].items) \in Int,
         Cardinality(q[c].items) = Cardinality(r[c].items) + d,
         \A x \in Characters : x # c => Cardinality(q[x].items) = Cardinality(r[x].items)
  PROVE  CachedItems(r) \in Int /\ CachedItems(q) = CachedItems(r) + d
<1> DEFINE f == [x \in Characters |-> Cardinality(r[x].items)]
           g == [x \in Characters |-> Cardinality(q[x].items)]
<1>1. f \in [Characters -> Int]
  OBVIOUS
<1>2. g \in [Characters -> Int]
  <2>1. \A x \in Characters : Cardinality(q[x].items) \in Int
    OBVIOUS
  <2>. QED
    BY <2>1
<1>3. g[c] = f[c] + d /\ \A x \in Characters \ {c} : g[x] = f[x]
  OBVIOUS
<1>4. \A x \in Characters : f[x] = Cardinality(r[x].items) /\ g[x] = Cardinality(q[x].items)
  OBVIOUS
<1> HIDE DEF f, g
<1>5. PICK it : Adds(f, it, Characters) /\ CachedItems(r) = it[Characters]
  BY <1>1, <1>4, CachedItemsIs
<1>6. PICK jt : Adds(g, jt, Characters) /\ CachedItems(q) = jt[Characters]
  BY <1>2, <1>4, CachedItemsIs
<1>7. it[Characters] \in Int /\ jt[Characters] = it[Characters] + d
  BY <1>1, <1>2, <1>3, <1>5, <1>6, SumsDiffer
<1>. QED
  BY <1>5, <1>6, <1>7

\* From r to q character c gains; from s to q its cache is refilled.
Gains(r, q, c, i, n) == q = [r EXCEPT ![c] = [items |-> r[c].items + i, coins |-> r[c].coins + n]]
Refilled(s, q, c, ids, n) == q = [s EXCEPT ![c] = [items |-> ids, coins |-> s[c].coins + n]]

\* What one character gains, all of them carry more.
LEMMA CarryChanges ==
  ASSUME IsFiniteSet(Characters), NEW r \in [Characters -> Goods],
         NEW c \in Characters, NEW i \in Int, NEW n \in Int,
         NEW q, Gains(r, q, c, i, n)
  PROVE  /\ q \in [Characters -> Goods]
         /\ CarriedItems(r) \in Int /\ CarriedItems(q) = CarriedItems(r) + i
         /\ CoinsOf(r) \in Int /\ CoinsOf(q) = CoinsOf(r) + n
<1>1. q \in [Characters -> Goods] /\ \A x \in Characters : r[x].items \in Int /\ r[x].coins \in Int
  BY DEF Goods, Gains
<1>2. /\ \A x \in Characters : r[x].items \in Int
      /\ q[c].items = r[c].items + i
      /\ \A x \in Characters : x # c => q[x].items = r[x].items
  BY <1>1 DEF Gains
<1>5. /\ \A x \in Characters : r[x].coins \in Int
      /\ q[c].coins = r[c].coins + n
      /\ \A x \in Characters : x # c => q[x].coins = r[x].coins
  BY <1>1 DEF Gains
<1>3. CarriedItems(r) \in Int /\ CarriedItems(q) = CarriedItems(r) + i
  BY <1>2, CarriedItemsDiffer
<1>4. CoinsOf(r) \in Int /\ CoinsOf(q) = CoinsOf(r) + n
  BY <1>5, CoinsOfDiffer
<1>. QED
  BY <1>1, <1>3, <1>4

Hoards == {v \in [items : SUBSET Ids, coins : Int] : IsFiniteSet(v.items)}

\* What one cache gains, all of them hold more.
LEMMA CacheChanges ==
  ASSUME IsFiniteSet(Characters), NEW s \in [Characters -> Hoards],
         NEW c \in Characters, NEW ids \in SUBSET Ids, IsFiniteSet(ids), NEW n \in Int,
         NEW q, Refilled(s, q, c, ids, n)
  PROVE  /\ q \in [Characters -> Hoards]
         /\ CachedItems(s) \in Int
         /\ CachedItems(q) = CachedItems(s) + (Cardinality(ids) - Cardinality(s[c].items))
         /\ CoinsOf(s) \in Int /\ CoinsOf(q) = CoinsOf(s) + n
<1> DEFINE d == Cardinality(ids) - Cardinality(s[c].items)
<1>0. \A x \in Characters : IsFiniteSet(s[x].items) /\ s[x].coins \in Int /\ s[x].items \in SUBSET Ids
  BY DEF Hoards
<1>1. q \in [Characters -> Hoards]
  <2>1. [items |-> ids, coins |-> s[c].coins + n] \in Hoards
    BY <1>0 DEF Hoards
  <2>. QED
    BY <2>1 DEF Refilled
<1>2. /\ \A x \in Characters : Cardinality(s[x].items) \in Int
      /\ Cardinality(ids) \in Int
  BY <1>0, FS_CardinalityType
<1>3. /\ q[c].items = ids /\ q[c].coins = s[c].coins + n
      /\ \A x \in Characters : x # c => q[x] = s[x]
  BY DEF Refilled
<1>4. d \in Int /\ Cardinality(q[c].items) = Cardinality(s[c].items) + d
  <2>1. Cardinality(s[c].items) \in Int /\ Cardinality(q[c].items) = Cardinality(ids)
    BY <1>2, <1>3
  <2>. QED
    BY <1>2, <2>1
<1>5. \A x \in Characters : x # c => Cardinality(q[x].items) = Cardinality(s[x].items)
  BY <1>3
<1>8. /\ \A x \in Characters : s[x].coins \in Int
      /\ q[c].coins = s[c].coins + n
      /\ \A x \in Characters : x # c => q[x].coins = s[x].coins
  BY <1>0, <1>3
<1> HIDE DEF d
<1>6. CachedItems(s) \in Int /\ CachedItems(q) = CachedItems(s) + d
  <2>1. /\ \A x \in Characters : Cardinality(s[x].items) \in Int
        /\ Cardinality(q[c].items) = Cardinality(s[c].items) + d
        /\ \A x \in Characters : x # c => Cardinality(q[x].items) = Cardinality(s[x].items)
    BY <1>2, <1>4, <1>5
  <2>. QED
    BY <1>4, <2>1, CachedItemsDiffer
<1>7. CoinsOf(s) \in Int /\ CoinsOf(q) = CoinsOf(s) + n
  BY <1>8, CoinsOfDiffer
<1>. QED
  BY <1>1, <1>6, <1>7 DEF d

\* The carried and the cached things are counted in numbers.
Counted(r, s) == r \in [Characters -> Goods] /\ s \in [Characters -> Hoards]

LEMMA CachedAreNumbers ==
  ASSUME IsFiniteSet(Characters), NEW s \in [Characters -> Hoards], NEW c \in Characters
  PROVE  CachedItems(s) \in Int /\ CoinsOf(s) \in Int
<1>1. s[c].items \in SUBSET Ids /\ IsFiniteSet(s[c].items)
  BY DEF Hoards
<1>2. PICK q : Refilled(s, q, c, s[c].items, 0)
  BY DEF Refilled
<1>. QED
  BY <1>1, <1>2, CacheChanges

LEMMA TotalsAreNumbers ==
  ASSUME IsFiniteSet(Characters), NEW r, NEW s, Counted(r, s)
  PROVE  TotalItems(r, s) \in Int /\ TotalCoins(r, s) \in Int
<1>1. CASE Characters = {}
  <2>1. \A x \in Characters : FALSE
    BY <1>1
  <2> DEFINE f == [x \in Characters |-> 0]
  <2>2. f \in [Characters -> Int] /\ \A x \in Characters : /\ f[x] = r[x].items /\ f[x] = r[x].coins
                                                           /\ f[x] = s[x].coins /\ f[x] = Cardinality(s[x].items)
    BY <2>1
  <2> HIDE DEF f
  <2>3. \A it : Adds(f, it, Characters) => it[Characters] = 0
    BY <1>1 DEF Adds, OneMore
  <2>4. CarriedItems(r) = 0 /\ CoinsOf(r) = 0 /\ CachedItems(s) = 0 /\ CoinsOf(s) = 0
    BY <2>2, <2>3, CarriedItemsIs, CoinsOfIs, CachedItemsIs
  <2>. QED
    BY <2>4, TotalsAre
<1>2. ASSUME NEW c \in Characters  PROVE TotalItems(r, s) \in Int /\ TotalCoins(r, s) \in Int
  <2>1. CarriedItems(r) \in Int /\ CoinsOf(r) \in Int
    <3>1. PICK q : Gains(r, q, c, 0, 0)
      BY DEF Gains
    <3>2. r \in [Characters -> Goods]
      BY DEF Counted
    <3>. QED
      BY <3>1, <3>2, CarryChanges
  <2>3. CachedItems(s) \in Int /\ CoinsOf(s) \in Int
    BY CachedAreNumbers DEF Counted
  <2>. QED
    BY <2>1, <2>3, TotalsAre
<1>. QED
  BY <1>1, <1>2

\* What a character gains and its cache loses, or the reverse.
LEMMA BothChange ==
  ASSUME IsFiniteSet(Characters), NEW r, NEW s, Counted(r, s),
         NEW x \in Characters, NEW i \in Int, NEW n \in Int, NEW m \in Int,
         NEW ids \in SUBSET Ids, IsFiniteSet(ids),
         NEW r2, Gains(r, r2, x, i, n),
         NEW s2, Refilled(s, s2, x, ids, m)
  PROVE  /\ Counted(r2, s2)
         /\ TotalItems(r2, s2) = TotalItems(r, s) + i + Cardinality(ids) - Cardinality(s[x].items)
         /\ TotalCoins(r2, s2) = TotalCoins(r, s) + n + m
<1>1. /\ r2 \in [Characters -> Goods]
      /\ CarriedItems(r) \in Int /\ CarriedItems(r2) = CarriedItems(r) + i
      /\ CoinsOf(r) \in Int /\ CoinsOf(r2) = CoinsOf(r) + n
  <2>1. r \in [Characters -> Goods]
    BY DEF Counted
  <2>. QED
    BY <2>1, CarryChanges
<1>2. /\ s2 \in [Characters -> Hoards]
      /\ CachedItems(s) \in Int
      /\ CachedItems(s2) = CachedItems(s) + (Cardinality(ids) - Cardinality(s[x].items))
      /\ CoinsOf(s) \in Int /\ CoinsOf(s2) = CoinsOf(s) + m
  <2>1. s \in [Characters -> Hoards]
    BY DEF Counted
  <2>. QED
    BY <2>1, CacheChanges
<1>3. Cardinality(ids) \in Int /\ Cardinality(s[x].items) \in Int
  BY FS_CardinalityType DEF Counted, Hoards
<1>4. /\ TotalItems(r, s) = CarriedItems(r) + CachedItems(s)
      /\ TotalItems(r2, s2) = CarriedItems(r2) + CachedItems(s2)
      /\ TotalCoins(r, s) = CoinsOf(r) + CoinsOf(s)
      /\ TotalCoins(r2, s2) = CoinsOf(r2) + CoinsOf(s2)
  BY TotalsAre
<1>5. Counted(r2, s2)
  BY <1>1, <1>2 DEF Counted
<1>6. TotalItems(r2, s2) = TotalItems(r, s) + i + Cardinality(ids) - Cardinality(s[x].items)
  <2> DEFINE ci == CarriedItems(r)  ci2 == CarriedItems(r2)  ki == CachedItems(s)  ki2 == CachedItems(s2)
             ni == Cardinality(ids)  oi == Cardinality(s[x].items)
  <2>1. /\ ci \in Int /\ ci2 = ci + i /\ ki \in Int /\ ki2 = ki + (ni - oi) /\ ni \in Int /\ oi \in Int
        /\ TotalItems(r, s) = ci + ki /\ TotalItems(r2, s2) = ci2 + ki2
    BY <1>1, <1>2, <1>3, <1>4
  <2> HIDE DEF ci, ci2, ki, ki2, ni, oi
  <2>2. TotalItems(r2, s2) = TotalItems(r, s) + i + ni - oi
    BY <2>1
  <2>. QED
    BY <2>2 DEF ni, oi
<1>7. TotalCoins(r2, s2) = TotalCoins(r, s) + n + m
  <2> DEFINE cc == CoinsOf(r)  cc2 == CoinsOf(r2)  kc == CoinsOf(s)  kc2 == CoinsOf(s2)
  <2>1. /\ cc \in Int /\ cc2 = cc + n /\ kc \in Int /\ kc2 = kc + m
        /\ TotalCoins(r, s) = cc + kc /\ TotalCoins(r2, s2) = cc2 + kc2
    BY <1>1, <1>2, <1>4
  <2> HIDE DEF cc, cc2, kc, kc2
  <2>. QED
    BY <2>1
<1>. QED
  BY <1>5, <1>6, <1>7

LEMMA NothingChanges ==
  ASSUME NEW r, NEW s, Counted(r, s), NEW x \in Characters
  PROVE  /\ Gains(r, r, x, 0, 0) /\ Refilled(s, s, x, s[x].items, 0)
         /\ s[x].items \in SUBSET Ids /\ IsFiniteSet(s[x].items) /\ Cardinality(s[x].items) \in Int
<1>1. r[x] \in Goods /\ s[x] \in Hoards /\ r \in [Characters -> Goods] /\ s \in [Characters -> Hoards]
  BY DEF Counted
<1>2. [items |-> r[x].items + 0, coins |-> r[x].coins + 0] = r[x]
  BY <1>1 DEF Goods
<1>3. [items |-> s[x].items, coins |-> s[x].coins + 0] = s[x]
  BY <1>1 DEF Hoards
<1>. QED
  BY <1>1, <1>2, <1>3, FS_CardinalityType DEF Gains, Refilled, Hoards

\* What one character gains is gained.
LEMMA CarryTotals ==
  ASSUME IsFiniteSet(Characters), NEW r, NEW s, Counted(r, s),
         NEW x \in Characters, NEW i \in Int, NEW n \in Int, NEW q, Gains(r, q, x, i, n)
  PROVE  /\ Counted(q, s)
         /\ TotalItems(r, s) \in Int /\ TotalItems(q, s) = TotalItems(r, s) + i
         /\ TotalCoins(r, s) \in Int /\ TotalCoins(q, s) = TotalCoins(r, s) + n
<1>1. /\ q \in [Characters -> Goods]
      /\ CarriedItems(r) \in Int /\ CarriedItems(q) = CarriedItems(r) + i
      /\ CoinsOf(r) \in Int /\ CoinsOf(q) = CoinsOf(r) + n
  <2>1. r \in [Characters -> Goods]
    BY DEF Counted
  <2>. QED
    BY <2>1, CarryChanges
<1>2. CachedItems(s) \in Int /\ CoinsOf(s) \in Int
  BY CachedAreNumbers DEF Counted
<1>3. /\ TotalItems(r, s) = CarriedItems(r) + CachedItems(s)
      /\ TotalItems(q, s) = CarriedItems(q) + CachedItems(s)
      /\ TotalCoins(r, s) = CoinsOf(r) + CoinsOf(s)
      /\ TotalCoins(q, s) = CoinsOf(q) + CoinsOf(s)
  BY TotalsAre
<1>4. TotalItems(r, s) \in Int /\ TotalItems(q, s) = TotalItems(r, s) + i
  BY <1>1, <1>2, <1>3
<1>5. TotalCoins(r, s) \in Int /\ TotalCoins(q, s) = TotalCoins(r, s) + n
  BY <1>1, <1>2, <1>3
<1>. QED
  BY <1>1, <1>4, <1>5 DEF Counted

\* What one of two characters gives the other gets.
LEMMA ExchangesKeepTotals ==
  ASSUME IsFiniteSet(Characters), Counted(Carried, Cached),
         NEW x \in Characters, NEW y \in Characters, x # y, NEW i \in Int, NEW n \in Int,
         Promise!Exchange(x, y, i, n)
  PROVE  /\ Counted(Carried', Cached')
         /\ TotalItems(Carried', Cached') = TotalItems(Carried, Cached)
         /\ TotalCoins(Carried', Cached') = TotalCoins(Carried, Cached)
<1> DEFINE between == [Carried EXCEPT ![x] = [items |-> Carried[x].items + -i, coins |-> Carried[x].coins + -n]]
<1>1. Carried \in [Characters -> Goods] /\ Cached \in [Characters -> Hoards] /\ Cached' = Cached
  BY DEF Counted, Promise!Exchange
<1>2. Gains(Carried, between, x, -i, -n)
  BY DEF Gains
<1>3. Gains(between, Carried', y, i, n)
  <2>1. between[y] = Carried[y]
    BY <1>1
  <2>2. Carried[x].items - i = Carried[x].items + -i /\ Carried[x].coins - n = Carried[x].coins + -n
    BY <1>1 DEF Goods
  <2>3. Carried' = [c \in Characters |-> IF c = y THEN [items |-> between[y].items + i, coins |-> between[y].coins + n]
                                         ELSE between[c]]
    BY <1>1, <2>1, <2>2 DEF Promise!Exchange
  <2>4. between \in [Characters -> Goods]
    BY <1>1 DEF Goods
  <2> HIDE DEF between
  <2>. QED
    BY <2>3, <2>4 DEF Gains
<1> HIDE DEF between
<1>4. -i \in Int /\ -n \in Int
  OBVIOUS
<1>5. /\ Counted(between, Cached)
      /\ TotalItems(Carried, Cached) \in Int
      /\ TotalItems(between, Cached) = TotalItems(Carried, Cached) + -i
      /\ TotalCoins(Carried, Cached) \in Int
      /\ TotalCoins(between, Cached) = TotalCoins(Carried, Cached) + -n
  BY <1>2, <1>4, CarryTotals
<1>6. /\ Counted(Carried', Cached)
      /\ TotalItems(Carried', Cached) = TotalItems(between, Cached) + i
      /\ TotalCoins(Carried', Cached) = TotalCoins(between, Cached) + n
  BY <1>3, <1>5, CarryTotals
<1>7. /\ TotalItems(Carried', Cached) = TotalItems(Carried, Cached)
      /\ TotalCoins(Carried', Cached) = TotalCoins(Carried, Cached)
  BY <1>5, <1>6
<1>. QED
  BY <1>1, <1>6, <1>7

\* There are di items and dc coins more than there were.
Shift(di, dc) ==
  /\ Counted(Carried', Cached')
  /\ TotalItems(Carried, Cached) \in Int
  /\ TotalItems(Carried', Cached') = TotalItems(Carried, Cached) + di
  /\ TotalCoins(Carried, Cached) \in Int
  /\ TotalCoins(Carried', Cached') = TotalCoins(Carried, Cached) + dc

\* A character's things and its cache change together.
LEMMA OwnChanges ==
  ASSUME IsFiniteSet(Characters), Counted(Carried, Cached), NEW x \in Characters,
         NEW i \in Int, NEW n \in Int, NEW m \in Int, NEW ids \in SUBSET Ids, IsFiniteSet(ids),
         Gains(Carried, Carried', x, i, n), Refilled(Cached, Cached', x, ids, m),
         NEW k \in Int, Cardinality(ids) = Cardinality(Cached[x].items) + k
  PROVE  Shift(i + k, n + m)
<1> DEFINE ti == TotalItems(Carried, Cached)
           tc == TotalCoins(Carried, Cached)
           o == Cardinality(Cached[x].items)
<1>1. ti \in Int /\ tc \in Int /\ o \in Int
  BY TotalsAreNumbers, NothingChanges
<1>2. /\ Counted(Carried', Cached')
      /\ TotalItems(Carried', Cached') = ti + i + Cardinality(ids) - o
      /\ TotalCoins(Carried', Cached') = tc + n + m
  BY BothChange
<1>3. Cardinality(ids) = o + k
  OBVIOUS
<1> HIDE DEF ti, tc, o
<1>4. /\ TotalItems(Carried', Cached') = ti + (i + k)
      /\ TotalCoins(Carried', Cached') = tc + (n + m)
  BY <1>1, <1>2, <1>3
<1>. QED
  BY <1>1, <1>2, <1>4 DEF ti, tc, Shift

LEMMA OneIdMoreOrLess ==
  ASSUME NEW s, IsFiniteSet(s), NEW id
  PROVE  /\ IsFiniteSet(s \cup {id}) /\ IsFiniteSet(s \ {id}) /\ Cardinality(s) \in Int
         /\ id \notin s => Cardinality(s \cup {id}) = Cardinality(s) + 1
         /\ id \in s => Cardinality(s \ {id}) = Cardinality(s) + -1
<1>1. Cardinality(s) \in Int
  BY FS_CardinalityType
<1>2. IsFiniteSet(s \cup {id}) /\ (id \notin s => Cardinality(s \cup {id}) = Cardinality(s) + 1)
  BY FS_AddElement
<1>3. IsFiniteSet(s \ {id}) /\ (id \in s => Cardinality(s \ {id}) = Cardinality(s) - 1)
  BY FS_RemoveElement
<1>. QED
  BY <1>1, <1>2, <1>3

\* An all-or-nothing move moves what it moves.
LEMMA MovesKeepTotals ==
  ASSUME IsFiniteSet(Characters), Counted(Carried, Cached), Promise!Moves
  PROVE  /\ Counted(Carried', Cached')
         /\ TotalItems(Carried', Cached') = TotalItems(Carried, Cached)
         /\ TotalCoins(Carried', Cached') = TotalCoins(Carried, Cached)
<1> DEFINE Same == /\ Counted(Carried', Cached')
                   /\ TotalItems(Carried', Cached') = TotalItems(Carried, Cached)
                   /\ TotalCoins(Carried', Cached') = TotalCoins(Carried, Cached)
<1>0. Amounts \subseteq Int /\ Price \in Int /\ -Price \in Int
  BY AmountsAssumption
<1>1. PICK x \in Characters :
        \/ \E y \in Characters \ {x} :
             Promise!Give(x, y) \/ Promise!Trade(x, y) \/ (\E n \in Amounts : Promise!Pay(x, y, n))
        \/ \E id \in Ids : Promise!StashItem(x, id) \/ Promise!RetrieveItem(x, id)
        \/ \E n \in Amounts : Promise!StashCoins(x, n) \/ Promise!RetrieveCoins(x, n)
  BY DEF Promise!Moves
<1>2. ASSUME NEW y \in Characters \ {x}, Promise!Give(x, y)  PROVE Same
  BY <1>2, ExchangesKeepTotals DEF Promise!Give
<1>3. ASSUME NEW y \in Characters \ {x}, Promise!Trade(x, y)  PROVE Same
  BY <1>0, <1>3, ExchangesKeepTotals DEF Promise!Trade
<1>4. ASSUME NEW y \in Characters \ {x}, NEW n \in Amounts, Promise!Pay(x, y, n)  PROVE Same
  <2>1. n \in Int
    BY <1>0
  <2>. QED
    BY <1>4, <2>1, ExchangesKeepTotals DEF Promise!Pay
<1>5. IsFiniteSet(Cached[x].items) /\ Cached[x].items \in SUBSET Ids /\ Cardinality(Cached[x].items) \in Int
  BY NothingChanges
<1>6. Carried \in [Characters -> Goods] /\ Cached \in [Characters -> Hoards]
  BY DEF Counted
<1>7. ASSUME NEW id \in Ids, Promise!StashItem(x, id)  PROVE Same
  <2> DEFINE ids == Cached[x].items \cup {id}
             gain == -1
             more == 1
             none == 0
  <2>1. ids \in SUBSET Ids /\ IsFiniteSet(ids) /\ Cardinality(ids) = Cardinality(Cached[x].items) + more
    BY <1>5, <1>7, OneIdMoreOrLess DEF Promise!StashItem
  <2>2. Gains(Carried, Carried', x, gain, none)
    BY <1>7 DEF Gains, Promise!StashItem, Promise!Change
  <2>3. Refilled(Cached, Cached', x, ids, none)
    <3>1. Cached[x].coins + 0 = Cached[x].coins
      BY <1>6 DEF Hoards
    <3>. QED
      BY <1>7, <3>1 DEF Refilled, Promise!StashItem, Promise!CacheItems
  <2>4. gain \in Int /\ more \in Int /\ none \in Int /\ gain + more = 0 /\ none + none = 0
    OBVIOUS
  <2> HIDE DEF ids, gain, more, none
  <2>5. Shift(gain + more, none + none)
    BY <2>1, <2>2, <2>3, <2>4, OwnChanges
  <2>. QED
    BY <2>4, <2>5 DEF Shift
<1>8. ASSUME NEW id \in Ids, Promise!RetrieveItem(x, id)  PROVE Same
  <2> DEFINE ids == Cached[x].items \ {id}
             gain == 1
             more == -1
             none == 0
  <2>1. ids \in SUBSET Ids /\ IsFiniteSet(ids) /\ Cardinality(ids) = Cardinality(Cached[x].items) + more
    BY <1>5, <1>8, OneIdMoreOrLess DEF Promise!RetrieveItem
  <2>2. Gains(Carried, Carried', x, gain, none)
    BY <1>8 DEF Gains, Promise!RetrieveItem, Promise!Change
  <2>3. Refilled(Cached, Cached', x, ids, none)
    <3>1. Cached[x].coins + 0 = Cached[x].coins
      BY <1>6 DEF Hoards
    <3>. QED
      BY <1>8, <3>1 DEF Refilled, Promise!RetrieveItem, Promise!CacheItems
  <2>4. gain \in Int /\ more \in Int /\ none \in Int /\ gain + more = 0 /\ none + none = 0
    OBVIOUS
  <2> HIDE DEF ids, gain, more, none
  <2>5. Shift(gain + more, none + none)
    BY <2>1, <2>2, <2>3, <2>4, OwnChanges
  <2>. QED
    BY <2>4, <2>5 DEF Shift
<1>9. ASSUME NEW n \in Amounts, Promise!StashCoins(x, n)  PROVE Same
  <2> DEFINE minus == -n
             none == 0
             ids == Cached[x].items
  <2>1. n \in Int /\ minus \in Int /\ none \in Int /\ none + none = 0 /\ minus + n = 0
    BY <1>0
  <2>2. Gains(Carried, Carried', x, none, minus)
    BY <1>9 DEF Gains, Promise!StashCoins, Promise!Change
  <2>3. Refilled(Cached, Cached', x, ids, n)
    BY <1>9 DEF Refilled, Promise!StashCoins, Promise!CacheCoins
  <2>4. ids \in SUBSET Ids /\ IsFiniteSet(ids) /\ Cardinality(ids) = Cardinality(Cached[x].items) + none
    BY <1>5
  <2> HIDE DEF minus, none, ids
  <2>5. Shift(none + none, minus + n)
    BY <2>1, <2>2, <2>3, <2>4, OwnChanges
  <2>. QED
    BY <2>1, <2>5 DEF Shift
<1>10. ASSUME NEW n \in Amounts, Promise!RetrieveCoins(x, n)  PROVE Same
  <2> DEFINE minus == -n
             none == 0
             ids == Cached[x].items
  <2>1. n \in Int /\ minus \in Int /\ none \in Int /\ none + none = 0 /\ n + minus = 0
    BY <1>0
  <2>2. Gains(Carried, Carried', x, none, n)
    BY <1>10 DEF Gains, Promise!RetrieveCoins, Promise!Change
  <2>3. Refilled(Cached, Cached', x, ids, minus)
    BY <1>10 DEF Refilled, Promise!RetrieveCoins, Promise!CacheCoins
  <2>4. ids \in SUBSET Ids /\ IsFiniteSet(ids) /\ Cardinality(ids) = Cardinality(Cached[x].items) + none
    BY <1>5
  <2> HIDE DEF minus, none, ids
  <2>5. Shift(none + none, n + minus)
    BY <2>1, <2>2, <2>3, <2>4, OwnChanges
  <2>. QED
    BY <2>1, <2>5 DEF Shift
<1>. QED
  BY <1>1, <1>2, <1>3, <1>4, <1>7, <1>8, <1>9, <1>10

\* What is done to a character alone changes what there is by as much.
LEMMA CharacterChanges ==
  ASSUME IsFiniteSet(Characters), Counted(Carried, Cached), NEW x \in Characters,
         NEW i \in Int, NEW n \in Int, Promise!Change(x, i, n), UNCHANGED Cached
  PROVE  Shift(i, n)
<1>1. Gains(Carried, Carried', x, i, n)
  BY DEF Gains, Promise!Change
<1>2. /\ Counted(Carried', Cached)
      /\ TotalItems(Carried, Cached) \in Int
      /\ TotalItems(Carried', Cached) = TotalItems(Carried, Cached) + i
      /\ TotalCoins(Carried, Cached) \in Int
      /\ TotalCoins(Carried', Cached) = TotalCoins(Carried, Cached) + n
  BY <1>1, CarryTotals
<1>. QED
  BY <1>2 DEF Shift

\* What is done to a cache alone too.
LEMMA CacheAloneChanges ==
  ASSUME IsFiniteSet(Characters), Counted(Carried, Cached), NEW x \in Characters, UNCHANGED Carried,
         NEW m \in Int, NEW ids \in SUBSET Ids, IsFiniteSet(ids), Refilled(Cached, Cached', x, ids, m),
         NEW k \in Int, Cardinality(ids) = Cardinality(Cached[x].items) + k
  PROVE  Shift(k, m)
<1> DEFINE none == 0
<1>1. Gains(Carried, Carried', x, none, none) /\ none \in Int /\ none + k = k /\ none + m = m
  BY NothingChanges
<1> HIDE DEF none
<1>2. Shift(none + k, none + m)
  BY <1>1, OwnChanges
<1>. QED
  BY <1>1, <1>2

\* A transfer, a retrieval or a deposit of an item that ends in the middle
\* makes nothing.
LEMMA LostItemsMakeNothing ==
  ASSUME IsFiniteSet(Characters), Counted(Carried, Cached), Promise!LosesItem
  PROVE  \E i \in Int : i <= 0 /\ Shift(i, 0)
<1>1. PICK x \in Characters : Promise!LoseItem(x) \/ \E id \in Ids : Promise!LoseCachedItem(x, id)
  BY DEF Promise!LosesItem
<1> DEFINE less == -1
           none == 0
<1>0. less \in Int /\ less <= 0 /\ none \in Int
  OBVIOUS
<1>2. CASE Promise!LoseItem(x)
  <2>1. Promise!Change(x, less, none) /\ UNCHANGED Cached
    BY <1>2 DEF Promise!LoseItem
  <2> HIDE DEF less, none
  <2>2. Shift(less, none)
    BY <1>0, <2>1, CharacterChanges
  <2>. QED
    BY <1>0, <2>2 DEF none
<1>3. ASSUME NEW id \in Ids, Promise!LoseCachedItem(x, id)  PROVE \E i \in Int : i <= 0 /\ Shift(i, 0)
  <2> DEFINE ids == Cached[x].items \ {id}
  <2>1. /\ IsFiniteSet(Cached[x].items) /\ Cached[x].items \in SUBSET Ids
        /\ Cached \in [Characters -> Hoards]
    BY NothingChanges DEF Counted
  <2>2. ids \in SUBSET Ids /\ IsFiniteSet(ids) /\ Cardinality(ids) = Cardinality(Cached[x].items) + less
    BY <1>3, <2>1, OneIdMoreOrLess DEF Promise!LoseCachedItem
  <2>3. Refilled(Cached, Cached', x, ids, none)
    <3>1. Cached[x].coins + 0 = Cached[x].coins
      BY <2>1 DEF Hoards
    <3>. QED
      BY <1>3, <3>1 DEF Refilled, Promise!LoseCachedItem, Promise!CacheItems
  <2>4. UNCHANGED Carried
    BY <1>3 DEF Promise!LoseCachedItem
  <2> HIDE DEF ids, less, none
  <2>5. Shift(less, none)
    BY <1>0, <2>2, <2>3, <2>4, CacheAloneChanges
  <2>. QED
    BY <1>0, <2>5 DEF none
<1>. QED
  BY <1>1, <1>2, <1>3

\* One of coins changes what there is by what it named: less there is only
\* when it named more than nothing.
LEMMA LostCoinsAre ==
  ASSUME IsFiniteSet(Characters), Counted(Carried, Cached), NEW amounts \in SUBSET Amounts,
         Promise!LosesCoins(amounts)
  PROVE  \E n \in amounts : Shift(0, -n)
<1>1. PICK x \in Characters, n \in amounts : Promise!LoseCoins(x, n) \/ Promise!LoseCachedCoins(x, n)
  BY DEF Promise!LosesCoins
<1> DEFINE minus == -n
           none == 0
<1>0. n \in Int /\ minus \in Int /\ none \in Int
  BY AmountsAssumption
<1>2. CASE Promise!LoseCoins(x, n)
  <2>1. Promise!Change(x, none, minus) /\ UNCHANGED Cached
    BY <1>2 DEF Promise!LoseCoins
  <2> HIDE DEF minus, none
  <2>2. Shift(none, minus)
    BY <1>0, <2>1, CharacterChanges
  <2>. QED
    BY <2>2 DEF none, minus
<1>3. CASE Promise!LoseCachedCoins(x, n)
  <2> DEFINE ids == Cached[x].items
  <2>1. ids \in SUBSET Ids /\ IsFiniteSet(ids) /\ Cardinality(ids) \in Int
    BY NothingChanges
  <2>2. Refilled(Cached, Cached', x, ids, minus) /\ UNCHANGED Carried
    BY <1>3 DEF Refilled, Promise!LoseCachedCoins, Promise!CacheCoins
  <2>3. Cardinality(ids) = Cardinality(Cached[x].items) + none
    BY <2>1
  <2> HIDE DEF ids, minus, none
  <2>4. Shift(none, minus)
    BY <1>0, <2>1, <2>2, <2>3, CacheAloneChanges
  <2>. QED
    BY <2>4 DEF none, minus
<1>. QED
  BY <1>1, <1>2, <1>3

\* A trade that ends in the middle makes an item and no coins.
LEMMA LostPaymentsMakeNoCoins ==
  ASSUME IsFiniteSet(Characters), Counted(Carried, Cached), Promise!LosesPayment
  PROVE  Shift(1, -Price)
<1>1. PICK x \in Characters : Promise!LosePayment(x)
  BY DEF Promise!LosesPayment
<1> DEFINE minus == -Price
           one == 1
<1>2. Promise!Change(x, one, minus) /\ UNCHANGED Cached /\ minus \in Int /\ one \in Int
  BY <1>1, AmountsAssumption DEF Promise!LosePayment
<1> HIDE DEF minus, one
<1>3. Shift(one, minus)
  BY <1>2, CharacterChanges
<1>. QED
  BY <1>3 DEF one, minus

\* Of a call that names one character twice all that can be said is that what
\* there is can still be counted.
LEMMA DoublesCount ==
  ASSUME IsFiniteSet(Characters), Counted(Carried, Cached), Promise!Doubles
  PROVE  Counted(Carried', Cached')
<1>1. PICK x \in Characters, i \in Int, n \in Int : Promise!Change(x, i, n) /\ UNCHANGED Cached
  <2>1. PICK x \in Characters :
          Promise!Doubled(x, 1, 0) \/ Promise!Doubled(x, -1, Price) \/ \E n \in Amounts : Promise!Doubled(x, 0, n)
    BY DEF Promise!Doubles
  <2>2. Price \in Int /\ Amounts \subseteq Int /\ 1 \in Int /\ -1 \in Int /\ 0 \in Int
    BY AmountsAssumption
  <2>. QED
    BY <2>1, <2>2 DEF Promise!Doubled
<1>2. Shift(i, n)
  BY <1>1, CharacterChanges
<1>. QED
  BY <1>2 DEF Shift

\* A retrieval of less than nothing where nothing was put down loses it.
LEMMA PaidToNobody ==
  ASSUME IsFiniteSet(Characters), Counted(Carried, Cached), Promise!PaysNobody
  PROVE  \E n \in Int : n <= 0 /\ Shift(0, n)
<1>1. PICK x \in Characters, n \in Amounts : Promise!PayNobody(x, n)
  BY DEF Promise!PaysNobody
<1> DEFINE none == 0
<1>2. Promise!Change(x, none, n) /\ UNCHANGED Cached /\ n <= 0 /\ n \in Int /\ none \in Int
  BY <1>1, AmountsAssumption DEF Promise!PayNobody
<1> HIDE DEF none
<1>3. Shift(none, n)
  BY <1>2, CharacterChanges
<1>. QED
  BY <1>2, <1>3 DEF none

--------------------------------------------------------------------------------
(* What there is.  With the writes that are due counted as made, nothing   *)
(* was made or lost but by the calls amiss names, no coin was made but by  *)
(* one of less than nothing or that names a character twice, and no item   *)
(* but by a trade or one that does.                                        *)

Balanced ==
  /\ Counted(Carried, Cached) /\ began \in Goods
  /\ amiss = {} => began = [items |-> TotalItems(Carried, Cached), coins |-> TotalCoins(Carried, Cached)]
  /\ {"minus", "twice"} \cap amiss = {} => TotalCoins(Carried, Cached) <= began.coins
  /\ {"trade", "twice"} \cap amiss = {} => TotalItems(Carried, Cached) <= began.items

LEMMA BalancedStep ==
  ASSUME IsFiniteSet(Characters), Balanced, Counted(Carried', Cached'), began' = began, amiss \subseteq amiss',
         \/ Shift(0, 0)
         \/ "lost" \in amiss' /\ \E i \in Int, n \in Int : i <= 0 /\ n <= 0 /\ Shift(i, n)
         \/ "minus" \in amiss' /\ \E n \in Int : Shift(0, n)
         \/ "trade" \in amiss' /\ \E i \in Int, n \in Int : n <= 0 /\ Shift(i, n)
         \/ "twice" \in amiss'
  PROVE  Balanced'
<1> DEFINE ti == TotalItems(Carried, Cached)
           tc == TotalCoins(Carried, Cached)
           ui == TotalItems(Carried', Cached')
           uc == TotalCoins(Carried', Cached')
<1>1. ti \in Int /\ tc \in Int /\ ui \in Int /\ uc \in Int /\ began.items \in Int /\ began.coins \in Int
  BY TotalsAreNumbers DEF Balanced, Goods
<1>2. /\ amiss = {} => began = [items |-> ti, coins |-> tc]
      /\ {"minus", "twice"} \cap amiss = {} => tc <= began.coins
      /\ {"trade", "twice"} \cap amiss = {} => ti <= began.items
  BY DEF Balanced
<1>3. \/ ui = ti /\ uc = tc
      \/ "lost" \in amiss' /\ ui <= ti /\ uc <= tc
      \/ "minus" \in amiss' /\ ui = ti
      \/ "trade" \in amiss' /\ uc <= tc
      \/ "twice" \in amiss'
  <2>1. \A i \in Int, n \in Int : Shift(i, n) => ui = ti + i /\ uc = tc + n
    BY DEF Shift
  <2> HIDE DEF ti, tc, ui, uc
  <2>2. Shift(0, 0) => ui = ti /\ uc = tc
    BY <1>1, <2>1
  <2>3. \A i \in Int, n \in Int : i <= 0 /\ n <= 0 /\ Shift(i, n) => ui <= ti /\ uc <= tc
    BY <1>1, <2>1
  <2>4. \A n \in Int : Shift(0, n) => ui = ti
    BY <1>1, <2>1
  <2>5. \A i \in Int, n \in Int : n <= 0 /\ Shift(i, n) => uc <= tc
    BY <1>1, <2>1
  <2>. QED
    BY <2>2, <2>3, <2>4, <2>5
<1>4. /\ amiss' = {} => began = [items |-> ui, coins |-> uc]
      /\ {"minus", "twice"} \cap amiss' = {} => uc <= began.coins
      /\ {"trade", "twice"} \cap amiss' = {} => ui <= began.items
  <2> HIDE DEF ti, tc, ui, uc
  <2>. QED
    BY <1>1, <1>2, <1>3
<1>. QED
  BY <1>4 DEF Balanced

LEMMA NextPreservesBalanced ==
  ASSUME IsFiniteSet(Characters), OnePass, IInv, Balanced, [Next]_vars
  PROVE  Balanced'
<1>1. PICK p \in Passes : Passes = {p}
  BY DEF OnePass
<1>2. began' = began
  BY DEF Next, vars, Call, Find, FindNothing, Delete, ReadX, ReadY, Engine, Refuse,
         RefuseRetrieval, SaveFirst, SaveSecond, Deposit, CutShort, GiveUp
<1>3. Counted(Carried, Cached) /\ Amounts \subseteq Int /\ Price \in Nat
  BY AmountsAssumption DEF Balanced
<1>4. ASSUME UNCHANGED Promise!vars, amiss \subseteq amiss'  PROVE Balanced'
  <2>1. Carried' = Carried /\ Cached' = Cached
    BY <1>4 DEF Promise!vars
  <2>2. TotalItems(Carried, Cached) \in Int /\ TotalCoins(Carried, Cached) \in Int
    BY <1>3, TotalsAreNumbers
  <2>3. Shift(0, 0)
    BY <1>3, <2>1, <2>2 DEF Shift
  <2>. QED
    BY <1>2, <1>4, <2>3, BalancedStep DEF Shift
<1>5. CASE UNCHANGED vars
  BY <1>1, <1>4, <1>5, QuietStep DEF vars
<1>6. ASSUME Promise!Moves, amiss' = amiss  PROVE Balanced'
  <2>1. TotalItems(Carried, Cached) \in Int /\ TotalCoins(Carried, Cached) \in Int
    BY <1>3, TotalsAreNumbers
  <2>2. Shift(0, 0)
    BY <1>3, <1>6, <2>1, MovesKeepTotals DEF Shift
  <2>. QED
    BY <1>2, <1>6, <2>2, BalancedStep DEF Shift
<1>7. ASSUME "lost" \in amiss', amiss \subseteq amiss',
             Promise!LosesItem \/ Promise!LosesCoins(Amounts \cap Nat) \/ Promise!PaysNobody
      PROVE  Balanced'
  <2>1. PICK i \in Int, n \in Int : i <= 0 /\ n <= 0 /\ Shift(i, n)
    <3>1. CASE Promise!LosesItem
      <4>1. PICK i \in Int : i <= 0 /\ Shift(i, 0)
        BY <1>3, <3>1, LostItemsMakeNothing
      <4>. QED
        BY <4>1
    <3>2. CASE Promise!LosesCoins(Amounts \cap Nat)
      <4>1. PICK n \in Amounts \cap Nat : Shift(0, -n)
        BY <1>3, <3>2, LostCoinsAre
      <4>2. -n \in Int /\ -n <= 0
        BY <4>1
      <4>. QED
        BY <4>1, <4>2
    <3>3. CASE Promise!PaysNobody
      <4>1. PICK n \in Int : n <= 0 /\ Shift(0, n)
        BY <1>3, <3>3, PaidToNobody
      <4>. QED
        BY <4>1
    <3>. QED
      BY <1>7, <3>1, <3>2, <3>3
  <2>2. Counted(Carried', Cached')
    BY <2>1 DEF Shift
  <2>. QED
    BY <1>2, <1>7, <2>1, <2>2, BalancedStep
<1>8. ASSUME "minus" \in amiss', amiss \subseteq amiss', Promise!LosesCoins(Amounts \ Nat)  PROVE Balanced'
  <2>1. PICK n \in Amounts \ Nat : Shift(0, -n)
    BY <1>3, <1>8, LostCoinsAre
  <2>2. -n \in Int /\ Counted(Carried', Cached')
    BY <1>3, <2>1 DEF Shift
  <2>. QED
    BY <1>2, <1>8, <2>1, <2>2, BalancedStep
<1>9. ASSUME "trade" \in amiss', amiss \subseteq amiss', Promise!LosesPayment  PROVE Balanced'
  <2>1. Shift(1, -Price)
    BY <1>3, <1>9, LostPaymentsMakeNoCoins
  <2>2. -Price \in Int /\ -Price <= 0 /\ 1 \in Int /\ Counted(Carried', Cached')
    BY <1>3, <2>1 DEF Shift
  <2>. QED
    BY <1>2, <1>9, <2>1, <2>2, BalancedStep
<1>10. ASSUME "twice" \in amiss', amiss \subseteq amiss', Promise!Doubles  PROVE Balanced'
  BY <1>2, <1>3, <1>10, DoublesCount, BalancedStep
<1>11. CASE Next
  BY <1>1, <1>4, <1>6, <1>7, <1>8, <1>9, <1>10, <1>11, StepKinds
<1>. QED
  BY <1>5, <1>11

LEMMA InitBalanced ==
  ASSUME IsFiniteSet(Characters), OnePass, Init
  PROVE  Balanced
<1>1. PICK p \in Passes : Passes = {p}
  BY DEF OnePass
<1>2. Carried = row /\ Cached = stash
  <2>1. \A c \in Characters : RowOf(loc[p], row, purses, c) = row[c] /\ CacheOf(loc[p], stash, c) = stash[c]
    BY <1>1, ViewOfIdle DEF Init
  <2>2. row \in [Characters -> Rows] /\ stash \in [Characters -> Caches]
    BY InitIInv DEF IInv
  <2>3. /\ Carried = [c \in Characters |-> RowOf(loc[p], row, purses, c)]
        /\ Cached = [c \in Characters |-> CacheOf(loc[p], stash, c)]
    BY <1>1, ViewIs
  <2>. QED
    BY <2>1, <2>2, <2>3
<1>3. Counted(row, stash)
  <2>1. row \in [Characters -> Goods]
    BY AmountsAssumption DEF Init, Goods
  <2>2. [items |-> {}, coins |-> 0] \in Hoards
    BY FS_EmptySet DEF Hoards
  <2>. QED
    BY <2>1, <2>2 DEF Init, Counted
<1>4. TotalItems(row, stash) \in Int /\ TotalCoins(row, stash) \in Int
  BY <1>3, TotalsAreNumbers
<1>5. began = [items |-> TotalItems(row, stash), coins |-> TotalCoins(row, stash)]
  BY DEF Init
<1>. QED
  BY <1>2, <1>3, <1>4, <1>5 DEF Balanced, Goods

LEMMA BalancedHolds ==
  ASSUME IsFiniteSet(Characters), OnePass
  PROVE  Spec => []Balanced
<1>1. Init => Balanced
  BY InitBalanced
<1>2. IInv /\ Balanced /\ [Next]_vars => Balanced'
  BY NextPreservesBalanced
<1>. QED
  BY <1>1, <1>2, InvHolds, PTL DEF Spec

\* Between calls there is nothing due, and the store is what there is.
LEMMA QuiescentView ==
  ASSUME OnePass, IInv, Quiescent
  PROVE  Carried = row /\ Cached = stash
<1>1. PICK p \in Passes : Passes = {p}
  BY DEF OnePass
<1>2. \A c \in Characters : RowOf(loc[p], row, purses, c) = row[c] /\ CacheOf(loc[p], stash, c) = stash[c]
  BY <1>1 DEF Quiescent, At, RowOf, CacheOf
<1>3. row \in [Characters -> Rows] /\ stash \in [Characters -> Caches]
  BY DEF IInv
<1>. QED
  BY <1>1, <1>2, <1>3, ViewIs

\* With one pass at a time the tools move things and make or lose none, but
\* for a call that ended between its writes, went through with one character
\* named twice or took from a cache without a row: for any finite number of
\* characters, any prices, amounts (less than nothing too) and calls.
THEOREM ToolsOnlyMove ==
  ASSUME IsFiniteSet(Characters), OnePass
  PROVE  Spec => []ThingsOnlyMove
<1>1. IInv /\ Balanced => ThingsOnlyMove
  BY QuiescentView DEF Balanced, ThingsOnlyMove
<1>. QED
  BY <1>1, InvHolds, BalancedHolds, PTL

\* Calls that end between their writes, as often as that happens and whether
\* the process, the store or the engine ended them, make no coin unless one
\* named less than nothing or a character twice, and no item unless one was a
\* trade or named a character twice.
THEOREM CutCallsMakeNoCoins ==
  ASSUME IsFiniteSet(Characters), OnePass
  PROVE  Spec => []FailuresMakeNoCoins
<1>1. IInv /\ Balanced => FailuresMakeNoCoins
  BY QuiescentView DEF Balanced, FailuresMakeNoCoins
<1>. QED
  BY <1>1, InvHolds, BalancedHolds, PTL
================================================================================
