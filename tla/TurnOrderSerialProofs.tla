------------------------- MODULE TurnOrderSerialProofs -------------------------
(***************************************************************************)
(* What holds when the campaign's calls come one after the other, as they  *)
(* do while every player waits for the DM's answer before typing again:    *)
(* the search for the next turn never indexes order out of range (SInv),   *)
(* the table, the process and the row agree between calls (AInv), and the  *)
(* announced turns of a fight move forward (FInv, on top of the two).      *)
(***************************************************************************)
EXTENDS TurnOrderProofs

OneCaller == \E p : Callers = {p}

Size(h, f) == Len(h[f].order)

\* A turn that is carried or stored is -1 or a position of its fight.
TurnIn(t, h) == t.fight # 0 => t.index \in -1 .. Size(h, t.fight) - 1

\* The locals r of the caller, the heap h of fights and the current fight t:
\* the search moves the current fight, and only between the increment and the
\* wrap is its position past the end of the order.
SerialOK(r, h, t) ==
  /\ TurnIn(r.turn, h)
  /\ r.pc \in Searching => r.fight = t /\ r.lastAlive \in -1 .. Size(h, t) - 1
  /\ t # 0 /\ r.pc \notin {"wrap", "reset"} => h[t].currentIndex \in -1 .. Size(h, t) - 1
  /\ r.pc = "store" => r.at = h[t].currentIndex + 1
  /\ r.pc = "wrap" => h[t].currentIndex \in 0 .. Size(h, t)
  /\ r.pc \in {"load", "startTurn", "canAct", "payload"} =>
       h[t].currentIndex \in 0 .. Size(h, t) - 1
  /\ r.pc = "land" => r.lastAlive # -1
  /\ r.pc # "panicked"

SInv ==
  /\ TurnIn(row.turn, fights)
  /\ \A p \in Callers : SerialOK(loc[p], fights, turnOrders)

LEMMA SInvImpliesNoPanic == SInv => SearchNeverPanics
  BY DEF SInv, SerialOK, SearchNeverPanics, At

\* With one caller its own step is the only one that has to be looked at.
LEMMA SerialStep ==
  ASSUME OneCaller, TInv, NEW p \in Callers, NEW r, Become(p, r),
         SerialOK(r, fights', turnOrders'),
         TurnIn(row'.turn, fights')
  PROVE  SInv'
<1>1. loc' = [loc EXCEPT ![p] = r] /\ loc \in [Callers -> LocSet] /\ Callers = {p}
  BY DEF Become, TInv, OneCaller
<1>2. \A q \in Callers : loc'[q] = r
  BY <1>1
<1>. QED
  BY <1>2 DEF SInv

\* A turn stays a position of its fight when orders are kept.
LEMMA TurnInKept ==
  ASSUME TInv, OrdersKept, NEW t \in TurnSet, t.fight <= Len(fights), TurnIn(t, fights)
  PROVE  TurnIn(t, fights')
<1>1. t.fight # 0 => t.fight \in 1 .. Len(fights)
  BY BoundsAssumption DEF TurnSet, TInv, SharedOK
<1>. QED
  BY <1>1 DEF TurnIn, Size, OrdersKept

\* The caller's own fields before its step.
LEMMA SerialFact ==
  ASSUME TInv, SInv, NEW p \in Callers
  PROVE  /\ SerialOK(loc[p], fights, turnOrders)
         /\ loc[p] \in LocSet /\ loc[p].at \in Int /\ loc[p].lastAlive \in Int
         /\ loc[p].pc \in Searching =>
              /\ turnOrders = loc[p].fight /\ turnOrders = Fight(p)
              /\ turnOrders \in 1 .. Len(fights)
              /\ fights[turnOrders].currentIndex = Index(p)
              /\ Index(p) \in Int /\ Round(p) \in Nat
              /\ Size(fights, turnOrders) \in Nat \ {0}
  BY HeldFact DEF SInv, SerialOK, Fight, Index, Size

LEMMA SerialRow ==
  ASSUME TInv, SInv, OrdersKept, row' = row
  PROVE  TurnIn(row'.turn, fights')
<1>1. row.turn \in TurnSet /\ row.turn.fight <= Len(fights)
  BY DEF TInv, SharedOK
<1>. QED
  BY <1>1, TurnInKept DEF SInv

LEMMA SameHeap ==
  ASSUME TInv, fights' = fights
  PROVE  OrdersKept
  BY DEF OrdersKept, TInv, SharedOK

LEMMA SerialLocalStep ==
  ASSUME OneCaller, TInv, SInv, NEW p \in Callers, NEW r, Become(p, r),
         SerialOK(r, fights, turnOrders), UNCHANGED <<fights, turnOrders, row>>
  PROVE  SInv'
  BY SerialRow, SameHeap, SerialStep

LEMMA WithAtKeeps ==
  ASSUME NEW p \in Callers, loc[p] \in LocSet, NEW l \in Labels, NEW i \in Int
  PROVE  WithAt(p, l, i).lastAlive = loc[p].lastAlive
  BY DEF WithAt, LocSet

LEMMA PassOverKeeps ==
  ASSUME NEW p \in Callers, loc[p] \in LocSet, NEW a \in Int
  PROVE  PassOver(p, a).lastAlive = a
  BY DEF PassOver, LocSet

\* A caller whose new locals begin a phase outside of the search.
LEMMA SerialLeaves ==
  ASSUME NEW r, NEW h, NEW t, r.pc \in Labels \ (Searching \cup {"panicked"}),
         TurnIn(r.turn, h), t # 0 => h[t].currentIndex \in -1 .. Size(h, t) - 1
  PROVE  SerialOK(r, h, t)
  BY DEF SerialOK, Searching

\* The locals with which a call begins a phase, or returns.
LEMMA SerialIdle ==
  ASSUME NEW h, NEW t, NEW l \in Labels \ (Searching \cup {"panicked"}),
         t # 0 => h[t].currentIndex \in -1 .. Size(h, t) - 1
  PROVE  SerialOK([Idle EXCEPT !.pc = l], h, t)
<1>1. TurnIn(NoTurn, h)
  BY DEF TurnIn, NoTurn
<1>2. [Idle EXCEPT !.pc = l].turn = NoTurn /\ [Idle EXCEPT !.pc = l].pc = l
  BY DEF Idle
<1>. QED
  BY <1>1, <1>2, SerialLeaves DEF Labels, Searching

LEMMA SerialReturn ==
  ASSUME NEW h, NEW t, t # 0 => h[t].currentIndex \in -1 .. Size(h, t) - 1
  PROVE  SerialOK(Idle, h, t)
<1>1. TurnIn(NoTurn, h)
  BY DEF TurnIn, NoTurn
<1>2. Idle.turn = NoTurn /\ Idle.pc = "idle"
  BY DEF Idle
<1>. QED
  BY <1>1, <1>2, SerialLeaves DEF Labels, Searching

\* A step of the search that leaves the fight where it is, at a position.
LEMMA SerialStay ==
  ASSUME OneCaller, TInv, SInv, NEW p \in Callers, loc[p].pc \in Searching,
         UNCHANGED <<fights, turnOrders, row>>,
         Index(p) \in 0 .. Size(fights, turnOrders) - 1,
         loc[p].lastAlive \in -1 .. Size(fights, turnOrders) - 1,
         NEW l \in {"startTurn", "canAct", "payload"}, NEW i \in Int,
         Become(p, WithAt(p, l, i))
  PROVE  SInv'
<1>0. /\ SerialOK(loc[p], fights, turnOrders) /\ loc[p] \in LocSet
      /\ turnOrders = loc[p].fight /\ fights[turnOrders].currentIndex = Index(p)
      /\ Index(p) \in Int /\ Size(fights, turnOrders) \in Nat \ {0}
  BY SerialFact
<1>. DEFINE r == WithAt(p, l, i)
<1>1. /\ r.pc = l /\ r.fight = loc[p].fight
      /\ r.turn = loc[p].turn /\ r.lastAlive = loc[p].lastAlive
  BY <1>0, WithAtFact, WithAtKeeps DEF Labels
<1>. HIDE DEF r
<1>2. SerialOK(r, fights, turnOrders)
  BY <1>0, <1>1 DEF SerialOK
<1>. QED
  BY <1>2, SerialLocalStep DEF r

\* A step of the search that passes a character over.
LEMMA SerialPassOver ==
  ASSUME OneCaller, TInv, SInv, NEW p \in Callers, loc[p].pc \in Searching,
         UNCHANGED <<fights, turnOrders, row>>,
         Index(p) \in 0 .. Size(fights, turnOrders) - 1,
         NEW a \in -1 .. Size(fights, turnOrders) - 1,
         Become(p, PassOver(p, a))
  PROVE  SInv'
<1>0. /\ SerialOK(loc[p], fights, turnOrders) /\ loc[p] \in LocSet
      /\ turnOrders = loc[p].fight /\ fights[turnOrders].currentIndex = Index(p)
      /\ Index(p) \in Int /\ Size(fights, turnOrders) \in Nat \ {0}
  BY SerialFact
<1>. DEFINE r == PassOver(p, a)
<1>1. /\ r.pc = "fetch" /\ r.fight = loc[p].fight
      /\ r.turn = loc[p].turn /\ r.lastAlive = a
  BY <1>0, PassOverFact, PassOverKeeps
<1>. HIDE DEF r
<1>2. SerialOK(r, fights, turnOrders)
  BY <1>0, <1>1 DEF SerialOK
<1>. QED
  BY <1>2, SerialLocalStep DEF r

\* A step of the search that moves the fight.
LEMMA SerialMove ==
  ASSUME OneCaller, TInv, SInv, NEW p \in Callers, loc[p].pc \in Searching,
         row' = row, turnOrders' = turnOrders,
         NEW i \in 0 .. Size(fights, turnOrders), NEW k \in Nat,
         fights' = Moved(turnOrders, i, k),
         loc[p].lastAlive \in -1 .. Size(fights, turnOrders) - 1,
         NEW l \in {"wrap", "load", "payload"},
         l # "wrap" => i < Size(fights, turnOrders),
         Become(p, WithAt(p, l, loc[p].at))
  PROVE  SInv'
<1>0. /\ SerialOK(loc[p], fights, turnOrders) /\ loc[p] \in LocSet /\ loc[p].at \in Int
      /\ turnOrders = loc[p].fight /\ turnOrders \in 1 .. Len(fights)
      /\ Size(fights, turnOrders) \in Nat \ {0} /\ fights \in Seq(FightSet)
  BY SerialFact DEF TInv, SharedOK
<1>1. /\ Len(Moved(turnOrders, i, k)) = Len(fights)
      /\ \A g \in 1 .. Len(fights) : Moved(turnOrders, i, k)[g].order = fights[g].order
      /\ Moved(turnOrders, i, k)[turnOrders].currentIndex = i
  <2>1. i \in Int
    BY <1>0
  <2>2. Moved(turnOrders, i, k)[turnOrders].currentIndex = i
    BY <1>0, MovedIndex
  <2>3. /\ Len(Moved(turnOrders, i, k)) = Len(fights)
        /\ \A g \in 1 .. Len(fights) : Moved(turnOrders, i, k)[g].order = fights[g].order
    <3>1. fights \in Seq(FightSet) /\ turnOrders \in 1 .. Len(fights)
      BY <1>0
    <3>. QED
      BY <2>1, <3>1, MoveFact
  <2>. QED
    BY <2>2, <2>3
<1>2. OrdersKept /\ Size(fights', turnOrders) = Size(fights, turnOrders)
      /\ fights'[turnOrders].currentIndex = i
  BY <1>0, <1>1 DEF OrdersKept, Size
<1>. DEFINE r == WithAt(p, l, loc[p].at)
<1>3. /\ r.pc = l /\ r.fight = loc[p].fight
      /\ r.turn = loc[p].turn /\ r.lastAlive = loc[p].lastAlive
  BY <1>0, WithAtFact, WithAtKeeps, SMTT(30) DEF Labels
<1>4. TurnIn(loc[p].turn, fights')
  <2>1. loc[p].turn \in TurnSet /\ loc[p].turn.fight <= Len(fights)
    BY HeldFact DEF CallerOK
  <2>. QED
    BY <1>0, <1>2, <2>1, TurnInKept DEF SerialOK
<1>. HIDE DEF r
<1>5. SerialOK(r, fights', turnOrders')
  BY <1>0, <1>2, <1>3, <1>4 DEF SerialOK
<1>. QED
  BY <1>2, <1>5, SerialRow, SerialStep DEF r

LEMMA SerialSearch ==
  ASSUME OneCaller, TInv, SInv, NEW p \in Callers, Search(p)
  PROVE  SInv'
<1>. USE DEF At, Goto, Return
<1>. DEFINE t == turnOrders
            n == Size(fights, turnOrders)
<1>0. /\ SerialOK(loc[p], fights, turnOrders)
      /\ loc[p] \in LocSet /\ loc[p].at \in Int /\ loc[p].lastAlive \in Int
      /\ loc[p].pc \in Searching =>
              /\ turnOrders = loc[p].fight /\ turnOrders = Fight(p)
              /\ turnOrders \in 1 .. Len(fights)
              /\ fights[turnOrders].currentIndex = Index(p)
              /\ Index(p) \in Int /\ Round(p) \in Nat
              /\ Size(fights, turnOrders) \in Nat \ {0}
  BY SerialFact
<1>1. CASE FetchIndex(p)
  <2>1. /\ loc[p].pc \in Searching /\ loc[p].pc = "fetch"
        /\ UNCHANGED <<fights, turnOrders, row>>
    BY <1>1 DEF FetchIndex, Searching
  <2>2. Index(p) \in -1 .. n - 1 /\ loc[p].lastAlive \in -1 .. n - 1
    BY <1>0, <2>1 DEF SerialOK
  <2>3. CASE Become(p, WithAt(p, "store", Index(p) + 1))
    <3>. DEFINE r == WithAt(p, "store", Index(p) + 1)
    <3>1. /\ r.pc = "store" /\ r.at = Index(p) + 1 /\ r.fight = loc[p].fight
          /\ r.turn = loc[p].turn /\ r.lastAlive = loc[p].lastAlive
      BY <1>0, <2>1, WithAtFact, WithAtKeeps DEF Labels
    <3>. HIDE DEF r
    <3>2. SerialOK(r, fights, turnOrders)
      BY <1>0, <2>1, <2>2, <3>1 DEF SerialOK
    <3>. QED
      BY <2>1, <2>3, <3>2, SerialLocalStep DEF r
  <2>4. CASE loc[p].lastAlive # -1 /\ Become(p, WithAt(p, "land", loc[p].at))
    <3>. DEFINE r == WithAt(p, "land", loc[p].at)
    <3>1. /\ r.pc = "land" /\ r.fight = loc[p].fight
          /\ r.turn = loc[p].turn /\ r.lastAlive = loc[p].lastAlive
      BY <1>0, <2>1, WithAtFact, WithAtKeeps DEF Labels
    <3>. HIDE DEF r
    <3>2. SerialOK(r, fights, turnOrders)
      BY <1>0, <2>1, <2>2, <2>4, <3>1 DEF SerialOK
    <3>. QED
      BY <2>1, <2>4, <3>2, SerialLocalStep DEF r
  <2>5. CASE Become(p, WithAt(p, "endTurnOrder", loc[p].at))
    <3>. DEFINE r == WithAt(p, "endTurnOrder", loc[p].at)
    <3>1. r.pc = "endTurnOrder" /\ r.turn = loc[p].turn
      BY <1>0, <2>1, WithAtFact DEF Labels
    <3>. HIDE DEF r
    <3>2. SerialOK(r, fights, turnOrders)
      BY <1>0, <2>1, <2>2, <3>1 DEF SerialOK, Searching
    <3>. QED
      BY <2>1, <2>5, <3>2, SerialLocalStep DEF r
  <2>. QED
    BY <1>1, <2>3, <2>4, <2>5 DEF FetchIndex
<1>2. CASE StoreIndex(p)
  <2>1. /\ loc[p].pc \in Searching /\ loc[p].pc = "store" /\ row' = row /\ turnOrders' = turnOrders
        /\ fights' = Moved(turnOrders, loc[p].at, Round(p))
        /\ Become(p, WithAt(p, "wrap", loc[p].at))
    BY <1>0, <1>2 DEF StoreIndex, Searching
  <2>2. loc[p].at \in 0 .. n /\ loc[p].lastAlive \in -1 .. n - 1
    BY <1>0, <2>1 DEF SerialOK
  <2>. QED
    BY <1>0, <2>1, <2>2, SerialMove
<1>3. CASE CheckWrap(p)
  <2>1. /\ loc[p].pc \in Searching /\ loc[p].pc = "wrap"
        /\ UNCHANGED <<fights, turnOrders, row>>
    BY <1>3 DEF CheckWrap, Searching
  <2>2. Index(p) \in 0 .. n /\ loc[p].lastAlive \in -1 .. n - 1
    BY <1>0, <2>1 DEF SerialOK
  <2>3. ASSUME NEW l \in {"reset", "load"}, l = "load" => Index(p) < n,
               Become(p, WithAt(p, l, loc[p].at))
        PROVE  SInv'
    <3>. DEFINE r == WithAt(p, l, loc[p].at)
    <3>1. /\ r.pc = l /\ r.fight = loc[p].fight
          /\ r.turn = loc[p].turn /\ r.lastAlive = loc[p].lastAlive
      BY <1>0, <2>1, WithAtFact, WithAtKeeps DEF Labels
    <3>. HIDE DEF r
    <3>2. SerialOK(r, fights, turnOrders)
      BY <1>0, <2>1, <2>2, <2>3, <3>1 DEF SerialOK
    <3>. QED
      BY <2>1, <2>3, <3>2, SerialLocalStep DEF r
  <2>4. Len(fights[Fight(p)].order) = n
    BY <1>0, <2>1 DEF Size
  <2>. QED
    BY <1>0, <1>3, <2>1, <2>2, <2>3, <2>4 DEF CheckWrap
<1>4. CASE ResetIndex(p)
  <2>1. /\ loc[p].pc \in Searching /\ row' = row /\ turnOrders' = turnOrders
        /\ fights' = Moved(turnOrders, 0, Round(p) + 1)
        /\ Become(p, WithAt(p, "load", loc[p].at))
    BY <1>0, <1>4 DEF ResetIndex, Searching
  <2>2. 0 \in 0 .. n - 1 /\ Round(p) + 1 \in Nat /\ loc[p].lastAlive \in -1 .. n - 1
    BY <1>0, <2>1 DEF SerialOK
  <2>. QED
    BY <1>0, <2>1, <2>2, SerialMove DEF Labels
<1>5. CASE LoadCharacter(p)
  <2>1. /\ loc[p].pc \in Searching /\ loc[p].pc = "load"
        /\ UNCHANGED <<fights, turnOrders, row>>
    BY <1>5 DEF LoadCharacter, Searching
  <2>2. Index(p) \in 0 .. n - 1 /\ loc[p].lastAlive \in -1 .. n - 1
    BY <1>0, <2>1 DEF SerialOK
  <2>3. InOrder(Fight(p), Index(p))
    BY <1>0, <2>1, <2>2 DEF InOrder, Size
  <2>4. CASE Become(p, Idle)
    BY <1>0, <2>1, <2>2, <2>4, SerialReturn, SerialLocalStep
  <2>5. CASE Become(p, PassOver(p, loc[p].lastAlive))
    BY <1>0, <2>1, <2>2, <2>5, SerialPassOver
  <2>6. CASE Become(p, WithAt(p, "startTurn", Index(p)))
    BY <1>0, <2>1, <2>2, <2>6, SerialStay DEF Labels
  <2>. QED
    BY <1>5, <2>3, <2>4, <2>5, <2>6 DEF LoadCharacter
<1>6. CASE StartTurnFor(p)
  <2>1. /\ loc[p].pc \in Searching /\ loc[p].pc = "startTurn"
        /\ UNCHANGED <<fights, turnOrders, row>> /\ Become(p, WithAt(p, "canAct", loc[p].at))
    BY <1>6 DEF StartTurnFor, Searching
  <2>2. Index(p) \in 0 .. n - 1 /\ loc[p].lastAlive \in -1 .. n - 1
    BY <1>0, <2>1 DEF SerialOK
  <2>. QED
    BY <1>0, <2>1, <2>2, SerialStay DEF Labels
<1>7. CASE CheckCanAct(p)
  <2>1. /\ loc[p].pc \in Searching /\ loc[p].pc = "canAct"
        /\ UNCHANGED <<fights, turnOrders, row>>
    BY <1>7 DEF CheckCanAct, Searching
  <2>2. Index(p) \in 0 .. n - 1 /\ loc[p].lastAlive \in -1 .. n - 1
    BY <1>0, <2>1 DEF SerialOK
  <2>3. CASE Become(p, PassOver(p, Index(p)))
    BY <1>0, <2>1, <2>2, <2>3, SerialPassOver
  <2>4. CASE Become(p, WithAt(p, "payload", -1))
    BY <1>0, <2>1, <2>2, <2>4, SerialStay DEF Labels
  <2>. QED
    BY <1>7, <2>3, <2>4 DEF CheckCanAct
<1>8. CASE Land(p)
  <2>1. /\ loc[p].pc \in Searching /\ loc[p].pc = "land" /\ row' = row /\ turnOrders' = turnOrders
        /\ fights' = Moved(turnOrders, loc[p].lastAlive, Round(p))
        /\ Become(p, WithAt(p, "payload", loc[p].at))
    BY <1>0, <1>8 DEF Land, Searching
  <2>2. loc[p].lastAlive \in 0 .. n - 1 /\ loc[p].lastAlive \in -1 .. n - 1
    BY <1>0, <2>1 DEF SerialOK
  <2>. QED
    BY <1>0, <2>1, <2>2, SerialMove DEF Labels
<1>9. CASE MakePayload(p)
  <2>1. /\ loc[p].pc \in Searching /\ loc[p].pc = "payload"
        /\ UNCHANGED <<fights, turnOrders, row>>
    BY <1>9 DEF MakePayload, Searching
  <2>2. Index(p) \in 0 .. n - 1
    BY <1>0, <2>1 DEF SerialOK
  <2>3. InOrder(Fight(p), Index(p))
    BY <1>0, <2>1, <2>2 DEF InOrder, Size
  <2>. DEFINE r == [Idle EXCEPT !.pc = "broadcast", !.turn = Turn(Fight(p))]
  <2>4. Become(p, r)
    BY <1>9, <2>3 DEF MakePayload
  <2>5. r.pc = "broadcast" /\ r.turn = Turn(turnOrders)
    BY <1>0, <2>1 DEF Idle
  <2>6. TurnIn(Turn(turnOrders), fights)
    BY <1>0, <2>1, <2>2 DEF Turn, TurnIn
  <2>. HIDE DEF r
  <2>7. SerialOK(r, fights, turnOrders)
    BY <1>0, <2>1, <2>2, <2>5, <2>6, SerialLeaves DEF Labels, Searching
  <2>. QED
    BY <2>1, <2>4, <2>7, SerialLocalStep
<1>10. CASE BroadcastTurnState(p)
  <2>1. /\ loc[p].pc = "broadcast" /\ UNCHANGED <<fights, turnOrders, row>>
        /\ Become(p, [Idle EXCEPT !.pc = "snapTurn"])
    BY <1>10 DEF BroadcastTurnState
  <2>2. turnOrders # 0 => fights[turnOrders].currentIndex \in -1 .. n - 1
    BY <1>0, <2>1 DEF SerialOK
  <2>. QED
    BY <2>1, <2>2, SerialIdle, SerialLocalStep DEF Labels, Searching
<1>. QED
  BY <1>1, <1>2, <1>3, <1>4, <1>5, <1>6, <1>7, <1>8, <1>9, <1>10 DEF Search

LEMMA SerialFinish ==
  ASSUME OneCaller, TInv, SInv, NEW p \in Callers, Finish(p)
  PROVE  SInv'
<1>. USE DEF At, Goto, Return
<1>0. /\ SerialOK(loc[p], fights, turnOrders)
      /\ loc[p] \in LocSet /\ loc[p].at \in Int
      /\ TurnIn(row.turn, fights) /\ TurnIn(loc[p].turn, fights)
  BY SerialFact DEF SInv, SerialOK
<1>1. loc[p].pc \notin {"wrap", "reset"} /\ loc[p].pc # "panicked" /\ fights' = fights
  BY <1>0 DEF Finish, PlaceMap, SnapshotTurn, SnapshotMap, SaveCombatState, EndTurnOrder,
              EndMap, DeleteCombatState, BroadcastEnd, Recover, SerialOK
<1>2. turnOrders # 0 =>
        fights[turnOrders].currentIndex \in -1 .. Size(fights, turnOrders) - 1
  BY <1>0, <1>1 DEF SerialOK
<1>3. ASSUME NEW r, r.pc \in Labels \ (Searching \cup {"panicked"}), TurnIn(r.turn, fights),
             Become(p, r), UNCHANGED <<turnOrders, row>>
      PROVE  SInv'
  BY <1>1, <1>2, <1>3, SerialLeaves, SerialLocalStep
<1>4. TurnIn(NoTurn, fights)
  BY DEF TurnIn, NoTurn
<1>5. /\ Idle.pc = "idle" /\ Idle.turn = NoTurn
  BY DEF Idle
<1>6. \A l \in Labels : WithAt(p, l, loc[p].at).pc = l /\ WithAt(p, l, loc[p].at).turn = loc[p].turn
  BY <1>0, WithAtFact
<1>7. ASSUME Become(p, Idle), UNCHANGED <<turnOrders, row>>  PROVE SInv'
  BY <1>3, <1>4, <1>5, <1>7 DEF Labels, Searching
<1>8. CASE PlaceMap(p)
  <2>1. CASE Become(p, [Idle EXCEPT !.pc = "snapTurn"])
    <3>1. SerialOK([Idle EXCEPT !.pc = "snapTurn"], fights, turnOrders)
      BY <1>2, SerialIdle DEF Labels, Searching
    <3>. QED
      BY <1>1, <1>8, <2>1, <3>1, SerialLocalStep DEF PlaceMap
  <2>. QED
    BY <1>7, <1>8, <2>1 DEF PlaceMap
<1>9. CASE SnapshotTurn(p)
  <2>1. UNCHANGED <<turnOrders, row>>
    BY <1>9 DEF SnapshotTurn
  <2>2. ASSUME NEW t, TurnIn(t, fights), Become(p, [Idle EXCEPT !.pc = "snapMap", !.turn = t])
        PROVE  SInv'
    <3>. DEFINE r == [Idle EXCEPT !.pc = "snapMap", !.turn = t]
    <3>1. r.pc = "snapMap" /\ r.turn = t
      BY DEF Idle
    <3>. HIDE DEF r
    <3>2. Become(p, r)
      BY <2>2 DEF r
    <3>. QED
      BY <1>3, <2>1, <2>2, <3>1, <3>2 DEF Labels, Searching
  <2>3. turnOrders # 0 => TurnIn(Turn(turnOrders), fights)
    BY <1>2 DEF Turn, TurnIn
  <2>. QED
    BY <1>4, <1>7, <1>9, <2>1, <2>2, <2>3 DEF SnapshotTurn
<1>10. CASE SnapshotMap(p)
  <2>1. UNCHANGED <<turnOrders, row>>
    BY <1>10 DEF SnapshotMap
  <2>2. CASE Become(p, [loc[p] EXCEPT !.pc = "save", !.map = combatMaps])
    <3>. DEFINE r == [loc[p] EXCEPT !.pc = "save", !.map = combatMaps]
    <3>1. r.pc = "save" /\ r.turn = loc[p].turn
      BY <1>0 DEF LocSet
    <3>. HIDE DEF r
    <3>2. Become(p, r)
      BY <2>2 DEF r
    <3>. QED
      BY <1>0, <1>3, <2>1, <3>1, <3>2 DEF Labels, Searching
  <2>. QED
    BY <1>7, <1>10, <2>1, <2>2 DEF SnapshotMap
<1>11. CASE SaveCombatState(p)
  <2>1. row' = row \/ row' = [turn |-> loc[p].turn, map |-> loc[p].map]
    BY <1>11 DEF SaveCombatState
  <2>2. TurnIn(row'.turn, fights')
    BY <1>0, <1>1, <2>1
  <2>3. SerialOK(Idle, fights', turnOrders')
    BY <1>1, <1>2, <1>11, SerialReturn DEF SaveCombatState
  <2>. QED
    BY <1>11, <2>2, <2>3, SerialStep DEF SaveCombatState
<1>12. CASE EndTurnOrder(p)
  <2>1. turnOrders' = 0 /\ row' = row /\ Become(p, [Idle EXCEPT !.pc = "endMap"])
    BY <1>12 DEF EndTurnOrder
  <2>2. SerialOK([Idle EXCEPT !.pc = "endMap"], fights', turnOrders')
    BY <2>1, SerialIdle DEF Labels, Searching
  <2>. QED
    BY <1>0, <1>1, <2>1, <2>2, SerialStep
<1>13. CASE EndMap(p)
  <2>1. UNCHANGED <<turnOrders, row>>
    BY <1>13 DEF EndMap
  <2>2. ASSUME NEW l \in {"endRow", "endBroadcast"}, Become(p, WithAt(p, l, loc[p].at))
        PROVE  SInv'
    BY <1>0, <1>3, <1>6, <2>1, <2>2 DEF Labels, Searching
  <2>. QED
    BY <1>13, <2>2 DEF EndMap
<1>14. CASE DeleteCombatState(p)
  <2>1. row' \in {row, NoRow} /\ turnOrders' = turnOrders
        /\ Become(p, WithAt(p, "endBroadcast", loc[p].at))
    BY <1>14 DEF DeleteCombatState
  <2>2. TurnIn(row'.turn, fights')
    BY <1>0, <1>1, <1>4, <2>1 DEF NoRow
  <2>3. SerialOK(WithAt(p, "endBroadcast", loc[p].at), fights', turnOrders')
    BY <1>0, <1>1, <1>2, <1>6, <2>1, SerialLeaves DEF Labels, Searching
  <2>. QED
    BY <2>1, <2>2, <2>3, SerialStep
<1>15. CASE BroadcastEnd(p)
  BY <1>7, <1>15 DEF BroadcastEnd
<1>16. CASE Recover(p)
  BY <1>7, <1>16 DEF Recover
<1>. QED
  BY <1>8, <1>9, <1>10, <1>11, <1>12, <1>13, <1>14, <1>15, <1>16 DEF Finish

\* The locals of a call that begins to work on the current fight.
LEMMA SerialHold ==
  ASSUME NEW h, NEW f, NEW l \in {"fetch", "placeMap"}, Size(h, f) \in Nat \ {0},
         h[f].currentIndex \in -1 .. Size(h, f) - 1
  PROVE  SerialOK([Idle EXCEPT !.pc = l, !.fight = f], h, f)
<1>. DEFINE r == [Idle EXCEPT !.pc = l, !.fight = f]
<1>1. r.pc = l /\ r.fight = f /\ r.turn = NoTurn /\ r.lastAlive = -1
  BY DEF Idle
<1>2. TurnIn(NoTurn, h)
  BY DEF TurnIn, NoTurn
<1>. HIDE DEF r
<1>3. SerialOK(r, h, f)
  BY <1>1, <1>2 DEF SerialOK
<1>. QED
  BY <1>3 DEF r

LEMMA SerialCall ==
  ASSUME OneCaller, TInv, SInv, NEW p \in Callers, Call(p)
  PROVE  SInv'
<1>. USE DEF At, Goto, Calls
<1>0. /\ SerialOK(loc[p], fights, turnOrders)
      /\ loc[p] \in LocSet /\ loc[p].at \in Int /\ loc[p].pc = "idle"
      /\ TurnIn(row.turn, fights) /\ TurnIn(loc[p].turn, fights)
      /\ fights \in Seq(FightSet) /\ Len(fights) \in Nat
  BY SerialFact DEF SInv, SerialOK, Call, StartCombat, AdvanceTurn, EndCombat,
                    GenerateCombatMap, MoveToken, TInv, SharedOK
<1>1. turnOrders # 0 =>
        /\ fights[turnOrders].currentIndex \in -1 .. Size(fights, turnOrders) - 1
        /\ Size(fights, turnOrders) \in Nat \ {0}
  <2>1. turnOrders # 0 => turnOrders \in 1 .. Len(fights)
    BY DEF TInv, SharedOK
  <2>. QED
    BY <1>0, <2>1, FightFact DEF SerialOK, Size
<1>3. CASE StartCombat(p)
  <2>1. PICK order \in Orders({c \in Characters : condition[c] # "dead"}) :
          fights' = Append(fights, [order |-> order, currentIndex |-> -1, round |-> 1])
    BY <1>3 DEF StartCombat
  <2>. DEFINE fight == [order |-> order, currentIndex |-> -1, round |-> 1]
  <2>2. /\ fight \in FightSet /\ Len(fight.order) \in Nat \ {0} /\ fight.currentIndex = -1
    BY <2>1, OrdersFact DEF FightSet
  <2>. HIDE DEF fight
  <2>3. /\ Len(fights') = Len(fights) + 1
        /\ \A f \in 1 .. Len(fights) : fights'[f] = fights[f]
        /\ fights'[Len(fights) + 1] = fight
    BY <1>0, <2>1, <2>2, AppendProperties DEF fight
  <2>4. OrdersKept
    BY <1>0, <2>3 DEF OrdersKept
  <2>5. /\ turnOrders' = Len(fights) + 1 /\ row' = row
        /\ Become(p, [Idle EXCEPT !.pc = "fetch", !.fight = Len(fights) + 1])
    BY <1>3 DEF StartCombat
  <2>6. SerialOK([Idle EXCEPT !.pc = "fetch", !.fight = Len(fights) + 1], fights', turnOrders')
    <3>1. /\ turnOrders' = Len(fights) + 1 /\ turnOrders' # 0
          /\ Size(fights', turnOrders') \in Nat \ {0}
          /\ fights'[turnOrders'].currentIndex \in -1 .. Size(fights', turnOrders') - 1
      BY <1>0, <2>2, <2>3, <2>5 DEF Size
    <3>. QED
      BY <3>1, SerialHold
  <2>. QED
    BY <2>4, <2>5, <2>6, SerialRow, SerialStep
<1>4. CASE AdvanceTurn(p) \/ GenerateCombatMap(p)
  <2>1. /\ UNCHANGED <<fights, turnOrders, row>> /\ turnOrders \in 1 .. Len(fights)
    BY <1>4 DEF AdvanceTurn, GenerateCombatMap, TInv, SharedOK
  <2>2. ASSUME NEW l \in {"fetch", "placeMap"},
               Become(p, [Idle EXCEPT !.pc = l, !.fight = turnOrders])
        PROVE  SInv'
    <3>0. /\ Size(fights, turnOrders) \in Nat \ {0}
          /\ fights[turnOrders].currentIndex \in -1 .. Size(fights, turnOrders) - 1
      BY <1>0, <1>1, <2>1
    <3>1. SerialOK([Idle EXCEPT !.pc = l, !.fight = turnOrders], fights, turnOrders)
      BY <3>0, SerialHold
    <3>. QED
      BY <2>1, <2>2, <3>1, SerialLocalStep
  <2>. QED
    BY <1>4, <2>2 DEF AdvanceTurn, GenerateCombatMap
<1>5. CASE EndCombat(p) \/ MoveToken(p)
  <2>1. UNCHANGED <<fights, turnOrders, row>>
    BY <1>5 DEF EndCombat, MoveToken
  <2>2. ASSUME NEW l \in {"endTurnOrder", "snapTurn"}, Become(p, WithAt(p, l, loc[p].at))
        PROVE  SInv'
    <3>1. WithAt(p, l, loc[p].at).pc = l /\ WithAt(p, l, loc[p].at).turn = loc[p].turn
      BY <1>0, WithAtFact DEF Labels
    <3>2. SerialOK(WithAt(p, l, loc[p].at), fights, turnOrders)
      BY <1>0, <1>1, <3>1, SerialLeaves DEF Labels, Searching
    <3>. QED
      BY <2>1, <2>2, <3>2, SerialLocalStep
  <2>. QED
    BY <1>5, <2>2 DEF EndCombat, MoveToken
<1>. QED
  BY <1>3, <1>4, <1>5 DEF Call

LEMMA SerialRestart ==
  ASSUME OneCaller, TInv, SInv, Restart
  PROVE  SInv'
<1>. PICK loaded \in {row, NoRow} : WarmUpCombatState(loaded)
  BY DEF Restart
<1>. DEFINE t == loaded.turn
<1>0. /\ t \in TurnSet /\ t.fight \in 0 .. Len(fights) /\ TurnIn(t, fights)
      /\ t.index \in Int /\ t.round \in Nat /\ fights \in Seq(FightSet)
  BY LoadedFact DEF TInv, SharedOK, SInv, TurnIn, NoRow, NoTurn
<1>1. /\ turnOrders' = t.fight /\ row' = row /\ loc' = [p \in Callers |-> Idle]
      /\ t.fight = 0 => fights' = fights
      /\ t.fight # 0 => fights' = Moved(t.fight, t.index, t.round)
  BY DEF Restart, WarmUpCombatState
<1>. HIDE DEF t
<1>2. /\ OrdersKept
      /\ t.fight # 0 => fights'[t.fight].currentIndex = t.index
  <2>1. CASE t.fight = 0
    BY <1>1, <2>1, SameHeap
  <2>2. CASE t.fight # 0
    <3>1. t.fight \in 1 .. Len(fights)
      BY <1>0, <2>2
    <3>2. /\ Len(Moved(t.fight, t.index, t.round)) = Len(fights)
          /\ \A g \in 1 .. Len(fights) :
               Moved(t.fight, t.index, t.round)[g].order = fights[g].order
          /\ Moved(t.fight, t.index, t.round)[t.fight].currentIndex = t.index
      <4>1. Moved(t.fight, t.index, t.round)[t.fight].currentIndex = t.index
        BY <1>0, <3>1, MovedIndex
      <4>. QED
        BY <1>0, <3>1, <4>1, MoveFact
    <3>. QED
      BY <1>0, <1>1, <2>2, <3>2 DEF OrdersKept
  <2>. QED
    BY <2>1, <2>2
<1>3. TurnIn(row'.turn, fights')
  BY <1>1, <1>2, SerialRow
<1>4. turnOrders' # 0 =>
        fights'[turnOrders'].currentIndex \in -1 .. Size(fights', turnOrders') - 1
  <2>1. TurnIn(t, fights')
    BY <1>0, <1>2, TurnInKept
  <2>. QED
    BY <1>1, <1>2, <2>1 DEF TurnIn
<1>5. SerialOK(Idle, fights', turnOrders')
  BY <1>4, SerialReturn
<1>. QED
  BY <1>1, <1>3, <1>5 DEF SInv

LEMMA InitSInv == Init => SInv
<1>. SUFFICES ASSUME Init  PROVE SInv
  OBVIOUS
<1>1. TurnIn(row.turn, fights)
  BY DEF Init, NoRow, NoTurn, TurnIn
<1>2. SerialOK(Idle, fights, turnOrders)
  BY SerialReturn DEF Init
<1>. QED
  BY <1>1, <1>2 DEF Init, SInv

LEMMA NextPreservesSInv == OneCaller /\ TInv /\ SInv /\ [Next]_vars => SInv'
<1>. SUFFICES ASSUME OneCaller, TInv, SInv, [Next]_vars  PROVE SInv'
  OBVIOUS
<1>1. CASE \E p \in Callers : Call(p) \/ Continue(p)
  BY <1>1, SerialCall, SerialSearch, SerialFinish DEF Continue
<1>2. CASE ApplyEffect
  BY <1>2 DEF ApplyEffect, SInv
<1>3. CASE Restart
  BY <1>3, SerialRestart
<1>4. CASE UNCHANGED vars
  BY <1>4 DEF vars, SInv
<1>. QED
  BY <1>1, <1>2, <1>3, <1>4 DEF Next

\* With one call at a time, the search for the next turn never indexes order
\* out of range (turn_order.go:211-217, 49, 259), for every set of characters
\* and every number of fights and rounds, whatever fails and however often
\* the process restarts.
THEOREM SerialSearchNeverPanics ==
  ASSUME OneCaller
  PROVE  Spec => []SearchNeverPanics
<1>1. Init => TInv /\ SInv
  BY InitTInv, InitSInv
<1>2. TInv /\ SInv /\ [Next]_vars => (TInv /\ SInv)'
  BY NextPreservesTInv, NextPreservesSInv
<1>3. TInv /\ SInv => SearchNeverPanics
  BY SInvImpliesNoPanic
<1>. QED
  BY <1>1, <1>2, <1>3, PTL DEF Spec

--------------------------------------------------------------------------------
(* What the table was told, what the process holds and what a restart reads   *)
(* back.  Between calls the three agree; inside a call each phase knows which  *)
(* of them it has brought up to date.                                        *)

\* The turn enforceTurnOrder enforces.
Cur == IF turnOrders = 0 THEN NoTurn ELSE Turn(turnOrders)

\* An announced turn is a position of its fight.
AnnouncedIn(a, h) ==
  a.fight <= Len(h) /\ (a.fight # 0 => a.index \in 0 .. Size(h, a.fight) - 1)

\* The locals r of the caller against the current turn cur, the map m, the row
\* w, the announced turn a and whether a call was cut short.  Without a store
\* a restart forgets the fight, and the table is not told.
AgreeOK(r, cur, m, w, a, c) ==
  /\ r.pc \in {"idle", "placeMap", "snapTurn", "snapMap", "save"}
       => c \/ (cur.fight = 0 /\ ~HasStore) \/ a = cur
  /\ r.pc \in {"idle", "placeMap"} => c \/ ~HasStore \/ w = [turn |-> cur, map |-> m]
  /\ r.pc = "broadcast" => r.turn = cur /\ cur.fight # 0 /\ cur.index >= 0
  /\ r.pc \in {"snapTurn", "snapMap"} => cur.fight # 0 \/ m # 0
  /\ r.pc \in {"snapMap", "save"} => HasStore /\ r.turn = cur
  /\ r.pc = "save" => r.map = m
  /\ r.pc \in {"endMap", "endRow", "endBroadcast"} => cur = NoTurn
  /\ r.pc \in {"endRow", "endBroadcast"} => m = 0
  /\ r.pc = "endRow" => HasStore
  /\ r.pc = "endBroadcast" => c \/ ~HasStore \/ w = NoRow

AInv ==
  /\ HasStore \/ row = NoRow
  /\ AnnouncedIn(announced, fights)
  /\ \A p \in Callers : AgreeOK(loc[p], Cur, combatMaps, row, announced, cutShort)

LEMMA AInvImpliesAgree ==
  ASSUME HasStore, AInv, OneCaller
  PROVE  TableMemoryAndRowAgree
<1>. SUFFICES ASSUME Quiescent, ~cutShort
              PROVE  /\ announced = Cur
                     /\ row = [turn |-> announced, map |-> combatMaps]
  BY DEF TableMemoryAndRowAgree, Cur
<1>1. PICK p \in Callers : loc[p].pc = "idle"
  BY DEF OneCaller, Quiescent, At
<1>2. AgreeOK(loc[p], Cur, combatMaps, row, announced, cutShort)
  BY DEF AInv
<1>. QED
  BY <1>1, <1>2 DEF AgreeOK

LEMMA CurFact ==
  ASSUME TInv
  PROVE  Cur.fight = turnOrders /\ Cur \in TurnSet
<1>1. turnOrders # 0 => turnOrders \in 1 .. Len(fights)
  BY DEF TInv, SharedOK
<1>2. NoTurn \in TurnSet /\ NoTurn.fight = 0
  BY BoundsAssumption DEF NoTurn, TurnSet
<1>. QED
  BY <1>1, <1>2, TurnFact DEF Cur

LEMMA AgreeStep ==
  ASSUME OneCaller, TInv, NEW p \in Callers, NEW r, Become(p, r),
         AgreeOK(r, Cur', combatMaps', row', announced', cutShort'),
         HasStore \/ row' = NoRow, AnnouncedIn(announced', fights')
  PROVE  AInv'
<1>1. loc' = [loc EXCEPT ![p] = r] /\ loc \in [Callers -> LocSet] /\ Callers = {p}
  BY DEF Become, TInv, OneCaller
<1>2. \A q \in Callers : loc'[q] = r
  BY <1>1
<1>. QED
  BY <1>2 DEF AInv

LEMMA AnnouncedKept ==
  ASSUME TInv, AInv, OrdersKept, Len(fights') \in Nat, announced' = announced
  PROVE  AnnouncedIn(announced', fights')
<1>1. /\ announced.fight \in Nat /\ announced.fight <= Len(fights) /\ Len(fights) \in Nat
      /\ AnnouncedIn(announced, fights)
  BY BoundsAssumption DEF TurnSet, TInv, SharedOK, AInv, AnnouncedIn
<1>2. announced.fight # 0 => announced.fight \in 1 .. Len(fights)
  BY <1>1
<1>3. announced.fight <= Len(fights')
  BY <1>1 DEF OrdersKept
<1>4. announced.fight # 0 => Size(fights', announced.fight) = Size(fights, announced.fight)
  BY <1>2 DEF Size, OrdersKept
<1>. QED
  BY <1>1, <1>3, <1>4 DEF AnnouncedIn

\* Where no phase but the search is under way the agreement says nothing.
Unsettled == (Searching \ {"placeMap"}) \cup {"endTurnOrder", "panicked"}

LEMMA AgreeVacuous ==
  ASSUME NEW r, NEW cur, NEW m, NEW w, NEW a, NEW c, r.pc \in Unsettled
  PROVE  AgreeOK(r, cur, m, w, a, c)
  BY DEF AgreeOK, Unsettled, Searching

LEMMA AgreeUnsettled ==
  ASSUME OneCaller, TInv, AInv, Next, NEW p \in Callers, NEW r, Become(p, r), r.pc \in Unsettled,
         row' = row, announced' = announced
  PROVE  AInv'
<1>1. AnnouncedIn(announced', fights')
  BY NextKeepsOrders, AnnouncedKept
<1>2. AgreeOK(r, Cur', combatMaps', row', announced', cutShort')
  BY AgreeVacuous
<1>. QED
  BY <1>1, <1>2, AgreeStep DEF AInv

LEMMA AgreeLocalStep ==
  ASSUME OneCaller, TInv, AInv, NEW p \in Callers, NEW r, Become(p, r),
         UNCHANGED <<fights, turnOrders, combatMaps, row, announced>>,
         AgreeOK(r, Cur, combatMaps, row, announced, cutShort')
  PROVE  AInv'
<1>1. Cur' = Cur
  BY DEF Cur, Turn
<1>2. AgreeOK(r, Cur', combatMaps', row', announced', cutShort')
  BY <1>1
<1>. QED
  BY <1>2, AgreeStep DEF AInv

\* The locals with which a call begins to save, and with which it returns.
LEMMA AgreeSnap ==
  ASSUME NEW cur, NEW m, NEW w, NEW a, NEW c,
         c \/ (cur.fight = 0 /\ ~HasStore) \/ a = cur, cur.fight # 0 \/ m # 0
  PROVE  AgreeOK([Idle EXCEPT !.pc = "snapTurn"], cur, m, w, a, c)
<1>. DEFINE r == [Idle EXCEPT !.pc = "snapTurn"]
<1>1. r.pc = "snapTurn"
  BY DEF Idle
<1>. HIDE DEF r
<1>2. AgreeOK(r, cur, m, w, a, c)
  BY <1>1 DEF AgreeOK
<1>. QED
  BY <1>2 DEF r

LEMMA AgreeIdle ==
  ASSUME NEW cur, NEW m, NEW w, NEW a, NEW c,
         c \/ (cur.fight = 0 /\ ~HasStore) \/ a = cur,
         c \/ ~HasStore \/ w = [turn |-> cur, map |-> m]
  PROVE  AgreeOK(Idle, cur, m, w, a, c)
<1>1. Idle.pc = "idle"
  BY DEF Idle
<1>. QED
  BY <1>1 DEF AgreeOK

LEMMA AgreeSearch ==
  ASSUME OneCaller, TInv, SInv, AInv, Next, NEW p \in Callers, Search(p)
  PROVE  AInv'
<1>. USE DEF At, Goto, Return
<1>0. /\ SerialOK(loc[p], fights, turnOrders)
      /\ loc[p] \in LocSet /\ loc[p].at \in Int /\ loc[p].lastAlive \in Int
      /\ loc[p].pc \in Searching => turnOrders = Fight(p) /\ Index(p) \in Int
      /\ loc[p].pc \in Searching => turnOrders \in 1 .. Len(fights)
  BY SerialFact
<1>1. \A l \in Labels, i \in Int : WithAt(p, l, i).pc = l
  BY <1>0, WithAtFact
<1>2. \A i \in Int : PassOver(p, i).pc = "fetch"
  BY <1>0, PassOverFact
<1>3. ASSUME NEW l \in Unsettled, NEW i \in Int, Become(p, WithAt(p, l, i)),
             row' = row, announced' = announced
      PROVE  AInv'
  <2>1. WithAt(p, l, i).pc \in Unsettled
    BY <1>1 DEF Unsettled, Searching, Labels
  <2>. QED
    BY <1>3, <2>1, AgreeUnsettled
<1>4. ASSUME NEW i \in Int, Become(p, PassOver(p, i)), row' = row, announced' = announced
      PROVE  AInv'
  <2>1. PassOver(p, i).pc \in Unsettled
    BY <1>2 DEF Unsettled, Searching
  <2>. QED
    BY <1>4, <2>1, AgreeUnsettled
<1>5. CASE FetchIndex(p)
  <2>1. /\ Index(p) + 1 \in Int /\ row' = row /\ announced' = announced
    BY <1>0, <1>5 DEF FetchIndex, Searching
  <2>. QED
    BY <1>0, <1>3, <1>5, <2>1 DEF FetchIndex, Unsettled, Searching
<1>6. CASE StoreIndex(p) \/ CheckWrap(p) \/ ResetIndex(p) \/ StartTurnFor(p) \/ Land(p)
  BY <1>0, <1>3, <1>6 DEF StoreIndex, CheckWrap, ResetIndex, StartTurnFor, Land,
                          Unsettled, Searching
<1>7. CASE LoadCharacter(p)
  <2>1. /\ Index(p) \in Int /\ UNCHANGED <<fights, turnOrders, combatMaps, row, announced>>
    BY <1>0, <1>7 DEF LoadCharacter, Searching
  <2>2. CASE Become(p, Idle) /\ cutShort' = TRUE
    <3>1. AgreeOK(Idle, Cur, combatMaps, row, announced, cutShort')
      BY <2>2 DEF AgreeOK, Idle
    <3>. QED
      BY <2>1, <2>2, <3>1, AgreeLocalStep
  <2>3. CASE Become(p, WithAt(p, "panicked", loc[p].at)) \/ Become(p, WithAt(p, "startTurn", Index(p)))
    BY <1>0, <1>3, <2>1, <2>3 DEF Unsettled, Searching
  <2>4. CASE Become(p, PassOver(p, loc[p].lastAlive))
    BY <1>0, <1>4, <2>1, <2>4
  <2>. QED
    BY <1>7, <2>2, <2>3, <2>4 DEF LoadCharacter
<1>8. CASE CheckCanAct(p)
  <2>1. /\ Index(p) \in Int /\ row' = row /\ announced' = announced
    BY <1>0, <1>8 DEF CheckCanAct, Searching
  <2>. QED
    BY <1>3, <1>4, <1>8, <2>1 DEF CheckCanAct, Unsettled, Searching
<1>9. CASE MakePayload(p)
  <2>1. /\ loc[p].pc \in Searching /\ UNCHANGED <<fights, turnOrders, combatMaps, row, announced>>
    BY <1>9 DEF MakePayload, Searching
  <2>2. CASE Become(p, WithAt(p, "panicked", loc[p].at))
    BY <1>0, <1>3, <2>1, <2>2 DEF Unsettled
  <2>3. CASE InOrder(Fight(p), Index(p))
             /\ Become(p, [Idle EXCEPT !.pc = "broadcast", !.turn = Turn(Fight(p))])
    <3>. DEFINE r == [Idle EXCEPT !.pc = "broadcast", !.turn = Turn(Fight(p))]
    <3>1. r.pc = "broadcast" /\ r.turn = Turn(Fight(p)) /\ Become(p, r)
      BY <2>3 DEF Idle
    <3>2. Cur = Turn(Fight(p)) /\ Cur.fight # 0
      BY <1>0, <2>1, CurFact DEF Cur
    <3>3. Cur.index >= 0
      BY <2>3, <3>2 DEF InOrder, Turn, Index
    <3>. HIDE DEF r
    <3>4. AgreeOK(r, Cur, combatMaps, row, announced, cutShort')
      BY <3>1, <3>2, <3>3 DEF AgreeOK
    <3>. QED
      BY <2>1, <3>1, <3>4, AgreeLocalStep
  <2>. QED
    BY <1>9, <2>2, <2>3 DEF MakePayload
<1>10. CASE BroadcastTurnState(p)
  <2>1. /\ AgreeOK(loc[p], Cur, combatMaps, row, announced, cutShort)
        /\ loc[p].pc = "broadcast" /\ announced' = loc[p].turn
        /\ UNCHANGED <<fights, turnOrders, combatMaps, row>>
        /\ Become(p, [Idle EXCEPT !.pc = "snapTurn"])
    BY <1>10 DEF BroadcastTurnState, AInv
  <2>2. announced' = Cur /\ Cur.fight # 0 /\ Cur.index >= 0 /\ Cur' = Cur
    <3>1. announced' = Cur /\ Cur.fight # 0 /\ Cur.index >= 0
      BY <2>1 DEF AgreeOK
    <3>. QED
      BY <2>1, <3>1 DEF Cur, Turn
  <2>3. AnnouncedIn(announced', fights')
    <3>1. /\ Cur \in TurnSet /\ Cur.fight <= Len(fights) /\ TurnIn(Cur, fights)
          /\ Size(fights, turnOrders) \in Nat /\ Cur.fight = turnOrders
      <4>1. loc[p].turn = Cur
        BY <2>1, <2>2
      <4>2. turnOrders \in 1 .. Len(fights)
        BY <2>2, CurFact DEF TInv, SharedOK
      <4>3. Size(fights, turnOrders) \in Nat
        BY <4>2, FightFact DEF Size, TInv, SharedOK
      <4>. QED
        BY <1>0, <4>1, <4>2, <4>3, CurFact DEF SerialOK, TInv, SharedOK
    <3>2. Cur.index \in Int
      BY <3>1 DEF TurnSet
    <3>3. Cur.index \in 0 .. Size(fights, Cur.fight) - 1
      BY <2>2, <3>1, <3>2 DEF TurnIn
    <3>. QED
      BY <2>1, <2>2, <3>1, <3>3 DEF AnnouncedIn
  <2>4. AgreeOK([Idle EXCEPT !.pc = "snapTurn"], Cur', combatMaps', row', announced', cutShort')
    BY <2>2, AgreeSnap
  <2>. QED
    BY <2>1, <2>3, <2>4, AgreeStep DEF AInv
<1>. QED
  BY <1>5, <1>6, <1>7, <1>8, <1>9, <1>10 DEF Search

LEMMA AgreeFinish ==
  ASSUME OneCaller, TInv, SInv, AInv, NEW p \in Callers, Finish(p)
  PROVE  AInv'
<1>. USE DEF At, Goto, Return
<1>0. /\ SerialOK(loc[p], fights, turnOrders) /\ loc[p] \in LocSet /\ loc[p].at \in Int
      /\ AgreeOK(loc[p], Cur, combatMaps, row, announced, cutShort)
      /\ HasStore \/ row = NoRow
      /\ AnnouncedIn(announced, fights)
  BY SerialFact DEF AInv
<1>1. \A l \in Labels : WithAt(p, l, loc[p].at).pc = l
  BY <1>0, WithAtFact
<1>2. /\ fights' = fights
      /\ turnOrders' = turnOrders => Cur' = Cur
  BY DEF Finish, PlaceMap, SnapshotTurn, SnapshotMap, SaveCombatState, EndTurnOrder, EndMap,
         DeleteCombatState, BroadcastEnd, Recover, Cur, Turn
<1>3. ASSUME NEW r, Become(p, r), announced' = announced, HasStore \/ row' = NoRow,
             AgreeOK(r, Cur', combatMaps', row', announced', cutShort')
      PROVE  AInv'
  BY <1>0, <1>2, <1>3, AgreeStep
<1>4. CASE PlaceMap(p)
  <2>1. /\ loc[p].pc = "placeMap" /\ UNCHANGED <<turnOrders, row, announced, cutShort>>
        /\ \/ combatMaps' = Fight(p) /\ Become(p, [Idle EXCEPT !.pc = "snapTurn"])
           \/ combatMaps' = combatMaps /\ Become(p, Idle)
    BY <1>4 DEF PlaceMap
  <2>2. /\ Fight(p) # 0
        /\ cutShort \/ (Cur.fight = 0 /\ ~HasStore) \/ announced = Cur
        /\ cutShort \/ ~HasStore \/ row = [turn |-> Cur, map |-> combatMaps]
    BY <1>0, <2>1, HeldFact DEF AgreeOK, CallerOK, Searching, Fight
  <2>3. CASE combatMaps' = Fight(p) /\ Become(p, [Idle EXCEPT !.pc = "snapTurn"])
    <3>1. AgreeOK([Idle EXCEPT !.pc = "snapTurn"], Cur', combatMaps', row', announced', cutShort')
      BY <1>2, <2>1, <2>2, <2>3, AgreeSnap
    <3>. QED
      BY <1>0, <1>3, <2>1, <2>3, <3>1
  <2>4. CASE combatMaps' = combatMaps /\ Become(p, Idle)
    <3>1. AgreeOK(Idle, Cur', combatMaps', row', announced', cutShort')
      BY <1>2, <2>1, <2>2, <2>4, AgreeIdle
    <3>. QED
      BY <1>0, <1>3, <2>1, <2>4, <3>1
  <2>. QED
    BY <2>1, <2>3, <2>4
<1>5. CASE SnapshotTurn(p)
  <2>1. /\ loc[p].pc = "snapTurn"
        /\ UNCHANGED <<turnOrders, combatMaps, row, announced, cutShort>>
    BY <1>5 DEF SnapshotTurn
  <2>2. /\ cutShort \/ (Cur.fight = 0 /\ ~HasStore) \/ announced = Cur
        /\ Cur.fight # 0 \/ combatMaps # 0
    BY <1>0, <2>1 DEF AgreeOK
  <2>3. CASE ~HasStore /\ Become(p, Idle)
    <3>1. AgreeOK(Idle, Cur', combatMaps', row', announced', cutShort')
      BY <1>2, <2>1, <2>2, <2>3, AgreeIdle
    <3>. QED
      BY <1>0, <1>3, <2>1, <2>3, <3>1
  <2>4. CASE HasStore /\ Become(p, [Idle EXCEPT !.pc = "snapMap", !.turn = Cur])
    <3>. DEFINE r == [Idle EXCEPT !.pc = "snapMap", !.turn = Cur]
    <3>1. r.pc = "snapMap" /\ r.turn = Cur /\ Become(p, r)
      BY <2>4 DEF Idle
    <3>. HIDE DEF r
    <3>2. AgreeOK(r, Cur', combatMaps', row', announced', cutShort')
      BY <1>2, <2>1, <2>2, <2>4, <3>1 DEF AgreeOK
    <3>. QED
      BY <1>0, <1>3, <2>1, <3>1, <3>2
  <2>. QED
    BY <1>5, <2>3, <2>4 DEF SnapshotTurn, Cur
<1>6. CASE SnapshotMap(p)
  <2>1. /\ loc[p].pc = "snapMap"
        /\ UNCHANGED <<turnOrders, combatMaps, row, announced, cutShort>>
    BY <1>6 DEF SnapshotMap
  <2>2. /\ cutShort \/ (Cur.fight = 0 /\ ~HasStore) \/ announced = Cur
        /\ Cur.fight # 0 \/ combatMaps # 0
        /\ HasStore /\ loc[p].turn = Cur
    BY <1>0, <2>1 DEF AgreeOK
  <2>3. ~(loc[p].turn = NoTurn /\ combatMaps = 0)
    BY <2>2 DEF NoTurn
  <2>. DEFINE r == [loc[p] EXCEPT !.pc = "save", !.map = combatMaps]
  <2>4. Become(p, r)
    BY <1>6, <2>3 DEF SnapshotMap
  <2>5. r.pc = "save" /\ r.turn = Cur /\ r.map = combatMaps
    BY <1>0, <2>2 DEF LocSet
  <2>. HIDE DEF r
  <2>6. AgreeOK(r, Cur', combatMaps', row', announced', cutShort')
    BY <1>2, <2>1, <2>2, <2>5 DEF AgreeOK
  <2>. QED
    BY <1>0, <1>3, <2>1, <2>4, <2>6
<1>7. CASE SaveCombatState(p)
  <2>1. /\ loc[p].pc = "save" /\ Become(p, Idle)
        /\ UNCHANGED <<turnOrders, combatMaps, announced>>
        /\ \/ row' = [turn |-> loc[p].turn, map |-> loc[p].map] /\ cutShort' = cutShort
           \/ cutShort' /\ row' = row
    BY <1>7 DEF SaveCombatState
  <2>2. /\ cutShort \/ (Cur.fight = 0 /\ ~HasStore) \/ announced = Cur
        /\ HasStore /\ loc[p].turn = Cur /\ loc[p].map = combatMaps
    BY <1>0, <2>1 DEF AgreeOK
  <2>3. AgreeOK(Idle, Cur', combatMaps', row', announced', cutShort')
    BY <1>2, <2>1, <2>2, AgreeIdle
  <2>. QED
    BY <1>3, <2>1, <2>2, <2>3
<1>8. CASE EndTurnOrder(p)
  <2>1. /\ turnOrders' = 0 /\ row' = row /\ announced' = announced
        /\ Become(p, [Idle EXCEPT !.pc = "endMap"])
    BY <1>8 DEF EndTurnOrder
  <2>2. Cur' = NoTurn
    BY <2>1 DEF Cur
  <2>. DEFINE r == [Idle EXCEPT !.pc = "endMap"]
  <2>3. r.pc = "endMap" /\ Become(p, r)
    BY <2>1 DEF Idle
  <2>. HIDE DEF r
  <2>4. AgreeOK(r, Cur', combatMaps', row', announced', cutShort')
    BY <2>2, <2>3 DEF AgreeOK
  <2>. QED
    BY <1>0, <1>3, <2>1, <2>3, <2>4
<1>9. CASE EndMap(p)
  <2>1. /\ loc[p].pc = "endMap" /\ combatMaps' = 0
        /\ UNCHANGED <<turnOrders, row, announced, cutShort>>
        /\ Become(p, WithAt(p, IF HasStore THEN "endRow" ELSE "endBroadcast", loc[p].at))
    BY <1>9 DEF EndMap
  <2>. DEFINE r == WithAt(p, IF HasStore THEN "endRow" ELSE "endBroadcast", loc[p].at)
  <2>2. /\ HasStore => r.pc = "endRow"
        /\ ~HasStore => r.pc = "endBroadcast"
        /\ Cur = NoTurn
    BY <1>0, <1>1, <2>1 DEF AgreeOK, Labels
  <2>3. Become(p, r)
    BY <2>1
  <2>. HIDE DEF r
  <2>4. AgreeOK(r, Cur', combatMaps', row', announced', cutShort')
    BY <1>2, <2>1, <2>2 DEF AgreeOK
  <2>. QED
    BY <1>0, <1>3, <2>1, <2>3, <2>4
<1>10. CASE DeleteCombatState(p)
  <2>1. /\ loc[p].pc = "endRow" /\ UNCHANGED <<turnOrders, combatMaps, announced>>
        /\ Become(p, WithAt(p, "endBroadcast", loc[p].at))
        /\ row' = NoRow \/ (row' = row /\ cutShort')
    BY <1>10 DEF DeleteCombatState
  <2>. DEFINE r == WithAt(p, "endBroadcast", loc[p].at)
  <2>2. r.pc = "endBroadcast" /\ Cur = NoTurn /\ combatMaps = 0 /\ HasStore
    BY <1>0, <1>1, <2>1 DEF AgreeOK, Labels
  <2>3. Become(p, r)
    BY <2>1
  <2>. HIDE DEF r
  <2>4. AgreeOK(r, Cur', combatMaps', row', announced', cutShort')
    BY <1>2, <2>1, <2>2 DEF AgreeOK
  <2>. QED
    BY <1>3, <2>1, <2>2, <2>3, <2>4
<1>11. CASE BroadcastEnd(p)
  <2>1. /\ loc[p].pc = "endBroadcast" /\ announced' = NoTurn /\ Become(p, Idle)
        /\ UNCHANGED <<turnOrders, combatMaps, row, cutShort>>
    BY <1>11 DEF BroadcastEnd
  <2>2. Cur = NoTurn /\ combatMaps = 0 /\ (cutShort \/ ~HasStore \/ row = NoRow)
    BY <1>0, <2>1 DEF AgreeOK
  <2>3. AgreeOK(Idle, Cur', combatMaps', row', announced', cutShort')
    BY <1>2, <2>1, <2>2, AgreeIdle DEF NoRow
  <2>4. AnnouncedIn(announced', fights')
    BY <1>2, <2>1 DEF AnnouncedIn, NoTurn, TInv, SharedOK
  <2>. QED
    BY <1>0, <2>1, <2>3, <2>4, AgreeStep
<1>12. CASE Recover(p)
  BY <1>0, <1>12 DEF Recover, SerialOK
<1>. QED
  BY <1>4, <1>5, <1>6, <1>7, <1>8, <1>9, <1>10, <1>11, <1>12 DEF Finish

LEMMA AgreeCall ==
  ASSUME OneCaller, TInv, AInv, Next, NEW p \in Callers, Call(p)
  PROVE  AInv'
<1>. USE DEF At, Goto, Calls
<1>0. /\ loc[p] \in LocSet /\ loc[p].at \in Int /\ loc[p].pc = "idle"
      /\ AgreeOK(loc[p], Cur, combatMaps, row, announced, cutShort)
      /\ row' = row /\ announced' = announced /\ combatMaps' = combatMaps
      /\ cutShort' = cutShort
  BY HeldFact DEF AInv, Call, StartCombat, AdvanceTurn, EndCombat, GenerateCombatMap, MoveToken
<1>1. /\ cutShort \/ (Cur.fight = 0 /\ ~HasStore) \/ announced = Cur
      /\ cutShort \/ ~HasStore \/ row = [turn |-> Cur, map |-> combatMaps]
  BY <1>0 DEF AgreeOK
<1>2. \A l \in Labels : WithAt(p, l, loc[p].at).pc = l
  BY <1>0, WithAtFact
<1>3. CASE StartCombat(p) \/ AdvanceTurn(p)
  <2>1. PICK f : Become(p, [Idle EXCEPT !.pc = "fetch", !.fight = f])
    BY <1>3 DEF StartCombat, AdvanceTurn
  <2>2. [Idle EXCEPT !.pc = "fetch", !.fight = f].pc \in Unsettled
    BY DEF Idle, Unsettled, Searching
  <2>. QED
    BY <1>0, <2>1, <2>2, AgreeUnsettled
<1>4. CASE EndCombat(p)
  <2>1. WithAt(p, "endTurnOrder", loc[p].at).pc \in Unsettled
    BY <1>2 DEF Unsettled, Labels
  <2>. QED
    BY <1>0, <1>4, <2>1, AgreeUnsettled DEF EndCombat
<1>5. CASE GenerateCombatMap(p)
  <2>1. Become(p, [Idle EXCEPT !.pc = "placeMap", !.fight = turnOrders])
        /\ UNCHANGED <<fights, turnOrders>>
    BY <1>5 DEF GenerateCombatMap
  <2>. DEFINE r == [Idle EXCEPT !.pc = "placeMap", !.fight = turnOrders]
  <2>2. r.pc = "placeMap" /\ Become(p, r)
    BY <2>1 DEF Idle
  <2>. HIDE DEF r
  <2>3. AgreeOK(r, Cur, combatMaps, row, announced, cutShort')
    BY <1>0, <1>1, <2>2 DEF AgreeOK
  <2>. QED
    BY <1>0, <2>1, <2>2, <2>3, AgreeLocalStep
<1>6. CASE MoveToken(p)
  <2>1. /\ Become(p, WithAt(p, "snapTurn", loc[p].at)) /\ combatMaps # 0
        /\ UNCHANGED <<fights, turnOrders>>
    BY <1>6 DEF MoveToken
  <2>. DEFINE r == WithAt(p, "snapTurn", loc[p].at)
  <2>2. r.pc = "snapTurn" /\ Become(p, r)
    BY <1>2, <2>1 DEF Labels
  <2>. HIDE DEF r
  <2>3. AgreeOK(r, Cur, combatMaps, row, announced, cutShort')
    BY <1>0, <1>1, <2>1, <2>2 DEF AgreeOK
  <2>. QED
    BY <1>0, <2>1, <2>2, <2>3, AgreeLocalStep
<1>. QED
  BY <1>3, <1>4, <1>5, <1>6 DEF Call

\* A process that starts from the row holds the turn and the map of the row.
LEMMA LoadedCur ==
  ASSUME TInv, NEW loaded \in {row, NoRow}, WarmUpCombatState(loaded)
  PROVE  /\ combatMaps' = loaded.map
         /\ Cur' = IF loaded.turn.fight = 0 THEN NoTurn ELSE loaded.turn
<1>. DEFINE t == loaded.turn
<1>0. /\ t \in TurnSet /\ t.fight \in 0 .. Len(fights) /\ fights \in Seq(FightSet)
  BY LoadedFact DEF TInv, SharedOK
<1>1. /\ turnOrders' = t.fight /\ combatMaps' = loaded.map
      /\ t.fight # 0 => fights' = Moved(t.fight, t.index, t.round)
  BY DEF WarmUpCombatState
<1>. HIDE DEF t
<1>2. CASE t.fight # 0
  <2>1. t.fight \in 1 .. Len(fights)
    BY <1>0, <1>2
  <2>2. fights'[t.fight].currentIndex = t.index /\ fights'[t.fight].round = t.round
    BY <1>0, <1>1, <1>2, <2>1, MovedIndex
  <2>3. Cur' = [fight |-> t.fight, index |-> t.index, round |-> t.round]
    BY <1>1, <1>2, <2>2 DEF Cur, Turn
  <2>4. t = [fight |-> t.fight, index |-> t.index, round |-> t.round]
    BY <1>0 DEF TurnSet
  <2>. QED
    BY <1>1, <1>2, <2>3, <2>4 DEF t
<1>3. CASE t.fight = 0
  BY <1>1, <1>3 DEF Cur, t
<1>. QED
  BY <1>2, <1>3

LEMMA AgreeRestart ==
  ASSUME OneCaller, TInv, AInv, Next, Restart
  PROVE  AInv'
<1>. PICK loaded \in {row, NoRow} :
       /\ WarmUpCombatState(loaded)
       /\ cutShort' = (cutShort \/ loaded # row \/ \E p \in Callers : ~At(p, "idle"))
  BY DEF Restart
<1>1. /\ loc' = [p \in Callers |-> Idle] /\ row' = row /\ announced' = announced
      /\ combatMaps' = loaded.map
      /\ Cur' = IF loaded.turn.fight = 0 THEN NoTurn ELSE loaded.turn
  BY LoadedCur DEF Restart
<1>2. AnnouncedIn(announced', fights') /\ (HasStore \/ row' = NoRow)
  BY <1>1, NextKeepsOrders, AnnouncedKept DEF AInv
<1>3. PICK p : Callers = {p}
  BY DEF OneCaller
<1>4. AgreeOK(loc[p], Cur, combatMaps, row, announced, cutShort)
  BY <1>3 DEF AInv
<1>5. AgreeOK(Idle, Cur', combatMaps', row', announced', cutShort')
  <2>1. CASE cutShort'
    BY <2>1, AgreeIdle
  <2>2. CASE ~cutShort'
    <3>1. ~cutShort /\ loaded = row /\ loc[p].pc = "idle"
      BY <1>3, <2>2 DEF At
    <3>2. CASE ~HasStore
      <4>1. row.turn.fight = 0
        BY <3>2 DEF AInv, NoRow, NoTurn
      <4>2. Cur'.fight = 0
        BY <1>1, <3>1, <4>1 DEF NoTurn
      <4>. QED
        BY <3>2, <4>2, AgreeIdle
    <3>3. CASE HasStore
      <4>1. announced = Cur /\ row = [turn |-> Cur, map |-> combatMaps]
        BY <1>4, <3>1, <3>3 DEF AgreeOK
      <4>2. Cur.fight = 0 => Cur = NoTurn
        BY CurFact DEF Cur
      <4>3. Cur' = Cur /\ combatMaps' = combatMaps
        BY <1>1, <3>1, <4>1, <4>2
      <4>. QED
        BY <1>1, <4>1, <4>3, AgreeIdle
    <3>. QED
      BY <3>2, <3>3
  <2>. QED
    BY <2>1, <2>2
<1>. QED
  BY <1>1, <1>2, <1>5 DEF AInv

LEMMA InitAInv == Init => AInv
<1>. SUFFICES ASSUME Init  PROVE AInv
  OBVIOUS
<1>1. Cur = NoTurn /\ row = NoRow /\ announced = NoTurn /\ combatMaps = 0
  BY DEF Init, Cur
<1>2. AgreeOK(Idle, Cur, combatMaps, row, announced, cutShort)
  BY <1>1, AgreeIdle DEF NoRow
<1>3. AnnouncedIn(announced, fights)
  BY <1>1 DEF Init, AnnouncedIn, NoTurn
<1>. QED
  BY <1>1, <1>2, <1>3 DEF Init, AInv

LEMMA NextPreservesAInv == OneCaller /\ TInv /\ SInv /\ AInv /\ [Next]_vars => AInv'
<1>. SUFFICES ASSUME OneCaller, TInv, SInv, AInv, [Next]_vars  PROVE AInv'
  OBVIOUS
<1>1. CASE Next
  <2>1. CASE \E p \in Callers : Call(p) \/ Continue(p)
    BY <1>1, <2>1, AgreeCall, AgreeSearch, AgreeFinish DEF Continue
  <2>2. CASE ApplyEffect
    BY <2>2 DEF ApplyEffect, AInv, Cur, Turn
  <2>3. CASE Restart
    BY <1>1, <2>3, AgreeRestart
  <2>. QED
    BY <1>1, <2>1, <2>2, <2>3 DEF Next
<1>2. CASE UNCHANGED vars
  BY <1>2 DEF vars, AInv, Cur, Turn
<1>. QED
  BY <1>1, <1>2

\* What a single caller keeps: the types, the place of the search in its fight
\* and what was announced, stored and remembered.
THEOREM SerialInvariants ==
  ASSUME OneCaller
  PROVE  Spec => [](TInv /\ SInv /\ AInv)
<1>1. Init => TInv /\ SInv /\ AInv
  BY InitTInv, InitSInv, InitAInv
<1>2. TInv /\ SInv /\ AInv /\ [Next]_vars => (TInv /\ SInv /\ AInv)'
  BY NextPreservesTInv, NextPreservesSInv, NextPreservesAInv
<1>. QED
  BY <1>1, <1>2, PTL DEF Spec

\* With one call at a time and a store, between calls the table, the process
\* and the row agree on the turn and the map unless a call failed half-way
\* (turn_order.go:250-255, 262-265, 417-437; combat_state.go:98-123): for every
\* set of characters and number of fights, over restarts and failed writes.
THEOREM SerialTableMemoryAndRowAgree ==
  ASSUME OneCaller, HasStore
  PROVE  Spec => []TableMemoryAndRowAgree
<1>1. TInv /\ SInv /\ AInv => TableMemoryAndRowAgree
  BY AInvImpliesAgree
<1>. QED
  BY <1>1, SerialInvariants, PTL

\* When the calls come one after the other and there is a store, the row never
\* holds a fight that was ended, once no call is under way and none was cut
\* short: what the overlapping calls of the run turn_stale_row break
\* (combat_state.go:98-131, turn_order.go:398-437).
THEOREM SerialRowHoldsNoEndedFight ==
  ASSUME OneCaller, HasStore
  PROVE  Spec => []RowHoldsNoEndedFight
<1>1. TInv /\ TableMemoryAndRowAgree => RowHoldsNoEndedFight
  <2>. SUFFICES ASSUME TInv, TableMemoryAndRowAgree, Quiescent, ~cutShort
                PROVE  row.turn.fight \in {0, turnOrders}
    BY DEF RowHoldsNoEndedFight
  <2>1. row.turn = IF turnOrders = 0 THEN NoTurn ELSE Turn(turnOrders)
    BY DEF TableMemoryAndRowAgree
  <2>. QED
    BY <2>1 DEF NoTurn, Turn
<1>. QED
  BY <1>1, TInvHolds, SerialTableMemoryAndRowAgree, PTL

--------------------------------------------------------------------------------
(* The announced turns of a fight.  A search that begins at the announced     *)
(* turn has, at its k-th step, moved the fight exactly k positions on, over   *)
(* the end of the order at most once.                                        *)

\* The fight h is k positions after the announced turn a, in a lap of n.
Ahead(h, k, a, n) ==
  \/ h.round = a.round /\ h.currentIndex = a.index + k
  \/ h.round = a.round + 1 /\ h.currentIndex + n = a.index + k

\* The position of h is one that may be announced after a.
Past(h, a) ==
  \/ h.round = a.round /\ h.currentIndex > a.index
  \/ h.round = a.round + 1

\* The locals r of the caller, the current fight h of n turns and its announced
\* turn a.
ForwardOK(r, h, n, a) ==
  /\ r.pc \in {"fetch", "store"} => r.step <= n /\ Ahead(h, r.step, a, n)
  /\ r.pc = "store" => r.step < n
  /\ r.pc \in {"wrap", "load", "startTurn", "canAct"} =>
       r.step < n /\ Ahead(h, r.step + 1, a, n)
  /\ r.pc = "reset" =>
       r.step < n /\ h.round = a.round /\ h.currentIndex = n /\ n = a.index + r.step + 1
  /\ r.pc = "land" => h.round = a.round + 1
  /\ r.pc \in {"payload", "broadcast"} => Past(h, a)

\* The fight the table was last told of is the current one.
Announced == turnOrders # 0 /\ turnOrders = announced.fight /\ ~cutShort

FInv ==
  Announced =>
    \A p \in Callers : ForwardOK(loc[p], fights[turnOrders], Size(fights, turnOrders), announced)

LEMMA ForwardStep ==
  ASSUME OneCaller, TInv, NEW p \in Callers, NEW r, Become(p, r),
         Announced' => ForwardOK(r, fights'[turnOrders'], Size(fights', turnOrders'), announced')
  PROVE  FInv'
<1>1. loc' = [loc EXCEPT ![p] = r] /\ loc \in [Callers -> LocSet] /\ Callers = {p}
  BY DEF Become, TInv, OneCaller
<1>2. \A q \in Callers : loc'[q] = r
  BY <1>1
<1>. QED
  BY <1>2 DEF FInv

LEMMA ForwardVacuous ==
  ASSUME NEW r, NEW h, NEW n, NEW a,
         r.pc \in Labels \ ((Searching \cup {"broadcast"}) \ {"placeMap"})
  PROVE  ForwardOK(r, h, n, a)
  BY DEF ForwardOK, Labels, Searching

LEMMA ForwardLeaves ==
  ASSUME OneCaller, TInv, NEW p \in Callers, NEW r, Become(p, r),
         r.pc \in Labels \ ((Searching \cup {"broadcast"}) \ {"placeMap"})
  PROVE  FInv'
  BY ForwardVacuous, ForwardStep

LEMMA StepFact ==
  ASSUME NEW p \in Callers, loc[p] \in LocSet, NEW l, NEW i
  PROVE  /\ WithAt(p, l, i).pc = l /\ WithAt(p, l, i).step = loc[p].step
         /\ PassOver(p, i).pc = "fetch" /\ PassOver(p, i).step = loc[p].step + 1
         /\ loc[p].step \in Nat
  BY DEF WithAt, PassOver, LocSet

\* The announced turn of the current fight, as numbers.
LEMMA AnnouncedFact ==
  ASSUME TInv, AInv, Announced
  PROVE  /\ turnOrders \in 1 .. Len(fights)
         /\ announced.round \in Nat /\ announced.index \in Int
         /\ announced.index \in 0 .. Size(fights, turnOrders) - 1
         /\ Size(fights, turnOrders) \in Nat \ {0}
         /\ fights[turnOrders].currentIndex \in Int /\ fights[turnOrders].round \in Nat
<1>1. turnOrders \in 1 .. Len(fights)
  BY DEF Announced, TInv, SharedOK
<1>2. announced.round \in Nat /\ announced.index \in Int
  BY DEF TInv, SharedOK, TurnSet
<1>. QED
  BY <1>1, <1>2, FightFact DEF Announced, AInv, AnnouncedIn, TInv, SharedOK, Size

\* A step of the caller that leaves the fight where it is.
LEMMA ForwardLocalStep ==
  ASSUME OneCaller, TInv, NEW p \in Callers, NEW r, Become(p, r),
         UNCHANGED <<fights, turnOrders, announced, cutShort>>,
         Announced => ForwardOK(r, fights[turnOrders], Size(fights, turnOrders), announced)
  PROVE  FInv'
<1>1. Announced' = Announced
  BY DEF Announced
<1>. QED
  BY <1>1, ForwardStep

\* A step of the search that moves the fight.
LEMMA ForwardMove ==
  ASSUME OneCaller, TInv, AInv, Next, NEW p \in Callers, NEW r, Become(p, r),
         UNCHANGED <<turnOrders, announced, cutShort>>,
         turnOrders # 0 => turnOrders \in 1 .. Len(fights),
         NEW i \in Int, NEW k \in Nat, fights' = Moved(turnOrders, i, k),
         ASSUME NEW h, h.currentIndex = i, h.round = k, Announced
         PROVE  ForwardOK(r, h, Size(fights, turnOrders), announced)
  PROVE  FInv'
<1>1. Announced' = Announced
  BY DEF Announced
<1>2. ASSUME Announced
      PROVE  ForwardOK(r, fights'[turnOrders], Size(fights, turnOrders), announced)
  <2>1. turnOrders \in 1 .. Len(fights) /\ fights \in Seq(FightSet)
    BY <1>2 DEF Announced, TInv, SharedOK
  <2>2. fights'[turnOrders].currentIndex = i /\ fights'[turnOrders].round = k
    BY <2>1, MovedIndex
  <2>. QED
    BY <1>2, <2>2
<1>3. Announced => Size(fights', turnOrders) = Size(fights, turnOrders)
  BY AnnouncedFact, NextKeepsOrders DEF OrdersKept, Size
<1>. QED
  BY <1>1, <1>2, <1>3, ForwardStep

LEMMA ForwardSearch ==
  ASSUME OneCaller, TInv, SInv, AInv, FInv, Next, NEW p \in Callers, Search(p)
  PROVE  FInv'
<1>. USE DEF At, Goto, Return
<1>. DEFINE t == turnOrders
            n == Size(fights, turnOrders)
            h0 == fights[turnOrders]
            step == loc[p].step
<1>0. /\ SerialOK(loc[p], fights, turnOrders)
      /\ loc[p] \in LocSet /\ loc[p].at \in Int /\ loc[p].lastAlive \in Int
      /\ loc[p].pc \in Searching =>
              /\ turnOrders = loc[p].fight /\ turnOrders = Fight(p)
              /\ turnOrders \in 1 .. Len(fights)
              /\ fights[turnOrders].currentIndex = Index(p)
              /\ Index(p) \in Int /\ Round(p) \in Nat
              /\ Size(fights, turnOrders) \in Nat \ {0}
  BY SerialFact
<1>1. step \in Nat /\ \A l, i : /\ WithAt(p, l, i).pc = l /\ WithAt(p, l, i).step = step
                                /\ PassOver(p, i).pc = "fetch" /\ PassOver(p, i).step = step + 1
  BY <1>0, StepFact
<1>2. Announced => ForwardOK(loc[p], h0, n, announced)
  BY DEF FInv
<1>3. Announced => /\ announced.round \in Nat /\ announced.index \in Int
                   /\ announced.index \in 0 .. n - 1 /\ n \in Nat \ {0}
                   /\ h0.currentIndex \in Int /\ h0.round \in Nat
  BY AnnouncedFact
<1>4. loc[p].pc \in Searching =>
        /\ n = Len(fights[Fight(p)].order) /\ h0.currentIndex = Index(p) /\ h0.round = Round(p)
  BY <1>0 DEF Size, Index, Round
<1>. HIDE DEF n, h0, step
<1>5. CASE FetchIndex(p)
  <2>1. /\ loc[p].pc = "fetch" /\ loc[p].pc \in Searching
        /\ UNCHANGED <<fights, turnOrders, announced, cutShort>>
    BY <1>5 DEF FetchIndex, Searching
  <2>2. Announced => step <= n /\ Ahead(h0, step, announced, n)
    BY <1>2, <2>1 DEF ForwardOK, step
  <2>3. CASE step < n /\ Become(p, WithAt(p, "store", Index(p) + 1))
    <3>. DEFINE r == WithAt(p, "store", Index(p) + 1)
    <3>1. r.pc = "store" /\ r.step = step /\ Become(p, r)
      BY <1>1, <2>3
    <3>. HIDE DEF r
    <3>2. Announced => ForwardOK(r, h0, n, announced)
      BY <2>2, <2>3, <3>1 DEF ForwardOK
    <3>. QED
      BY <2>1, <3>1, <3>2, ForwardLocalStep DEF h0, n
  <2>4. CASE step >= n /\ Become(p, WithAt(p, "land", loc[p].at))
    <3>. DEFINE r == WithAt(p, "land", loc[p].at)
    <3>1. r.pc = "land" /\ Become(p, r)
      BY <1>1, <2>4
    <3>. HIDE DEF r
    <3>2. Announced => h0.round = announced.round + 1
      <4>1. h0.currentIndex \in -1 .. n - 1
        BY <1>0, <2>1 DEF SerialOK, h0, n
      <4>. QED
        BY <1>1, <1>3, <2>2, <2>4, <4>1 DEF Ahead
    <3>3. Announced => ForwardOK(r, h0, n, announced)
      BY <3>1, <3>2 DEF ForwardOK
    <3>. QED
      BY <2>1, <3>1, <3>3, ForwardLocalStep DEF h0, n
  <2>5. CASE Become(p, WithAt(p, "endTurnOrder", loc[p].at))
    BY <1>1, <2>5, ForwardLeaves DEF Labels, Searching
  <2>. QED
    BY <1>4, <1>5, <2>1, <2>3, <2>4, <2>5 DEF FetchIndex, step
<1>6. CASE StoreIndex(p)
  <2>. DEFINE r == WithAt(p, "wrap", loc[p].at)
  <2>1. /\ loc[p].pc = "store" /\ loc[p].pc \in Searching
        /\ UNCHANGED <<turnOrders, announced, cutShort>>
        /\ fights' = Moved(turnOrders, loc[p].at, Round(p)) /\ Become(p, r)
    BY <1>0, <1>6 DEF StoreIndex, Searching
  <2>2. r.pc = "wrap" /\ r.step = step
    BY <1>1
  <2>. HIDE DEF r
  <2>3. /\ loc[p].at = h0.currentIndex + 1 /\ Round(p) = h0.round
        /\ Announced => step < n /\ Ahead(h0, step, announced, n)
    BY <1>0, <1>2, <1>4, <2>1 DEF SerialOK, ForwardOK, step, h0
  <2>4. ASSUME NEW h, h.currentIndex = loc[p].at, h.round = Round(p), Announced
        PROVE  ForwardOK(r, h, n, announced)
    <3>1. Ahead(h, step + 1, announced, n)
      BY <1>1, <1>3, <2>3, <2>4 DEF Ahead
    <3>. QED
      BY <2>2, <2>3, <2>4, <3>1 DEF ForwardOK
  <2>. QED
    BY <1>0, <2>1, <2>4, ForwardMove DEF n
<1>7. CASE CheckWrap(p)
  <2>1. /\ loc[p].pc = "wrap" /\ loc[p].pc \in Searching
        /\ UNCHANGED <<fights, turnOrders, announced, cutShort>>
    BY <1>7 DEF CheckWrap, Searching
  <2>2. /\ Announced => step < n /\ Ahead(h0, step + 1, announced, n)
        /\ Index(p) = h0.currentIndex /\ h0.currentIndex \in 0 .. n
    BY <1>0, <1>2, <1>4, <2>1 DEF SerialOK, ForwardOK, step, h0, n
  <2>3. CASE Index(p) >= n /\ Become(p, WithAt(p, "reset", loc[p].at))
    <3>. DEFINE r == WithAt(p, "reset", loc[p].at)
    <3>1. r.pc = "reset" /\ r.step = step /\ Become(p, r)
      BY <1>1, <2>3
    <3>. HIDE DEF r
    <3>2. Announced => /\ h0.round = announced.round /\ h0.currentIndex = n
                       /\ n = announced.index + step + 1
      BY <1>1, <1>3, <2>2, <2>3 DEF Ahead
    <3>3. Announced => ForwardOK(r, h0, n, announced)
      BY <2>2, <3>1, <3>2 DEF ForwardOK
    <3>. QED
      BY <2>1, <3>1, <3>3, ForwardLocalStep DEF h0, n
  <2>4. CASE Become(p, WithAt(p, "load", loc[p].at))
    <3>. DEFINE r == WithAt(p, "load", loc[p].at)
    <3>1. r.pc = "load" /\ r.step = step /\ Become(p, r)
      BY <1>1, <2>4
    <3>. HIDE DEF r
    <3>2. Announced => ForwardOK(r, h0, n, announced)
      BY <2>2, <3>1 DEF ForwardOK
    <3>. QED
      BY <2>1, <3>1, <3>2, ForwardLocalStep DEF h0, n
  <2>. QED
    BY <1>4, <1>7, <2>1, <2>3, <2>4 DEF CheckWrap
<1>8. CASE ResetIndex(p)
  <2>. DEFINE r == WithAt(p, "load", loc[p].at)
  <2>1. /\ loc[p].pc = "reset" /\ loc[p].pc \in Searching
        /\ UNCHANGED <<turnOrders, announced, cutShort>>
        /\ fights' = Moved(turnOrders, 0, Round(p) + 1) /\ Become(p, r)
    BY <1>0, <1>8 DEF ResetIndex, Searching
  <2>2. r.pc = "load" /\ r.step = step /\ Round(p) + 1 \in Nat
    BY <1>0, <1>1, <2>1
  <2>. HIDE DEF r
  <2>3. /\ Round(p) = h0.round
        /\ Announced => step < n /\ h0.round = announced.round /\ n = announced.index + step + 1
    BY <1>2, <1>4, <2>1 DEF ForwardOK, step
  <2>4. ASSUME NEW h, h.currentIndex = 0, h.round = Round(p) + 1, Announced
        PROVE  ForwardOK(r, h, n, announced)
    <3>1. Ahead(h, step + 1, announced, n)
      BY <1>1, <1>3, <2>3, <2>4 DEF Ahead
    <3>. QED
      BY <2>2, <2>3, <2>4, <3>1 DEF ForwardOK
  <2>. DEFINE k == Round(p) + 1
  <2>5. /\ k \in Nat /\ 0 \in Int /\ turnOrders \in 1 .. Len(fights)
        /\ fights' = Moved(turnOrders, 0, k)
    BY <1>0, <2>1, <2>2
  <2>6. ASSUME NEW h, h.currentIndex = 0, h.round = k, Announced
        PROVE  ForwardOK(r, h, Size(fights, turnOrders), announced)
    BY <2>4, <2>6 DEF n
  <2>. HIDE DEF k
  <2>. QED
    BY <2>1, <2>5, <2>6, ForwardMove
<1>9. CASE LoadCharacter(p)
  <2>1. /\ loc[p].pc = "load" /\ loc[p].pc \in Searching
        /\ UNCHANGED <<fights, turnOrders, announced>>
    BY <1>9 DEF LoadCharacter, Searching
  <2>2. Announced => step < n /\ Ahead(h0, step + 1, announced, n)
    BY <1>2, <2>1 DEF ForwardOK, step
  <2>3. CASE Become(p, Idle)
    BY <2>3, ForwardLeaves DEF Labels, Searching, Idle
  <2>4. CASE Become(p, WithAt(p, "panicked", loc[p].at))
    BY <1>1, <2>4, ForwardLeaves DEF Labels, Searching
  <2>5. CASE cutShort' = cutShort /\ Become(p, PassOver(p, loc[p].lastAlive))
    <3>. DEFINE r == PassOver(p, loc[p].lastAlive)
    <3>1. r.pc = "fetch" /\ r.step = step + 1 /\ Become(p, r)
      BY <1>1, <2>5
    <3>. HIDE DEF r
    <3>2. Announced => step + 1 <= n
      BY <1>1, <1>3, <2>2
    <3>3. Announced => ForwardOK(r, h0, n, announced)
      BY <2>2, <3>1, <3>2 DEF ForwardOK
    <3>. QED
      BY <2>1, <2>5, <3>1, <3>3, ForwardLocalStep DEF h0, n
  <2>6. CASE cutShort' = cutShort /\ Become(p, WithAt(p, "startTurn", Index(p)))
    <3>. DEFINE r == WithAt(p, "startTurn", Index(p))
    <3>1. r.pc = "startTurn" /\ r.step = step /\ Become(p, r)
      BY <1>1, <2>6
    <3>. HIDE DEF r
    <3>2. Announced => ForwardOK(r, h0, n, announced)
      BY <2>2, <3>1 DEF ForwardOK
    <3>. QED
      BY <2>1, <2>6, <3>1, <3>2, ForwardLocalStep DEF h0, n
  <2>. QED
    BY <1>9, <2>3, <2>4, <2>5, <2>6 DEF LoadCharacter
<1>10. CASE StartTurnFor(p)
  <2>. DEFINE r == WithAt(p, "canAct", loc[p].at)
  <2>1. /\ loc[p].pc = "startTurn" /\ UNCHANGED <<fights, turnOrders, announced, cutShort>>
        /\ Become(p, r)
    BY <1>10 DEF StartTurnFor
  <2>2. r.pc = "canAct" /\ r.step = step
    BY <1>1
  <2>. HIDE DEF r
  <2>3. Announced => ForwardOK(r, h0, n, announced)
    BY <1>2, <2>1, <2>2 DEF ForwardOK, step
  <2>. QED
    BY <2>1, <2>3, ForwardLocalStep DEF h0, n
<1>11. CASE CheckCanAct(p)
  <2>1. /\ loc[p].pc = "canAct" /\ loc[p].pc \in Searching
        /\ UNCHANGED <<fights, turnOrders, announced, cutShort>>
    BY <1>11 DEF CheckCanAct, Searching
  <2>2. /\ Announced => step < n /\ Ahead(h0, step + 1, announced, n)
        /\ h0.currentIndex \in 0 .. n - 1
    BY <1>0, <1>2, <2>1 DEF SerialOK, ForwardOK, step, h0, n
  <2>3. CASE Become(p, PassOver(p, Index(p)))
    <3>. DEFINE r == PassOver(p, Index(p))
    <3>1. r.pc = "fetch" /\ r.step = step + 1 /\ Become(p, r)
      BY <1>1, <2>3
    <3>. HIDE DEF r
    <3>2. Announced => step + 1 <= n
      BY <1>1, <1>3, <2>2
    <3>3. Announced => ForwardOK(r, h0, n, announced)
      BY <2>2, <3>1, <3>2 DEF ForwardOK
    <3>. QED
      BY <2>1, <3>1, <3>3, ForwardLocalStep DEF h0, n
  <2>4. CASE Become(p, WithAt(p, "payload", -1))
    <3>. DEFINE r == WithAt(p, "payload", -1)
    <3>1. r.pc = "payload" /\ Become(p, r)
      BY <1>1, <2>4
    <3>. HIDE DEF r
    <3>2. Announced => Past(h0, announced)
      BY <1>1, <1>3, <2>2 DEF Ahead, Past
    <3>3. Announced => ForwardOK(r, h0, n, announced)
      BY <3>1, <3>2 DEF ForwardOK
    <3>. QED
      BY <2>1, <3>1, <3>3, ForwardLocalStep DEF h0, n
  <2>. QED
    BY <1>11, <2>3, <2>4 DEF CheckCanAct
<1>12. CASE Land(p)
  <2>. DEFINE r == WithAt(p, "payload", loc[p].at)
  <2>1. /\ loc[p].pc = "land" /\ loc[p].pc \in Searching
        /\ UNCHANGED <<turnOrders, announced, cutShort>>
        /\ fights' = Moved(turnOrders, loc[p].lastAlive, Round(p)) /\ Become(p, r)
    BY <1>0, <1>12 DEF Land, Searching
  <2>2. r.pc = "payload"
    BY <1>1
  <2>. HIDE DEF r
  <2>3. Announced => Round(p) = announced.round + 1
    BY <1>2, <1>4, <2>1 DEF ForwardOK
  <2>4. ASSUME NEW h, h.currentIndex = loc[p].lastAlive, h.round = Round(p), Announced
        PROVE  ForwardOK(r, h, n, announced)
    BY <2>2, <2>3, <2>4 DEF ForwardOK, Past
  <2>. QED
    BY <1>0, <2>1, <2>4, ForwardMove DEF n
<1>13. CASE MakePayload(p)
  <2>1. /\ loc[p].pc = "payload" /\ UNCHANGED <<fights, turnOrders, announced, cutShort>>
    BY <1>13 DEF MakePayload
  <2>2. CASE Become(p, WithAt(p, "panicked", loc[p].at))
    BY <1>1, <2>2, ForwardLeaves DEF Labels, Searching
  <2>3. CASE Become(p, [Idle EXCEPT !.pc = "broadcast", !.turn = Turn(Fight(p))])
    <3>. DEFINE r == [Idle EXCEPT !.pc = "broadcast", !.turn = Turn(Fight(p))]
    <3>1. r.pc = "broadcast" /\ Become(p, r)
      BY <2>3 DEF Idle
    <3>. HIDE DEF r
    <3>2. Announced => ForwardOK(r, h0, n, announced)
      BY <1>2, <2>1, <3>1 DEF ForwardOK
    <3>. QED
      BY <2>1, <3>1, <3>2, ForwardLocalStep DEF h0, n
  <2>. QED
    BY <1>13, <2>2, <2>3 DEF MakePayload
<1>14. CASE BroadcastTurnState(p)
  <2>1. [Idle EXCEPT !.pc = "snapTurn"].pc = "snapTurn"
    BY DEF Idle
  <2>. QED
    BY <1>14, <2>1, ForwardLeaves DEF BroadcastTurnState, Labels, Searching
<1>. QED
  BY <1>5, <1>6, <1>7, <1>8, <1>9, <1>10, <1>11, <1>12, <1>13, <1>14 DEF Search

LEMMA ForwardFinish ==
  ASSUME OneCaller, TInv, SInv, NEW p \in Callers, Finish(p)
  PROVE  FInv'
<1>. USE DEF At, Goto, Return
<1>0. loc[p] \in LocSet /\ SerialOK(loc[p], fights, turnOrders)
  BY SerialFact
<1>1. \A l, i : WithAt(p, l, i).pc = l
  BY <1>0, StepFact
<1>2. \A t, m : /\ Idle.pc = "idle"
                /\ [Idle EXCEPT !.pc = "snapTurn"].pc = "snapTurn"
                /\ [Idle EXCEPT !.pc = "endMap"].pc = "endMap"
                /\ [Idle EXCEPT !.pc = "snapMap", !.turn = t].pc = "snapMap"
                /\ [loc[p] EXCEPT !.pc = "save", !.map = m].pc = "save"
  BY <1>0 DEF Idle, LocSet
<1>3. ASSUME NEW r, Become(p, r),
             r.pc \in {"idle", "snapTurn", "snapMap", "save", "endMap", "endRow", "endBroadcast"}
      PROVE  FInv'
  BY <1>3, ForwardLeaves DEF Labels, Searching
<1>4. CASE PlaceMap(p) \/ SnapshotTurn(p)
  BY <1>2, <1>3, <1>4 DEF PlaceMap, SnapshotTurn
<1>5. CASE SnapshotMap(p) \/ SaveCombatState(p)
  BY <1>2, <1>3, <1>5 DEF SnapshotMap, SaveCombatState
<1>6. CASE EndTurnOrder(p) \/ BroadcastEnd(p) \/ Recover(p)
  BY <1>2, <1>3, <1>6 DEF EndTurnOrder, BroadcastEnd, Recover
<1>7. CASE EndMap(p) \/ DeleteCombatState(p)
  BY <1>1, <1>3, <1>7 DEF EndMap, DeleteCombatState
<1>. QED
  BY <1>4, <1>5, <1>6, <1>7 DEF Finish

LEMMA ForwardCall ==
  ASSUME OneCaller, TInv, AInv, NEW p \in Callers, Call(p)
  PROVE  FInv'
<1>. USE DEF At, Goto, Calls
<1>0. /\ loc[p] \in LocSet /\ AgreeOK(loc[p], Cur, combatMaps, row, announced, cutShort)
      /\ AnnouncedIn(announced, fights) /\ announced.fight \in Nat /\ Len(fights) \in Nat
  BY BoundsAssumption DEF AInv, TInv, SharedOK, TurnSet
<1>1. \A l, i : WithAt(p, l, i).pc = l
  BY <1>0, StepFact
<1>2. CASE StartCombat(p)
  <2>1. turnOrders' # announced'.fight
    BY <1>0, <1>2 DEF StartCombat, AnnouncedIn
  <2>. QED
    BY <1>2, <2>1, ForwardStep DEF StartCombat, Announced
<1>3. CASE AdvanceTurn(p)
  <2>. DEFINE r == [Idle EXCEPT !.pc = "fetch", !.fight = turnOrders]
  <2>1. /\ r.pc = "fetch" /\ r.step = 0 /\ Become(p, r) /\ loc[p].pc = "idle"
        /\ UNCHANGED <<fights, turnOrders, announced, cutShort>>
    BY <1>3 DEF AdvanceTurn, Idle
  <2>. HIDE DEF r
  <2>2. ASSUME Announced
        PROVE  ForwardOK(r, fights[turnOrders], Size(fights, turnOrders), announced)
    <3>1. announced = Turn(turnOrders)
      <4>1. Cur = Turn(turnOrders) /\ Cur.fight # 0
        BY <2>2, CurFact DEF Cur, Announced
      <4>. QED
        BY <1>0, <2>1, <2>2, <4>1 DEF AgreeOK, Announced
    <3>2. /\ fights[turnOrders].round = announced.round
          /\ fights[turnOrders].currentIndex = announced.index
      BY <3>1 DEF Turn
    <3>3. announced.index \in Int /\ Size(fights, turnOrders) \in Nat
      BY <2>2, AnnouncedFact
    <3>4. Ahead(fights[turnOrders], 0, announced, Size(fights, turnOrders))
      BY <3>2, <3>3 DEF Ahead
    <3>. QED
      BY <2>1, <3>3, <3>4 DEF ForwardOK
  <2>. QED
    BY <2>1, <2>2, ForwardLocalStep
<1>4. CASE EndCombat(p) \/ MoveToken(p)
  BY <1>1, <1>4, ForwardLeaves DEF EndCombat, MoveToken, Labels, Searching
<1>5. CASE GenerateCombatMap(p)
  <2>1. [Idle EXCEPT !.pc = "placeMap", !.fight = turnOrders].pc = "placeMap"
    BY DEF Idle
  <2>. QED
    BY <1>5, <2>1, ForwardLeaves DEF GenerateCombatMap, Labels, Searching
<1>. QED
  BY <1>2, <1>3, <1>4, <1>5 DEF Call

LEMMA NextPreservesFInv == OneCaller /\ TInv /\ SInv /\ AInv /\ FInv /\ [Next]_vars => FInv'
<1>. SUFFICES ASSUME OneCaller, TInv, SInv, AInv, FInv, [Next]_vars  PROVE FInv'
  OBVIOUS
<1>1. CASE Next
  <2>1. CASE \E p \in Callers : Call(p) \/ Continue(p)
    BY <1>1, <2>1, ForwardCall, ForwardSearch, ForwardFinish DEF Continue
  <2>2. CASE ApplyEffect
    BY <2>2 DEF ApplyEffect, FInv, Announced
  <2>3. CASE Restart
    <3>1. \A p \in Callers : loc'[p].pc = "idle"
      BY <2>3 DEF Restart, Idle
    <3>. QED
      BY <3>1, ForwardVacuous DEF FInv, Labels, Searching
  <2>. QED
    BY <1>1, <2>1, <2>2, <2>3 DEF Next
<1>2. CASE UNCHANGED vars
  BY <1>2 DEF vars, FInv, Announced
<1>. QED
  BY <1>1, <1>2

\* With one call at a time the announced turns of a fight move forward, and
\* no round is passed over, unless a call was cut short
\* (turn_order.go:211-216, 258-259): whatever happens to the characters while
\* the search passes over them, and across restarts.
THEOREM SerialTurnsMoveForward ==
  ASSUME OneCaller
  PROVE  Spec => TurnsMoveForward
<1>. DEFINE Forward ==
              announced'.fight # 0 /\ announced'.fight = announced.fight /\ ~cutShort
              => \/ announced'.round = announced.round /\ announced'.index > announced.index
                 \/ announced'.round = announced.round + 1
            Inv == TInv /\ SInv /\ AInv /\ FInv
<1>1. Init => Inv
  <2>1. Init => FInv
    BY DEF Init, FInv, Announced
  <2>. QED
    BY <2>1, InitTInv, InitSInv, InitAInv
<1>2. Inv /\ [Next]_vars => Inv'
  BY NextPreservesTInv, NextPreservesSInv, NextPreservesAInv, NextPreservesFInv
<1>3. Inv /\ [Next]_vars => [Forward]_announced
  <2>. SUFFICES ASSUME TInv, AInv, FInv, Next, announced' # announced,
                       announced'.fight # 0, announced'.fight = announced.fight, ~cutShort
                PROVE  \/ announced'.round = announced.round /\ announced'.index > announced.index
                       \/ announced'.round = announced.round + 1
    BY DEF vars
  <2>1. PICK p \in Callers : BroadcastTurnState(p)
    <3>1. ASSUME NEW p \in Callers, Call(p)  PROVE announced' = announced
      BY <3>1 DEF Call, StartCombat, AdvanceTurn, EndCombat, GenerateCombatMap, MoveToken
    <3>2. ASSUME NEW p \in Callers, Search(p)
          PROVE  announced' = announced \/ BroadcastTurnState(p)
      BY <3>2 DEF Search, FetchIndex, StoreIndex, CheckWrap, ResetIndex, LoadCharacter,
                  StartTurnFor, CheckCanAct, Land, MakePayload
    <3>3. ASSUME NEW p \in Callers, Finish(p)  PROVE announced' \in {announced, NoTurn}
      BY <3>3 DEF Finish, PlaceMap, SnapshotTurn, SnapshotMap, SaveCombatState, EndTurnOrder,
                  EndMap, DeleteCombatState, BroadcastEnd, Recover
    <3>. QED
      BY <3>1, <3>2, <3>3 DEF Next, Continue, ApplyEffect, Restart, NoTurn
  <2>2. announced' = loc[p].turn /\ loc[p].pc = "broadcast"
    BY <2>1 DEF BroadcastTurnState, At
  <2>3. announced' = Cur /\ Cur.fight # 0
    BY <2>2 DEF AInv, AgreeOK
  <2>4. Announced /\ Cur = Turn(turnOrders)
    BY <2>3, CurFact DEF Announced, Cur
  <2>5. Past(fights[turnOrders], announced)
    BY <2>2, <2>4 DEF FInv, ForwardOK
  <2>. QED
    BY <2>3, <2>4, <2>5 DEF Past, Turn
<1>. QED
  BY <1>1, <1>2, <1>3, PTL DEF Spec, TurnsMoveForward
================================================================================
