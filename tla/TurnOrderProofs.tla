---------------------------- MODULE TurnOrderProofs ----------------------------
(* Theorems about TurnOrder, for every value of its constants.             *)
EXTENDS TurnOrder, SequenceTheorems, TLAPS

\* An initiative order of some of the characters is a nonempty sequence and
\* an initiative order of all of them.
LEMMA OrdersFact ==
  ASSUME NEW S \in SUBSET Characters, NEW o \in Orders(S)
  PROVE  /\ o \in Seq(Characters)
         /\ Len(o) \in Nat \ {0}
         /\ o \in Orders(Characters)
<1>1. PICK n \in 1 .. MaxOrder : o \in [1 .. n -> S]
  BY DEF Orders
<1>2. n \in Nat \ {0} /\ o \in [1 .. n -> Characters]
  BY <1>1, BoundsAssumption
<1>3. o \in Seq(Characters) /\ Len(o) = n
  BY <1>2
<1>. QED
  BY <1>2, <1>3 DEF Orders

\* The fields of a fight that exists, and of one whose position is replaced.
LEMMA FightFact ==
  ASSUME fights \in Seq(FightSet), NEW f \in 1 .. Len(fights)
  PROVE  /\ fights[f] \in FightSet
         /\ fights[f].order \in Seq(Characters) /\ Len(fights[f].order) \in Nat \ {0}
         /\ fights[f].currentIndex \in Int /\ fights[f].round \in Nat
<1>1. fights[f] \in FightSet
  OBVIOUS
<1>2. fights[f].order \in Orders(Characters)
  BY <1>1 DEF FightSet
<1>. QED
  BY <1>1, <1>2, OrdersFact DEF FightSet

LEMMA MoveFact ==
  ASSUME fights \in Seq(FightSet), NEW f \in 1 .. Len(fights), NEW i \in Int, NEW r \in Nat
  PROVE  /\ Moved(f, i, r) \in Seq(FightSet)
         /\ Len(Moved(f, i, r)) = Len(fights)
         /\ \A g \in 1 .. Len(fights) : Moved(f, i, r)[g].order = fights[g].order
<1>. DEFINE moved == [order |-> fights[f].order, currentIndex |-> i, round |-> r]
<1>1. moved \in FightSet
  <2>1. fights[f] \in FightSet
    OBVIOUS
  <2>. QED
    BY <2>1 DEF FightSet
<1>2. Moved(f, i, r) = [fights EXCEPT ![f] = moved]
  BY DEF Moved
<1>3. moved.order = fights[f].order
  OBVIOUS
<1>. HIDE DEF moved
<1>4. /\ Moved(f, i, r) \in Seq(FightSet)
      /\ Len(Moved(f, i, r)) = Len(fights)
      /\ \A g \in 1 .. Len(fights) :
           Moved(f, i, r)[g] = IF g = f THEN moved ELSE fights[g]
  BY <1>1, <1>2, ExceptSeq
<1>. QED
  BY <1>3, <1>4

LEMMA MovedIndex ==
  ASSUME fights \in Seq(FightSet), NEW f \in 1 .. Len(fights), NEW i, NEW r
  PROVE  Moved(f, i, r)[f].currentIndex = i /\ Moved(f, i, r)[f].round = r
  BY DEF Moved

--------------------------------------------------------------------------------
(* Type correctness.  TypeOK is not inductive: a caller in the search        *)
(* dereferences its fight, and a caller that has loaded a character indexes *)
(* the order with the position it loaded.                                  *)

Searching == {"fetch", "store", "wrap", "reset", "load", "startTurn", "canAct", "land",
              "payload", "placeMap"}

SharedOK ==
  /\ condition \in [Characters -> Conditions]
  /\ fights \in Seq(FightSet) /\ Len(fights) <= MaxFights
  /\ turnOrders \in 0 .. Len(fights)
  /\ combatMaps \in 0 .. Len(fights)
  /\ row \in [turn : TurnSet, map : 0 .. MaxFights]
  /\ row.turn.fight <= Len(fights) /\ row.map <= Len(fights)
  /\ announced \in TurnSet
  /\ cutShort \in BOOLEAN

\* A caller's locals r are right for the heap h of fights.
CallerOK(r, h) ==
  /\ r \in LocSet
  /\ r.fight <= Len(h) /\ r.turn.fight <= Len(h) /\ r.map <= Len(h)
  /\ r.pc \in Searching => r.fight # 0
  /\ r.pc \in {"startTurn", "canAct"} => r.at \in 0 .. Len(h[r.fight].order) - 1

TInv ==
  /\ SharedOK
  /\ loc \in [Callers -> LocSet]
  /\ \A p \in Callers : CallerOK(loc[p], fights)

LEMMA TInvImpliesTypeOK == TInv => TypeOK
  BY DEF TInv, SharedOK, CallerOK, TypeOK, Fight

\* The heap only grows, and the order of a fight never changes.
OrdersKept ==
  /\ Len(fights) <= Len(fights')
  /\ \A f \in 1 .. Len(fights) : fights'[f].order = fights[f].order

\* What one caller's step has to establish: its own new locals are right and
\* the fights the others refer to are still there.
LEMMA CallerStep ==
  ASSUME TInv, NEW p \in Callers, NEW r, Become(p, r), SharedOK', OrdersKept, CallerOK(r, fights')
  PROVE  TInv'
<1>1. loc' = [loc EXCEPT ![p] = r] /\ r \in LocSet
  BY DEF Become, CallerOK
<1>2. loc' \in [Callers -> LocSet]
  BY <1>1 DEF TInv
<1>3. ASSUME NEW q \in Callers  PROVE CallerOK(loc'[q], fights')
  <2>1. CASE q = p
    BY <1>1, <2>1 DEF TInv
  <2>2. CASE q # p
    <3>1. loc'[q] = loc[q] /\ CallerOK(loc[q], fights) /\ loc[q] \in LocSet
      BY <1>1, <2>2 DEF TInv
    <3>2. fights \in Seq(FightSet) /\ Len(fights) \in Nat /\ Len(fights') \in Nat
      BY DEF TInv, SharedOK
    <3>3. loc[q].fight \in Nat /\ loc[q].turn.fight \in Nat /\ loc[q].map \in Nat
      BY <3>1, BoundsAssumption DEF LocSet, TurnSet
    <3>4. loc[q].fight <= Len(fights) /\ loc[q].turn.fight <= Len(fights) /\ loc[q].map <= Len(fights)
      BY <3>1 DEF CallerOK
    <3>5. loc[q].fight <= Len(fights') /\ loc[q].turn.fight <= Len(fights') /\ loc[q].map <= Len(fights')
      BY <3>2, <3>3, <3>4 DEF OrdersKept
    <3>6. loc[q].pc \in Searching => loc[q].fight # 0
      BY <3>1 DEF CallerOK
    <3>7. loc[q].pc \in {"startTurn", "canAct"}
            => loc[q].at \in 0 .. Len(fights'[loc[q].fight].order) - 1
      <4>1. SUFFICES ASSUME loc[q].pc \in {"startTurn", "canAct"}
                     PROVE  loc[q].at \in 0 .. Len(fights'[loc[q].fight].order) - 1
        OBVIOUS
      <4>2. loc[q].fight \in 1 .. Len(fights)
        BY <3>2, <3>3, <3>4, <3>6, <4>1 DEF Searching
      <4>3. fights'[loc[q].fight].order = fights[loc[q].fight].order
        BY <4>2 DEF OrdersKept
      <4>. QED
        BY <3>1, <4>1, <4>3 DEF CallerOK
    <3>. QED
      BY <3>1, <3>5, <3>6, <3>7 DEF CallerOK
  <2>. QED
    BY <2>1, <2>2
<1>. QED
  BY <1>2, <1>3 DEF TInv

\* The locals a caller can have when its call begins or ends a phase.
LEMMA IdleOK == Idle \in LocSet
  BY BoundsAssumption DEF Idle, LocSet, Labels, TurnSet, NoTurn

\* A step that leaves the shared state alone.
LEMMA LocalStep ==
  ASSUME TInv, NEW p \in Callers, NEW r, Become(p, r), CallerOK(r, fights),
         UNCHANGED <<condition, fights, turnOrders, combatMaps, row, announced>>,
         cutShort' \in BOOLEAN
  PROVE  TInv'
<1>1. SharedOK'
  BY DEF TInv, SharedOK
<1>2. OrdersKept
  BY DEF OrdersKept, TInv, SharedOK
<1>3. CallerOK(r, fights')
  OBVIOUS
<1>. QED
  BY <1>1, <1>2, <1>3, CallerStep

\* The fight a searching caller holds, and the caller's own fields.
LEMMA HeldFact ==
  ASSUME TInv, NEW p \in Callers
  PROVE  /\ loc[p] \in LocSet /\ CallerOK(loc[p], fights)
         /\ loc[p].at \in Int /\ loc[p].step \in Nat /\ loc[p].lastAlive \in Int
         /\ loc[p].turn \in TurnSet
         /\ loc[p].pc \in Searching =>
              /\ Fight(p) \in 1 .. Len(fights)
              /\ Index(p) \in Int /\ Round(p) \in Nat
              /\ Len(fights[Fight(p)].order) \in Nat \ {0}
              /\ fights[Fight(p)].order \in Seq(Characters)
<1>1. loc[p] \in LocSet /\ CallerOK(loc[p], fights) /\ fights \in Seq(FightSet)
  BY DEF TInv, SharedOK
<1>2. /\ loc[p].at \in Int /\ loc[p].step \in Nat /\ loc[p].lastAlive \in Int
      /\ loc[p].turn \in TurnSet /\ loc[p].fight \in 0 .. MaxFights
  BY <1>1 DEF LocSet
<1>3. ASSUME loc[p].pc \in Searching  PROVE Fight(p) \in 1 .. Len(fights)
  BY <1>1, <1>2, <1>3, BoundsAssumption DEF CallerOK, Fight
<1>. QED
  BY <1>1, <1>2, <1>3, FightFact DEF Index, Round

\* What the two updates of a searching caller's locals do and keep.
LEMMA WithAtFact ==
  ASSUME NEW p \in Callers, loc[p] \in LocSet, NEW l \in Labels, NEW i \in Int
  PROVE  /\ WithAt(p, l, i) \in LocSet
         /\ WithAt(p, l, i).pc = l /\ WithAt(p, l, i).at = i
         /\ WithAt(p, l, i).fight = loc[p].fight
         /\ WithAt(p, l, i).turn = loc[p].turn /\ WithAt(p, l, i).map = loc[p].map
  BY DEF WithAt, LocSet

LEMMA PassOverFact ==
  ASSUME NEW p \in Callers, loc[p] \in LocSet, NEW a \in Int
  PROVE  /\ PassOver(p, a) \in LocSet
         /\ PassOver(p, a).pc = "fetch"
         /\ PassOver(p, a).fight = loc[p].fight
         /\ PassOver(p, a).turn = loc[p].turn /\ PassOver(p, a).map = loc[p].map
<1>1. loc[p].step + 1 \in Nat /\ -1 \in Int /\ "fetch" \in Labels
  BY DEF LocSet, Labels
<1>. QED
  BY <1>1 DEF PassOver, LocSet

\* An update that stays in the search, or leaves it.
LEMMA WithAtOK ==
  ASSUME TInv, NEW p \in Callers, NEW l \in Labels \ {"startTurn", "canAct"}, NEW i \in Int,
         loc[p].pc \in Searching \/ l \notin Searching
  PROVE  CallerOK(WithAt(p, l, i), fights)
  BY HeldFact, WithAtFact DEF CallerOK

LEMMA PassOverOK ==
  ASSUME TInv, NEW p \in Callers, NEW a \in Int, loc[p].pc \in Searching
  PROVE  CallerOK(PassOver(p, a), fights)
  BY HeldFact, PassOverFact DEF CallerOK

\* Locals of a call that begins a phase or returns.
LEMMA IdleFits ==
  ASSUME TInv
  PROVE  CallerOK(Idle, fights)
<1>1. Len(fights) \in Nat
  BY DEF TInv, SharedOK
<1>. QED
  BY <1>1, IdleOK DEF CallerOK, Idle, NoTurn, Searching

LEMMA LabelOK ==
  ASSUME TInv, NEW l \in Labels \ Searching
  PROVE  CallerOK([Idle EXCEPT !.pc = l], fights)
<1>1. Len(fights) \in Nat
  BY DEF TInv, SharedOK
<1>2. [Idle EXCEPT !.pc = l] \in LocSet
  BY IdleOK DEF LocSet
<1>. QED
  BY <1>1, <1>2 DEF CallerOK, Idle, NoTurn, Searching

LEMMA HoldOK ==
  ASSUME TInv, NEW f \in 1 .. Len(fights), NEW l \in {"fetch", "placeMap"}
  PROVE  CallerOK([Idle EXCEPT !.pc = l, !.fight = f], fights)
<1>1. Len(fights) \in Nat /\ f \in 0 .. MaxFights /\ l \in Labels
  BY BoundsAssumption DEF TInv, SharedOK, Labels
<1>2. [Idle EXCEPT !.pc = l, !.fight = f] \in LocSet
  BY <1>1, IdleOK DEF LocSet, Idle
<1>. QED
  BY <1>1, <1>2 DEF CallerOK, Idle, NoTurn

LEMMA TurnFact ==
  ASSUME TInv, NEW f \in 1 .. Len(fights)
  PROVE  Turn(f) \in TurnSet /\ Turn(f).fight = f
<1>1. f \in 0 .. MaxFights /\ fights[f].currentIndex \in Int /\ fights[f].round \in Nat
  BY FightFact, BoundsAssumption DEF TInv, SharedOK
<1>. QED
  BY <1>1 DEF Turn, TurnSet

LEMMA CarryOK ==
  ASSUME TInv, NEW t \in TurnSet, t.fight <= Len(fights), NEW l \in {"broadcast", "snapMap"}
  PROVE  CallerOK([Idle EXCEPT !.pc = l, !.turn = t], fights)
<1>1. Len(fights) \in Nat /\ l \in Labels
  BY DEF TInv, SharedOK, Labels
<1>2. [Idle EXCEPT !.pc = l, !.turn = t] \in LocSet
  BY <1>1, IdleOK DEF LocSet, Idle
<1>. QED
  BY <1>1, <1>2 DEF CallerOK, Idle, Searching

\* A caller that has loaded a character: its position is in its fight's order.
LEMMA AtPositionOK ==
  ASSUME TInv, NEW p \in Callers, loc[p].pc \in Searching, InOrder(Fight(p), Index(p))
  PROVE  CallerOK(WithAt(p, "startTurn", Index(p)), fights)
<1>1. Index(p) \in Int /\ "startTurn" \in Labels /\ Len(fights[Fight(p)].order) \in Nat
  BY HeldFact DEF Labels
<1>2. Index(p) \in 0 .. Len(fights[loc[p].fight].order) - 1
  BY <1>1 DEF InOrder, Index, Fight
<1>3. CallerOK(loc[p], fights) /\ loc[p] \in LocSet
  BY HeldFact
<1>. DEFINE r == WithAt(p, "startTurn", Index(p))
<1>4. /\ r \in LocSet /\ r.pc = "startTurn" /\ r.at = Index(p)
      /\ r.fight = loc[p].fight /\ r.turn = loc[p].turn /\ r.map = loc[p].map
  BY <1>1, <1>3, WithAtFact
<1>. HIDE DEF r
<1>5. CallerOK(r, fights)
  BY <1>2, <1>3, <1>4 DEF CallerOK
<1>. QED
  BY <1>5 DEF r

LEMMA PositionFact ==
  ASSUME TInv, NEW p \in Callers, loc[p].pc \in {"startTurn", "canAct"}
  PROVE  /\ loc[p].at \in 0 .. Len(fights[Fight(p)].order) - 1
         /\ CharacterAt(Fight(p), loc[p].at) \in Characters
<1>1. fights[Fight(p)].order \in Seq(Characters) /\ CallerOK(loc[p], fights)
  BY HeldFact DEF Searching
<1>2. loc[p].at \in 0 .. Len(fights[Fight(p)].order) - 1
  BY <1>1 DEF CallerOK, Fight
<1>3. loc[p].at + 1 \in 1 .. Len(fights[Fight(p)].order)
  BY <1>1, <1>2
<1>. QED
  BY <1>1, <1>2, <1>3 DEF CharacterAt

LEMMA PositionKeptOK ==
  ASSUME TInv, NEW p \in Callers, loc[p].pc = "startTurn"
  PROVE  CallerOK(WithAt(p, "canAct", loc[p].at), fights)
<1>1. /\ "canAct" \in Labels /\ loc[p].at \in Int
      /\ CallerOK(loc[p], fights) /\ loc[p] \in LocSet
  BY HeldFact DEF Labels
<1>. DEFINE r == WithAt(p, "canAct", loc[p].at)
<1>2. /\ r \in LocSet /\ r.pc = "canAct" /\ r.at = loc[p].at
      /\ r.fight = loc[p].fight /\ r.turn = loc[p].turn /\ r.map = loc[p].map
  BY <1>1, WithAtFact
<1>. HIDE DEF r
<1>3. CallerOK(r, fights)
  BY <1>1, <1>2 DEF CallerOK, Searching
<1>. QED
  BY <1>3 DEF r

\* A step of a searching caller that moves its fight's position.
LEMMA MovingStep ==
  ASSUME TInv, NEW p \in Callers, loc[p].pc \in Searching,
         NEW i \in Int, NEW n \in Nat, fights' = Moved(Fight(p), i, n),
         NEW l \in Labels \ {"startTurn", "canAct"}, Become(p, WithAt(p, l, loc[p].at)),
         UNCHANGED <<condition, turnOrders, combatMaps, row, announced, cutShort>>
  PROVE  TInv'
<1>1. /\ fights \in Seq(FightSet) /\ Fight(p) \in 1 .. Len(fights)
      /\ loc[p] \in LocSet /\ loc[p].at \in Int
  BY HeldFact DEF TInv, SharedOK
<1>. DEFINE f == Fight(p)
<1>. HIDE DEF f
<1>2. f \in 1 .. Len(fights) /\ fights' = Moved(f, i, n)
  BY <1>1 DEF f
<1>3. /\ fights' \in Seq(FightSet) /\ Len(fights') = Len(fights)
      /\ \A g \in 1 .. Len(fights) : fights'[g].order = fights[g].order
  <2>1. /\ Moved(f, i, n) \in Seq(FightSet)
        /\ Len(Moved(f, i, n)) = Len(fights)
        /\ \A g \in 1 .. Len(fights) : Moved(f, i, n)[g].order = fights[g].order
    BY <1>1, <1>2, MoveFact
  <2>. QED
    BY <1>2, <2>1
<1>4. SharedOK' /\ OrdersKept
  BY <1>3 DEF TInv, SharedOK, OrdersKept
<1>5. WithAt(p, l, loc[p].at).pc = l
  BY <1>1, WithAtFact
<1>6. CallerOK(WithAt(p, l, loc[p].at), fights)
  BY <1>1, WithAtOK
<1>7. CallerOK(WithAt(p, l, loc[p].at), fights')
  BY <1>3, <1>5, <1>6 DEF CallerOK
<1>. QED
  BY <1>4, <1>7, CallerStep

LEMMA SearchPreservesTInv ==
  ASSUME TInv, NEW p \in Callers, Search(p)
  PROVE  TInv'
<1>. USE DEF At, Goto, Return
<1>0. /\ loc[p].at \in Int /\ loc[p].lastAlive \in Int /\ cutShort \in BOOLEAN
      /\ loc[p].pc \in Searching => Index(p) \in Int /\ Round(p) \in Nat
  BY HeldFact DEF TInv, SharedOK
<1>1. CASE FetchIndex(p)
  <2>1. loc[p].pc \in Searching /\ cutShort' \in BOOLEAN
    BY <1>1 DEF FetchIndex, Searching, TInv, SharedOK
  <2>2. CASE Become(p, WithAt(p, "store", Index(p) + 1))
    BY <1>0, <1>1, <2>1, <2>2, WithAtOK, LocalStep DEF FetchIndex, Labels
  <2>3. ASSUME NEW l \in {"land", "endTurnOrder"}, Become(p, WithAt(p, l, loc[p].at))
        PROVE  TInv'
    BY <1>0, <1>1, <2>1, <2>3, WithAtOK, LocalStep DEF FetchIndex, Labels
  <2>. QED
    BY <1>1, <2>2, <2>3 DEF FetchIndex
<1>2. CASE StoreIndex(p)
  <2>1. loc[p].pc \in Searching
    BY <1>2 DEF StoreIndex, Searching
  <2>. QED
    BY <1>0, <1>2, <2>1, MovingStep DEF StoreIndex, Labels
<1>3. CASE CheckWrap(p)
  <2>1. loc[p].pc \in Searching
    BY <1>3 DEF CheckWrap, Searching
  <2>2. ASSUME NEW l \in {"reset", "load"}, Become(p, WithAt(p, l, loc[p].at))
        PROVE  TInv'
    BY <1>0, <1>3, <2>1, <2>2, WithAtOK, LocalStep DEF CheckWrap, Labels
  <2>. QED
    BY <1>3, <2>2 DEF CheckWrap
<1>4. CASE ResetIndex(p)
  <2>1. loc[p].pc \in Searching
    BY <1>4 DEF ResetIndex, Searching
  <2>2. 0 \in Int /\ Round(p) + 1 \in Nat
    BY <1>0, <2>1
  <2>. QED
    BY <1>4, <2>1, <2>2, MovingStep DEF ResetIndex, Labels
<1>5. CASE LoadCharacter(p)
  <2>1. loc[p].pc \in Searching /\ Index(p) \in Int
    BY <1>0, <1>5 DEF LoadCharacter, Searching
  <2>2. CASE Become(p, WithAt(p, "panicked", loc[p].at)) /\ cutShort' = cutShort
    BY <1>0, <1>5, <2>1, <2>2, WithAtOK, LocalStep DEF LoadCharacter, Labels
  <2>3. CASE Become(p, Idle) /\ cutShort' = TRUE
    BY <1>5, <2>3, IdleFits, LocalStep DEF LoadCharacter
  <2>4. CASE Become(p, PassOver(p, loc[p].lastAlive)) /\ cutShort' = cutShort
    BY <1>0, <1>5, <2>1, <2>4, PassOverOK, LocalStep DEF LoadCharacter
  <2>5. CASE InOrder(Fight(p), Index(p)) /\ Become(p, WithAt(p, "startTurn", Index(p)))
             /\ cutShort' = cutShort
    BY <1>0, <1>5, <2>1, <2>5, AtPositionOK, LocalStep DEF LoadCharacter
  <2>. QED
    BY <1>5, <2>2, <2>3, <2>4, <2>5 DEF LoadCharacter
<1>6. CASE StartTurnFor(p)
  <2>1. CharacterAt(Fight(p), loc[p].at) \in Characters
    BY <1>6, PositionFact DEF StartTurnFor
  <2>2. condition' \in [Characters -> Conditions]
    BY <1>6, <2>1 DEF StartTurnFor, AfterStartTurn, Conditions, TInv, SharedOK
  <2>3. SharedOK' /\ OrdersKept /\ fights' = fights
    BY <1>6, <2>2 DEF StartTurnFor, TInv, SharedOK, OrdersKept
  <2>4. CallerOK(WithAt(p, "canAct", loc[p].at), fights')
    BY <1>6, <2>3, PositionKeptOK DEF StartTurnFor
  <2>. QED
    BY <1>6, <2>3, <2>4, CallerStep DEF StartTurnFor
<1>7. CASE CheckCanAct(p)
  <2>1. loc[p].pc \in Searching /\ Index(p) \in Int /\ cutShort' \in BOOLEAN
    BY <1>0, <1>7 DEF CheckCanAct, Searching
  <2>2. CASE Become(p, PassOver(p, Index(p)))
    BY <1>7, <2>1, <2>2, PassOverOK, LocalStep DEF CheckCanAct
  <2>3. CASE Become(p, WithAt(p, "payload", -1))
    BY <1>7, <2>1, <2>3, WithAtOK, LocalStep DEF CheckCanAct, Labels
  <2>. QED
    BY <1>7, <2>2, <2>3 DEF CheckCanAct
<1>8. CASE Land(p)
  <2>1. loc[p].pc \in Searching
    BY <1>8 DEF Land, Searching
  <2>. QED
    BY <1>0, <1>8, <2>1, MovingStep DEF Land, Labels
<1>9. CASE MakePayload(p)
  <2>1. loc[p].pc \in Searching /\ cutShort' \in BOOLEAN
    BY <1>0, <1>9 DEF MakePayload, Searching
  <2>2. CASE Become(p, WithAt(p, "panicked", loc[p].at))
    BY <1>0, <1>9, <2>1, <2>2, WithAtOK, LocalStep DEF MakePayload, Labels
  <2>3. CASE Become(p, [Idle EXCEPT !.pc = "broadcast", !.turn = Turn(Fight(p))])
    <3>1. Fight(p) \in 1 .. Len(fights)
      BY <2>1, HeldFact
    <3>. QED
      <4>1. /\ Turn(Fight(p)) \in TurnSet /\ Turn(Fight(p)).fight <= Len(fights)
            /\ "broadcast" \in {"broadcast", "snapMap"}
        BY <3>1, TurnFact DEF TInv, SharedOK
      <4>2. CallerOK([Idle EXCEPT !.pc = "broadcast", !.turn = Turn(Fight(p))], fights)
        BY <4>1, CarryOK
      <4>. QED
        BY <1>9, <2>1, <2>3, <4>2, LocalStep DEF MakePayload
  <2>. QED
    BY <1>9, <2>2, <2>3 DEF MakePayload
<1>10. CASE BroadcastTurnState(p)
  <2>1. loc[p].turn \in TurnSet
    BY HeldFact
  <2>2. fights' = fights /\ announced' = loc[p].turn /\ cutShort' = FALSE
    BY <1>10 DEF BroadcastTurnState
  <2>3. SharedOK' /\ OrdersKept
    <3>1. UNCHANGED <<condition, fights, turnOrders, combatMaps, row>>
      BY <1>10 DEF BroadcastTurnState
    <3>2. cutShort' \in BOOLEAN
      BY <2>2, Zenon
    <3>. QED
      BY <2>1, <2>2, <3>1, <3>2 DEF TInv, SharedOK, OrdersKept
  <2>4. CallerOK([Idle EXCEPT !.pc = "snapTurn"], fights')
    BY <2>2, LabelOK DEF Labels, Searching
  <2>. QED
    BY <1>10, <2>3, <2>4, CallerStep DEF BroadcastTurnState
<1>. QED
  BY <1>1, <1>2, <1>3, <1>4, <1>5, <1>6, <1>7, <1>8, <1>9, <1>10 DEF Search

LEMMA FinishPreservesTInv ==
  ASSUME TInv, NEW p \in Callers, Finish(p)
  PROVE  TInv'
<1>. USE DEF At, Goto, Return
<1>0. /\ loc[p] \in LocSet /\ loc[p].at \in Int /\ loc[p].turn \in TurnSet
      /\ loc[p].turn.fight <= Len(fights) /\ loc[p].map <= Len(fights)
      /\ cutShort \in BOOLEAN /\ Len(fights) \in Nat /\ Len(fights) <= MaxFights
  BY HeldFact DEF TInv, SharedOK, CallerOK
<1>1. CASE PlaceMap(p)
  <2>1. Fight(p) \in 1 .. Len(fights)
    BY <1>1, HeldFact DEF PlaceMap, Searching
  <2>2. UNCHANGED <<condition, fights, turnOrders, row, announced, cutShort>>
        /\ combatMaps' \in {Fight(p), combatMaps}
    BY <1>1 DEF PlaceMap
  <2>3. SharedOK' /\ OrdersKept
    BY <1>0, <2>1, <2>2 DEF TInv, SharedOK, OrdersKept
  <2>4. CallerOK([Idle EXCEPT !.pc = "snapTurn"], fights') /\ CallerOK(Idle, fights')
    BY <2>2, IdleFits, LabelOK DEF Labels, Searching
  <2>. QED
    BY <1>1, <2>3, <2>4, CallerStep DEF PlaceMap
<1>2. CASE SnapshotTurn(p)
  <2>1. UNCHANGED <<condition, fights, turnOrders, combatMaps, row, announced, cutShort>>
    BY <1>2 DEF SnapshotTurn
  <2>2. CASE Become(p, Idle)
    BY <1>0, <2>1, <2>2, IdleFits, LocalStep
  <2>3. ASSUME NEW t \in TurnSet, t.fight <= Len(fights),
               Become(p, [Idle EXCEPT !.pc = "snapMap", !.turn = t])
        PROVE  TInv'
    BY <1>0, <2>1, <2>3, CarryOK, LocalStep
  <2>4. NoTurn \in TurnSet /\ NoTurn.fight <= Len(fights)
    BY <1>0, BoundsAssumption DEF NoTurn, TurnSet
  <2>5. turnOrders # 0 => Turn(turnOrders) \in TurnSet /\ Turn(turnOrders).fight <= Len(fights)
    BY <1>0, TurnFact DEF TInv, SharedOK
  <2>. QED
    BY <1>2, <2>2, <2>3, <2>4, <2>5 DEF SnapshotTurn
<1>3. CASE SnapshotMap(p)
  <2>1. UNCHANGED <<condition, fights, turnOrders, combatMaps, row, announced, cutShort>>
    BY <1>3 DEF SnapshotMap
  <2>2. CASE Become(p, Idle)
    BY <1>0, <2>1, <2>2, IdleFits, LocalStep
  <2>3. CASE Become(p, [loc[p] EXCEPT !.pc = "save", !.map = combatMaps])
    <3>1. combatMaps \in 0 .. MaxFights /\ combatMaps <= Len(fights) /\ "save" \in Labels
      <4>1. combatMaps \in 0 .. Len(fights)
        BY DEF TInv, SharedOK
      <4>. QED
        BY <1>0, <4>1, BoundsAssumption DEF Labels
    <3>2. [loc[p] EXCEPT !.pc = "save", !.map = combatMaps] \in LocSet
      BY <1>0, <3>1 DEF LocSet
    <3>3. CallerOK([loc[p] EXCEPT !.pc = "save", !.map = combatMaps], fights)
      BY <1>0, <3>1, <3>2, HeldFact DEF CallerOK, Searching, LocSet
    <3>. QED
      BY <1>0, <2>1, <2>3, <3>3, LocalStep
  <2>. QED
    BY <1>3, <2>2, <2>3 DEF SnapshotMap
<1>4. CASE SaveCombatState(p)
  <2>1. UNCHANGED <<condition, fights, turnOrders, combatMaps, announced>>
        /\ Become(p, Idle)
    BY <1>4 DEF SaveCombatState
  <2>2. row' = row \/ row' = [turn |-> loc[p].turn, map |-> loc[p].map]
    BY <1>4 DEF SaveCombatState
  <2>3. cutShort' \in BOOLEAN
    BY <1>0, <1>4, Zenon DEF SaveCombatState
  <2>4. loc[p].map \in 0 .. MaxFights
    BY <1>0 DEF LocSet
  <2>5. /\ row' \in [turn : TurnSet, map : 0 .. MaxFights]
        /\ row'.turn.fight <= Len(fights) /\ row'.map <= Len(fights)
    BY <1>0, <2>2, <2>4 DEF TInv, SharedOK
  <2>6. SharedOK' /\ OrdersKept
    BY <2>1, <2>3, <2>5 DEF TInv, SharedOK, OrdersKept
  <2>. QED
    BY <2>1, <2>6, IdleFits, CallerStep
<1>5. CASE EndTurnOrder(p)
  <2>1. turnOrders' = 0 /\ UNCHANGED <<condition, fights, combatMaps, row, announced, cutShort>>
        /\ Become(p, [Idle EXCEPT !.pc = "endMap"])
    BY <1>5 DEF EndTurnOrder
  <2>2. SharedOK' /\ OrdersKept
    BY <1>0, <2>1 DEF TInv, SharedOK, OrdersKept
  <2>3. CallerOK([Idle EXCEPT !.pc = "endMap"], fights')
    BY <2>1, LabelOK DEF Labels, Searching
  <2>. QED
    BY <2>1, <2>2, <2>3, CallerStep
<1>6. CASE EndMap(p)
  <2>1. combatMaps' = 0 /\ UNCHANGED <<condition, fights, turnOrders, row, announced, cutShort>>
    BY <1>6 DEF EndMap
  <2>2. SharedOK' /\ OrdersKept
    BY <1>0, <2>1 DEF TInv, SharedOK, OrdersKept
  <2>3. ASSUME NEW l \in {"endRow", "endBroadcast"}, Become(p, WithAt(p, l, loc[p].at))
        PROVE  TInv'
    <3>1. CallerOK(WithAt(p, l, loc[p].at), fights')
      BY <1>0, <2>1, WithAtOK DEF Labels, Searching
    <3>. QED
      BY <2>2, <2>3, <3>1, CallerStep
  <2>. QED
    BY <1>6, <2>3 DEF EndMap
<1>7. CASE DeleteCombatState(p)
  <2>1. UNCHANGED <<condition, fights, turnOrders, combatMaps, announced>>
        /\ Become(p, WithAt(p, "endBroadcast", loc[p].at))
    BY <1>7 DEF DeleteCombatState
  <2>2. row' \in {row, NoRow}
    BY <1>7 DEF DeleteCombatState
  <2>3. cutShort' \in BOOLEAN
    BY <1>0, <1>7, Zenon DEF DeleteCombatState
  <2>4. /\ row' \in [turn : TurnSet, map : 0 .. MaxFights]
        /\ row'.turn.fight <= Len(fights) /\ row'.map <= Len(fights)
    BY <1>0, <2>2, BoundsAssumption DEF TInv, SharedOK, NoRow, NoTurn, TurnSet
  <2>5. SharedOK' /\ OrdersKept
    BY <2>1, <2>3, <2>4 DEF TInv, SharedOK, OrdersKept
  <2>6. CallerOK(WithAt(p, "endBroadcast", loc[p].at), fights')
    BY <1>0, <2>1, WithAtOK DEF Labels, Searching
  <2>. QED
    BY <2>1, <2>5, <2>6, CallerStep
<1>8. CASE BroadcastEnd(p)
  <2>1. announced' = NoTurn /\ Become(p, Idle)
        /\ UNCHANGED <<condition, fights, turnOrders, combatMaps, row, cutShort>>
    BY <1>8 DEF BroadcastEnd
  <2>2. NoTurn \in TurnSet
    BY BoundsAssumption DEF NoTurn, TurnSet
  <2>3. SharedOK' /\ OrdersKept
    BY <2>1, <2>2 DEF TInv, SharedOK, OrdersKept
  <2>. QED
    BY <2>1, <2>3, IdleFits, CallerStep
<1>9. CASE Recover(p)
  <2>1. cutShort' \in BOOLEAN
    BY <1>9, Zenon DEF Recover
  <2>. QED
    BY <1>9, <2>1, IdleFits, LocalStep DEF Recover
<1>. QED
  BY <1>1, <1>2, <1>3, <1>4, <1>5, <1>6, <1>7, <1>8, <1>9 DEF Finish

LEMMA CallPreservesTInv ==
  ASSUME TInv, NEW p \in Callers, Call(p)
  PROVE  TInv'
<1>. USE DEF At, Goto, Calls
<1>0. cutShort \in BOOLEAN /\ loc[p].at \in Int
  BY HeldFact DEF TInv, SharedOK
<1>1. CASE StartCombat(p)
  <2>1. PICK order \in Orders({c \in Characters : condition[c] # "dead"}) :
          fights' = Append(fights, [order |-> order, currentIndex |-> -1, round |-> 1])
    BY <1>1 DEF StartCombat
  <2>. DEFINE fight == [order |-> order, currentIndex |-> -1, round |-> 1]
  <2>2. fight \in FightSet
    BY <2>1, OrdersFact DEF FightSet
  <2>3. fights \in Seq(FightSet) /\ Len(fights) \in Nat
    BY DEF TInv, SharedOK
  <2>. HIDE DEF fight
  <2>4. /\ fights' \in Seq(FightSet) /\ Len(fights') = Len(fights) + 1
        /\ \A f \in 1 .. Len(fights) : fights'[f] = fights[f]
    BY <2>1, <2>2, <2>3, AppendProperties DEF fight
  <2>5. /\ Len(fights) < MaxFights /\ turnOrders' = Len(fights) + 1
        /\ UNCHANGED <<condition, combatMaps, row, announced, cutShort>>
        /\ Become(p, [Idle EXCEPT !.pc = "fetch", !.fight = Len(fights) + 1])
    BY <1>1 DEF StartCombat
  <2>6. SharedOK' /\ OrdersKept
    <3>1. /\ Len(fights') <= MaxFights /\ Len(fights) <= Len(fights')
          /\ turnOrders' \in 0 .. Len(fights') /\ combatMaps' \in 0 .. Len(fights')
      BY <2>3, <2>4, <2>5, BoundsAssumption DEF TInv, SharedOK
    <3>2. /\ condition' \in [Characters -> Conditions]
          /\ row' \in [turn : TurnSet, map : 0 .. MaxFights] /\ announced' \in TurnSet
      BY <2>5 DEF TInv, SharedOK
    <3>3. row'.turn.fight <= Len(fights') /\ row'.map <= Len(fights')
      <4>1. row.turn.fight <= Len(fights) /\ row.map <= Len(fights) /\ row' = row
        BY <2>5 DEF TInv, SharedOK
      <4>2. row.turn.fight \in Nat /\ row.map \in Nat
        BY BoundsAssumption DEF TInv, SharedOK, TurnSet
      <4>. QED
        BY <2>3, <2>4, <4>1, <4>2
    <3>4. cutShort' \in BOOLEAN
      BY <1>0, <2>5
    <3>. QED
      BY <2>4, <3>1, <3>2, <3>3, <3>4 DEF SharedOK, OrdersKept
  <2>7. /\ Len(fights) + 1 \in 0 .. MaxFights /\ "fetch" \in Labels
        /\ Len(fights') \in Nat
    BY <2>3, <2>4, <2>5, BoundsAssumption DEF Labels
  <2>8. [Idle EXCEPT !.pc = "fetch", !.fight = Len(fights) + 1] \in LocSet
    BY <2>7, IdleOK DEF LocSet, Idle
  <2>9. CallerOK([Idle EXCEPT !.pc = "fetch", !.fight = Len(fights) + 1], fights')
    BY <2>3, <2>4, <2>7, <2>8 DEF CallerOK, Idle, NoTurn
  <2>. QED
    BY <2>5, <2>6, <2>9, CallerStep
<1>2. CASE AdvanceTurn(p) \/ GenerateCombatMap(p)
  <2>1. turnOrders \in 1 .. Len(fights)
    BY <1>2 DEF AdvanceTurn, GenerateCombatMap, TInv, SharedOK
  <2>2. ASSUME NEW l \in {"fetch", "placeMap"},
               Become(p, [Idle EXCEPT !.pc = l, !.fight = turnOrders])
        PROVE  TInv'
    BY <1>0, <1>2, <2>1, <2>2, HoldOK, LocalStep DEF AdvanceTurn, GenerateCombatMap
  <2>. QED
    BY <1>2, <2>2 DEF AdvanceTurn, GenerateCombatMap
<1>3. CASE EndCombat(p) \/ MoveToken(p)
  <2>1. ASSUME NEW l \in {"endTurnOrder", "snapTurn"}, Become(p, WithAt(p, l, loc[p].at))
        PROVE  TInv'
    BY <1>0, <1>3, <2>1, WithAtOK, LocalStep DEF EndCombat, MoveToken, Labels, Searching
  <2>. QED
    BY <1>3, <2>1 DEF EndCombat, MoveToken
<1>. QED
  BY <1>1, <1>2, <1>3 DEF Call

LEMMA ApplyEffectPreservesTInv == TInv /\ ApplyEffect => TInv'
<1>. SUFFICES ASSUME TInv, ApplyEffect  PROVE TInv'
  OBVIOUS
<1>1. condition' \in [Characters -> Conditions]
  BY DEF ApplyEffect, TInv, SharedOK
<1>. QED
  BY <1>1 DEF ApplyEffect, TInv, SharedOK

\* The row, and an empty row, name a fight that exists.
LEMMA LoadedFact ==
  ASSUME TInv, NEW loaded \in {row, NoRow}
  PROVE  /\ loaded.turn \in TurnSet /\ loaded.turn.fight \in 0 .. Len(fights)
         /\ loaded.turn.index \in Int /\ loaded.turn.round \in Nat
         /\ loaded.map \in 0 .. Len(fights)
<1>1. CASE loaded = row
  BY <1>1, BoundsAssumption DEF TInv, SharedOK, TurnSet
<1>2. CASE loaded = NoRow
  <2>1. Len(fights) \in Nat
    BY DEF TInv, SharedOK
  <2>. QED
    BY <1>2, <2>1, BoundsAssumption DEF NoRow, NoTurn, TurnSet
<1>. QED
  BY <1>1, <1>2

LEMMA RestartPreservesTInv == TInv /\ Restart => TInv'
<1>. SUFFICES ASSUME TInv, Restart  PROVE TInv'
  OBVIOUS
<1>1. PICK loaded \in {row, NoRow} : WarmUpCombatState(loaded)
  BY DEF Restart
<1>2. /\ loaded.turn.fight \in 0 .. Len(fights) /\ loaded.map \in 0 .. Len(fights)
      /\ loaded.turn.index \in Int /\ loaded.turn.round \in Nat
      /\ fights \in Seq(FightSet) /\ Len(fights) \in Nat
  BY LoadedFact DEF TInv, SharedOK
<1>3. fights' \in Seq(FightSet) /\ Len(fights') = Len(fights)
  <2>1. CASE loaded.turn.fight = 0
    BY <1>1, <1>2, <2>1 DEF WarmUpCombatState
  <2>2. CASE loaded.turn.fight # 0
    <3>1. loaded.turn.fight \in 1 .. Len(fights)
      BY <1>2, <2>2
    <3>2. /\ Moved(loaded.turn.fight, loaded.turn.index, loaded.turn.round) \in Seq(FightSet)
          /\ Len(Moved(loaded.turn.fight, loaded.turn.index, loaded.turn.round)) = Len(fights)
      BY <1>2, <3>1, MoveFact
    <3>. QED
      BY <1>1, <2>2, <3>2 DEF WarmUpCombatState
  <2>. QED
    BY <2>1, <2>2
<1>4. cutShort' \in BOOLEAN
  BY Zenon DEF Restart, TInv, SharedOK
<1>5. turnOrders' \in 0 .. Len(fights) /\ combatMaps' \in 0 .. Len(fights)
      /\ UNCHANGED <<condition, row, announced>>
  BY <1>1, <1>2 DEF WarmUpCombatState, Restart
<1>6. SharedOK'
  BY <1>3, <1>4, <1>5 DEF TInv, SharedOK
<1>7. loc' = [p \in Callers |-> Idle] /\ CallerOK(Idle, fights')
  BY <1>2, <1>3, IdleOK DEF Restart, CallerOK, Idle, NoTurn, Searching
<1>. QED
  BY <1>6, <1>7, IdleOK DEF TInv

LEMMA InitTInv == Init => TInv
<1>. SUFFICES ASSUME Init  PROVE TInv
  OBVIOUS
<1>1. fights = <<>> /\ Len(fights) = 0 /\ fights \in Seq(FightSet)
  BY DEF Init
<1>2. NoTurn \in TurnSet /\ NoRow \in [turn : TurnSet, map : 0 .. MaxFights]
  BY BoundsAssumption DEF NoTurn, NoRow, TurnSet
<1>3. cutShort \in BOOLEAN
  BY Zenon DEF Init
<1>4. condition \in [Characters -> Conditions] /\ turnOrders = 0 /\ combatMaps = 0
      /\ row = NoRow /\ announced = NoTurn
  BY DEF Init
<1>5. NoRow.turn.fight = 0 /\ NoRow.map = 0
  BY DEF NoRow, NoTurn
<1>6. SharedOK
  BY <1>1, <1>2, <1>3, <1>4, <1>5, BoundsAssumption DEF SharedOK
<1>. QED
  BY <1>1, <1>6, IdleOK DEF Init, TInv, CallerOK, Idle, NoTurn, Searching

LEMMA NextPreservesTInv == TInv /\ [Next]_vars => TInv'
<1>. SUFFICES ASSUME TInv, [Next]_vars  PROVE TInv'
  OBVIOUS
<1>1. CASE Next
  BY <1>1, CallPreservesTInv, SearchPreservesTInv, FinishPreservesTInv,
     ApplyEffectPreservesTInv, RestartPreservesTInv DEF Next, Continue
<1>2. CASE UNCHANGED vars
  BY <1>2 DEF vars, TInv, SharedOK
<1>. QED
  BY <1>1, <1>2

\* Every reachable state is well formed, and every reference to a fight is valid.
THEOREM TInvHolds == Spec => []TInv
  BY InitTInv, NextPreservesTInv, PTL DEF Spec

\* Whatever the callers, the characters, the failures and the bounds, every
\* reference to a fight that a caller, the campaign's entry, the map or the
\* row holds is to a fight that was started (turn_order.go:211-268).
THEOREM TypeCorrect == Spec => []TypeOK
  BY TInvHolds, TInvImpliesTypeOK, PTL

\* A fight that was ended or replaced never becomes the campaign's again while
\* the process lives, whatever the other callers do in between
\* (turn_order.go:382-387, 402-407, 418-420).  Every caller that is in the
\* middle of a search or of a save may be there when the fight ends.
THEOREM EndedStayEnded == Spec => EndedFightsStayEnded
<1>. DEFINE Stay == turnOrders' \in 1 .. Len(fights) => turnOrders' = turnOrders \/ Restart
<1>1. TInv /\ [Next]_vars => [Stay]_vars
  <2>. SUFFICES ASSUME TInv, Next, turnOrders' \in 1 .. Len(fights), ~Restart
                PROVE  turnOrders' = turnOrders
    BY DEF vars
  <2>1. Len(fights) \in Nat
    BY DEF TInv, SharedOK
  <2>2. ASSUME NEW p \in Callers, Call(p)  PROVE turnOrders' = turnOrders
    BY <2>1, <2>2 DEF Call, StartCombat, AdvanceTurn, EndCombat, GenerateCombatMap, MoveToken
  <2>3. ASSUME NEW p \in Callers, Search(p)  PROVE turnOrders' = turnOrders
    BY <2>3 DEF Search, FetchIndex, StoreIndex, CheckWrap, ResetIndex, LoadCharacter,
                StartTurnFor, CheckCanAct, Land, MakePayload, BroadcastTurnState
  <2>4. ASSUME NEW p \in Callers, Finish(p)  PROVE turnOrders' = turnOrders
    BY <2>4 DEF Finish, PlaceMap, SnapshotTurn, SnapshotMap, SaveCombatState, EndTurnOrder,
                EndMap, DeleteCombatState, BroadcastEnd, Recover
  <2>5. CASE ApplyEffect
    BY <2>5 DEF ApplyEffect
  <2>. QED
    BY <2>2, <2>3, <2>4, <2>5 DEF Next, Continue
<1>. QED
  BY <1>1, TInvHolds, PTL DEF Spec, EndedFightsStayEnded

\* No step takes a fight from the heap or changes an order.
LEMMA NextKeepsOrders ==
  ASSUME TInv, Next
  PROVE  OrdersKept /\ Len(fights') \in Nat
<1>0. fights \in Seq(FightSet) /\ Len(fights) \in Nat
  BY DEF TInv, SharedOK
<1>1. CASE fights' = fights
  BY <1>0, <1>1 DEF OrdersKept
<1>2. ASSUME NEW f \in 1 .. Len(fights), NEW i \in Int, NEW k \in Nat, fights' = Moved(f, i, k)
      PROVE  OrdersKept /\ Len(fights') \in Nat
  <2>1. /\ Len(Moved(f, i, k)) = Len(fights)
        /\ \A g \in 1 .. Len(fights) : Moved(f, i, k)[g].order = fights[g].order
    BY <1>0, MoveFact
  <2>. QED
    BY <1>0, <1>2, <2>1 DEF OrdersKept
<1>3. ASSUME NEW p \in Callers, Call(p)  PROVE OrdersKept /\ Len(fights') \in Nat
  <2>1. CASE StartCombat(p)
    <3>1. PICK order \in Orders({c \in Characters : condition[c] # "dead"}) :
            fights' = Append(fights, [order |-> order, currentIndex |-> -1, round |-> 1])
      BY <2>1 DEF StartCombat
    <3>2. [order |-> order, currentIndex |-> -1, round |-> 1] \in FightSet
      BY <3>1, OrdersFact DEF FightSet
    <3>3. /\ Len(fights') = Len(fights) + 1
          /\ \A f \in 1 .. Len(fights) : fights'[f] = fights[f]
      BY <1>0, <3>1, <3>2, AppendProperties
    <3>. QED
      BY <1>0, <3>3 DEF OrdersKept
  <2>. QED
    BY <1>1, <1>3, <2>1 DEF Call, AdvanceTurn, EndCombat, GenerateCombatMap, MoveToken
<1>4. ASSUME NEW p \in Callers, Search(p)  PROVE OrdersKept /\ Len(fights') \in Nat
  <2>1. CASE StoreIndex(p) \/ ResetIndex(p) \/ Land(p)
    <3>1. loc[p].pc \in Searching
      BY <2>1 DEF StoreIndex, ResetIndex, Land, At, Searching
    <3>2. /\ Fight(p) \in 1 .. Len(fights) /\ Round(p) \in Nat /\ Round(p) + 1 \in Nat
          /\ loc[p].at \in Int /\ loc[p].lastAlive \in Int /\ 0 \in Int
      BY <3>1, HeldFact
    <3>3. \/ fights' = Moved(Fight(p), loc[p].at, Round(p))
          \/ fights' = Moved(Fight(p), 0, Round(p) + 1)
          \/ fights' = Moved(Fight(p), loc[p].lastAlive, Round(p))
      BY <2>1 DEF StoreIndex, ResetIndex, Land
    <3>. QED
      BY <1>2, <3>2, <3>3
  <2>. QED
    BY <1>1, <1>4, <2>1 DEF Search, FetchIndex, CheckWrap, LoadCharacter, StartTurnFor,
                            CheckCanAct, MakePayload, BroadcastTurnState
<1>5. ASSUME NEW p \in Callers, Finish(p)  PROVE OrdersKept /\ Len(fights') \in Nat
  BY <1>1, <1>5 DEF Finish, PlaceMap, SnapshotTurn, SnapshotMap, SaveCombatState, EndTurnOrder,
                    EndMap, DeleteCombatState, BroadcastEnd, Recover
<1>6. CASE Restart
  <2>1. PICK loaded \in {row, NoRow} : WarmUpCombatState(loaded)
    BY <1>6 DEF Restart
  <2>2. /\ loaded.turn.fight \in 0 .. Len(fights)
        /\ loaded.turn.index \in Int /\ loaded.turn.round \in Nat
    BY LoadedFact
  <2>3. CASE loaded.turn.fight # 0
    <3>1. loaded.turn.fight \in 1 .. Len(fights)
      BY <1>0, <2>2, <2>3
    <3>2. fights' = Moved(loaded.turn.fight, loaded.turn.index, loaded.turn.round)
      BY <2>1, <2>3 DEF WarmUpCombatState
    <3>. QED
      BY <1>2, <2>2, <3>1, <3>2
  <2>. QED
    BY <1>1, <2>1, <2>3 DEF WarmUpCombatState
<1>7. CASE ApplyEffect
  BY <1>1, <1>7 DEF ApplyEffect
<1>. QED
  BY <1>3, <1>4, <1>5, <1>6, <1>7 DEF Next, Continue

--------------------------------------------------------------------------------
(* A call is short: a lap is at most seven steps, there is a lap for each   *)
(* position of the order, and StepsLeft counts down whatever the other      *)
(* callers do to the struct in the meantime.                                *)

Lap == {"fetch", "store", "wrap", "reset", "load", "startTurn", "canAct"}

\* The steps from a label to the end of the lap, or of the call.
ToGo == [idle |-> 0, save |-> 1, snapMap |-> 2, snapTurn |-> 3, placeMap |-> 4, broadcast |-> 4,
         payload |-> 5, land |-> 6, panicked |-> 1,
         endBroadcast |-> 1, endRow |-> 2, endMap |-> 3, endTurnOrder |-> 4,
         fetch |-> 7, store |-> 6, wrap |-> 5, reset |-> 4, load |-> 3, startTurn |-> 2, canAct |-> 1]

\* What a call can still do, from its locals r and the heap h of fights.
LapsLeft(r, h) == Len(h[r.fight].order) - r.step
Remaining(r, h) == ToGo[r.pc] + (IF r.pc \in Lap THEN 7 * LapsLeft(r, h) ELSE 0)
StepsLeft(p) == Remaining(loc[p], fights)

LongestCall == 7 * (MaxOrder + 1)

\* A lap that has begun is one of as many as the order has positions.
LapOK(r, h) == r.pc \in Lap => LapsLeft(r, h) >= IF r.pc = "fetch" THEN 0 ELSE 1

ShortInv == TInv /\ \A p \in Callers : LapOK(loc[p], fights)

\* A step of the call itself leaves it less to do; a step of another leaves it
\* alone.
CallsShorten ==
  [][ \A p \in Callers : ~At(p, "idle") =>
        \/ StepsLeft(p)' < StepsLeft(p)
        \/ loc'[p] = loc[p] /\ StepsLeft(p)' = StepsLeft(p) ]_vars
CallsAreBounded == \A p \in Callers : StepsLeft(p) \in 0 .. LongestCall /\ (StepsLeft(p) = 0 <=> At(p, "idle"))

\* The table of steps, entry by entry, and its range.
LEMMA ToGoIs ==
  /\ ToGo["idle"] = 0 /\ ToGo["save"] = 1 /\ ToGo["snapMap"] = 2 /\ ToGo["snapTurn"] = 3
  /\ ToGo["placeMap"] = 4 /\ ToGo["broadcast"] = 4 /\ ToGo["payload"] = 5 /\ ToGo["land"] = 6
  /\ ToGo["panicked"] = 1
  /\ ToGo["endBroadcast"] = 1 /\ ToGo["endRow"] = 2 /\ ToGo["endMap"] = 3 /\ ToGo["endTurnOrder"] = 4
  /\ ToGo["fetch"] = 7 /\ ToGo["store"] = 6 /\ ToGo["wrap"] = 5 /\ ToGo["reset"] = 4 /\ ToGo["load"] = 3
  /\ ToGo["startTurn"] = 2 /\ ToGo["canAct"] = 1
BY DEF ToGo

LEMMA ToGoBounds ==
  ASSUME NEW l \in Labels
  PROVE  /\ ToGo[l] \in 0 .. 7 /\ (ToGo[l] = 0 <=> l = "idle")
         /\ l \notin Lap => ToGo[l] <= 6
BY ToGoIs DEF Labels, Lap

\* The length of an order is bounded, and what is left is a number.
LEMMA OrderLength ==
  ASSUME fights \in Seq(FightSet), NEW f \in 1 .. Len(fights)
  PROVE  Len(fights[f].order) \in 1 .. MaxOrder
<1>1. fights[f].order \in Orders(Characters)
  BY FightFact DEF FightSet
<1>2. PICK n \in 1 .. MaxOrder : fights[f].order \in [1 .. n -> Characters]
  BY <1>1 DEF Orders
<1>3. Len(fights[f].order) = n
  <2>1. n \in Nat
    BY BoundsAssumption
  <2>. QED
    BY <1>2, <2>1
<1>. QED
  BY <1>3

\* What is left of a call, in a lap and outside of one.
LEMMA RemainingIs ==
  ASSUME TInv, NEW p \in Callers, LapOK(loc[p], fights)
  PROVE  /\ loc[p].pc \in Labels
         /\ loc[p].pc \in Lap => /\ LapsLeft(loc[p], fights) \in 0 .. MaxOrder
                                 /\ loc[p].pc # "fetch" => LapsLeft(loc[p], fights) >= 1
                                 /\ StepsLeft(p) = ToGo[loc[p].pc] + 7 * LapsLeft(loc[p], fights)
         /\ loc[p].pc \notin Lap => StepsLeft(p) = ToGo[loc[p].pc]
<1>1. loc[p].pc \in Labels /\ loc[p].step \in Nat /\ fights \in Seq(FightSet)
  BY HeldFact DEF LocSet, TInv, SharedOK
<1>2. ASSUME loc[p].pc \in Lap
      PROVE  /\ LapsLeft(loc[p], fights) \in 0 .. MaxOrder
             /\ loc[p].pc # "fetch" => LapsLeft(loc[p], fights) >= 1
  <2>1. loc[p].fight \in 1 .. Len(fights)
    BY <1>2, HeldFact DEF Lap, Searching, Fight
  <2>2. Len(fights[loc[p].fight].order) \in 1 .. MaxOrder
    BY <1>1, <2>1, OrderLength
  <2>3. LapsLeft(loc[p], fights) = Len(fights[loc[p].fight].order) - loc[p].step
    BY DEF LapsLeft
  <2>4. LapsLeft(loc[p], fights) \in Int /\ LapsLeft(loc[p], fights) <= MaxOrder
    BY <1>1, <2>2, <2>3, BoundsAssumption
  <2>5. LapsLeft(loc[p], fights) >= IF loc[p].pc = "fetch" THEN 0 ELSE 1
    BY <1>2 DEF LapOK
  <2>6. LapsLeft(loc[p], fights) >= 0 /\ (loc[p].pc # "fetch" => LapsLeft(loc[p], fights) >= 1)
    BY <2>4, <2>5
  <2>. QED
    BY <2>4, <2>6, BoundsAssumption
<1>3. loc[p].pc \in Lap => StepsLeft(p) = ToGo[loc[p].pc] + 7 * LapsLeft(loc[p], fights)
  BY DEF StepsLeft, Remaining
<1>4. loc[p].pc \notin Lap => StepsLeft(p) = ToGo[loc[p].pc]
  <2>1. ToGo[loc[p].pc] \in 0 .. 7
    BY <1>1, ToGoBounds
  <2>. QED
    BY <2>1 DEF StepsLeft, Remaining
<1>. QED
  BY <1>1, <1>2, <1>3, <1>4

\* The count is a number within the bound, zero for an idle caller alone.
LEMMA StepsBounded ==
  ASSUME TInv, NEW p \in Callers, LapOK(loc[p], fights)
  PROVE  StepsLeft(p) \in 0 .. LongestCall /\ (StepsLeft(p) = 0 <=> At(p, "idle"))
<1>1. loc[p].pc \in Labels
  BY RemainingIs
<1>2. ToGo[loc[p].pc] \in 0 .. 7 /\ (ToGo[loc[p].pc] = 0 <=> loc[p].pc = "idle")
      /\ (loc[p].pc \notin Lap => ToGo[loc[p].pc] <= 6)
  BY <1>1, ToGoBounds
<1>3. MaxOrder \in Nat \ {0} /\ LongestCall = 7 * MaxOrder + 7
  BY BoundsAssumption DEF LongestCall
<1>4. CASE loc[p].pc \in Lap
  <2>1. LapsLeft(loc[p], fights) \in 0 .. MaxOrder /\ StepsLeft(p) = ToGo[loc[p].pc] + 7 * LapsLeft(loc[p], fights)
    BY <1>4, RemainingIs
  <2>2. loc[p].pc # "idle"
    BY <1>4 DEF Lap
  <2>. QED
    BY <1>2, <1>3, <2>1, <2>2 DEF At
<1>5. CASE loc[p].pc \notin Lap
  BY <1>2, <1>3, <1>5, RemainingIs DEF At
<1>. QED
  BY <1>4, <1>5

\* The ways a step of a call goes on.
LEMMA WithinLap ==
  ASSUME TInv, NEW p \in Callers, LapOK(loc[p], fights), loc[p].pc \in Lap,
         NEW r, r.fight = loc[p].fight, r.step = loc[p].step, r.pc \in Lap \ {"fetch"},
         ToGo[r.pc] < ToGo[loc[p].pc], LapsLeft(loc[p], fights) >= 1
  PROVE  LapOK(r, fights) /\ Remaining(r, fights) < StepsLeft(p)
<1>1. LapsLeft(r, fights) = LapsLeft(loc[p], fights)
  BY DEF LapsLeft
<1>2. LapsLeft(loc[p], fights) \in Int
      /\ StepsLeft(p) = ToGo[loc[p].pc] + 7 * LapsLeft(loc[p], fights)
  BY RemainingIs
<1>3. ToGo[loc[p].pc] \in Int /\ ToGo[r.pc] \in Int
  BY ToGoBounds DEF Lap, Labels
<1>4. Remaining(r, fights) = ToGo[r.pc] + 7 * LapsLeft(r, fights)
  BY DEF Remaining
<1> HIDE DEF Lap
<1>. QED
  BY <1>1, <1>2, <1>3, <1>4 DEF LapOK

LEMMA NextLap ==
  ASSUME TInv, NEW p \in Callers, LapOK(loc[p], fights), loc[p].pc \in Lap \ {"fetch"},
         NEW r, r.fight = loc[p].fight, r.step = loc[p].step + 1, r.pc = "fetch"
  PROVE  LapOK(r, fights) /\ Remaining(r, fights) < StepsLeft(p)
<1>1. loc[p].step \in Nat /\ fights \in Seq(FightSet)
  BY HeldFact DEF TInv, SharedOK
<1>2. LapsLeft(loc[p], fights) >= 1 /\ LapsLeft(loc[p], fights) \in Int
      /\ StepsLeft(p) = ToGo[loc[p].pc] + 7 * LapsLeft(loc[p], fights)
  BY RemainingIs
<1>3. ToGo[loc[p].pc] \in Int /\ ToGo[loc[p].pc] >= 1 /\ ToGo["fetch"] = 7
  <2>1. loc[p].pc \in Labels /\ loc[p].pc # "idle"
    BY DEF Lap, Labels
  <2>. QED
    BY <2>1, ToGoBounds, ToGoIs
<1>4. LapsLeft(r, fights) = LapsLeft(loc[p], fights) - 1
  <2>1. loc[p].fight \in 1 .. Len(fights)
    BY HeldFact DEF Lap, Searching, Fight
  <2>2. Len(fights[loc[p].fight].order) \in Int
    BY <1>1, <2>1, OrderLength
  <2>3. LapsLeft(r, fights) = Len(fights[loc[p].fight].order) - (loc[p].step + 1)
        /\ LapsLeft(loc[p], fights) = Len(fights[loc[p].fight].order) - loc[p].step
    BY DEF LapsLeft
  <2>4. \A n, s \in Int : n - (s + 1) = (n - s) - 1
    OBVIOUS
  <2>5. loc[p].step \in Int
    BY <1>1
  <2>. QED
    BY <2>2, <2>3, <2>4, <2>5
<1>5. "fetch" \in Lap /\ Remaining(r, fights) = ToGo["fetch"] + 7 * LapsLeft(r, fights)
  BY DEF Remaining, Lap
<1>. QED
  BY <1>2, <1>3, <1>4, <1>5 DEF LapOK

LEMMA LapEnds ==
  ASSUME TInv, NEW p \in Callers, LapOK(loc[p], fights), loc[p].pc \in Lap, NEW r, r.pc \in Labels \ Lap
  PROVE  LapOK(r, fights) /\ Remaining(r, fights) < StepsLeft(p)
<1>1. LapsLeft(loc[p], fights) \in 0 .. MaxOrder /\ (loc[p].pc # "fetch" => LapsLeft(loc[p], fights) >= 1)
      /\ StepsLeft(p) = ToGo[loc[p].pc] + 7 * LapsLeft(loc[p], fights)
  BY RemainingIs
<1>2. ToGo[loc[p].pc] \in 0 .. 7 /\ (loc[p].pc = "fetch" => ToGo[loc[p].pc] = 7) /\ ToGo[loc[p].pc] >= 1
  <2>1. loc[p].pc \in Labels /\ loc[p].pc # "idle"
    BY DEF Lap, Labels
  <2>. QED
    BY <2>1, ToGoBounds, ToGoIs
<1>3. ToGo[r.pc] \in 0 .. 6 /\ Remaining(r, fights) = ToGo[r.pc]
  BY ToGoBounds DEF Remaining
<1>4. LapOK(r, fights)
  BY DEF LapOK
<1>. QED
  BY <1>1, <1>2, <1>3, <1>4

LEMMA AfterLaps ==
  ASSUME TInv, NEW p \in Callers, LapOK(loc[p], fights), loc[p].pc \in Labels \ Lap, NEW r, r.pc \in Labels \ Lap,
         ToGo[r.pc] < ToGo[loc[p].pc]
  PROVE  LapOK(r, fights) /\ Remaining(r, fights) < StepsLeft(p)
<1>1. StepsLeft(p) = ToGo[loc[p].pc] /\ ToGo[loc[p].pc] \in Int /\ ToGo[r.pc] \in Int
  BY RemainingIs, ToGoBounds
<1>2. Remaining(r, fights) = ToGo[r.pc]
  BY <1>1 DEF Remaining
<1>3. LapOK(r, fights)
  BY DEF LapOK
<1>. QED
  BY <1>1, <1>2, <1>3

\* A step of p's call leaves it less to do.
Shorter(p) ==
  \E r : /\ Become(p, r) /\ LapOK(r, fights) /\ Remaining(r, fights) < StepsLeft(p)
         /\ r.pc \in Lap => r.fight \in 1 .. Len(fights)

\* The step counter through the two updates of a searching caller's locals.
LEMMA StepOfUpdate ==
  ASSUME NEW p \in Callers, loc[p] \in LocSet, NEW l \in Labels, NEW i \in Int
  PROVE  /\ WithAt(p, l, i).step = loc[p].step /\ PassOver(p, i).step = loc[p].step + 1
  BY DEF WithAt, PassOver, LocSet

LEMMA LapSearches == Lap \subseteq Searching /\ Lap \subseteq Labels /\ "idle" \notin Lap
  BY DEF Lap, Searching, Labels

LEMMA ShorterInLap ==
  ASSUME TInv, NEW p \in Callers, LapOK(loc[p], fights), NEW l \in Lap \ {"fetch"}, NEW i \in Int,
         Become(p, WithAt(p, l, i)), loc[p].pc \in Lap, ToGo[l] < ToGo[loc[p].pc],
         loc[p].pc = "fetch" => LapsLeft(loc[p], fights) >= 1
  PROVE  Shorter(p)
<1>. DEFINE r == WithAt(p, l, i)
<1>1. loc[p] \in LocSet /\ loc[p].fight \in 1 .. Len(fights) /\ l \in Labels
  BY HeldFact, LapSearches DEF Fight
<1>2. r.pc = l /\ r.fight = loc[p].fight /\ r.step = loc[p].step
  BY <1>1, WithAtFact, StepOfUpdate
<1>3. LapsLeft(loc[p], fights) >= 1
  BY RemainingIs
<1>. HIDE DEF r
<1>4. LapOK(r, fights) /\ Remaining(r, fights) < StepsLeft(p)
  BY <1>2, <1>3, WithinLap
<1>. QED
  BY <1>1, <1>2, <1>4 DEF Shorter, r

LEMMA ShorterNextLap ==
  ASSUME TInv, NEW p \in Callers, LapOK(loc[p], fights), loc[p].pc \in Lap \ {"fetch"}, NEW a \in Int,
         Become(p, PassOver(p, a))
  PROVE  Shorter(p)
<1>. DEFINE r == PassOver(p, a)
<1>1. loc[p] \in LocSet /\ loc[p].fight \in 1 .. Len(fights)
  BY HeldFact, LapSearches DEF Fight
<1>2. r.pc = "fetch" /\ r.fight = loc[p].fight /\ r.step = loc[p].step + 1
  BY <1>1, PassOverFact, StepOfUpdate DEF Labels
<1>. HIDE DEF r
<1>3. LapOK(r, fights) /\ Remaining(r, fights) < StepsLeft(p)
  BY <1>2, NextLap
<1>. QED
  BY <1>1, <1>2, <1>3 DEF Shorter, r

\* A step that is not in a lap any more: the search is over, or was.
LEMMA ShorterAfter ==
  ASSUME TInv, NEW p \in Callers, LapOK(loc[p], fights), NEW r, Become(p, r), r.pc \in Labels \ Lap,
         \/ loc[p].pc \in Lap
         \/ loc[p].pc \in Labels \ Lap /\ ToGo[r.pc] < ToGo[loc[p].pc]
  PROVE  Shorter(p)
<1>1. LapOK(r, fights) /\ Remaining(r, fights) < StepsLeft(p)
  BY LapEnds, AfterLaps
<1>. QED
  BY <1>1 DEF Shorter

LEMMA ShorterReturn ==
  ASSUME TInv, NEW p \in Callers, LapOK(loc[p], fights), Return(p), loc[p].pc # "idle"
  PROVE  Shorter(p)
<1>1. Idle.pc = "idle" /\ "idle" \in Labels \ Lap /\ ToGo["idle"] = 0 /\ loc[p].pc \in Labels
  BY HeldFact, ToGoIs DEF Idle, Labels, Lap, LocSet
<1>2. ToGo[loc[p].pc] > 0
  BY <1>1, ToGoBounds
<1>. QED
  BY <1>1, <1>2, ShorterAfter DEF Return

\* Each step of the search, and each step of what follows it.
LEMMA SearchShortens ==
  ASSUME TInv, NEW p \in Callers, LapOK(loc[p], fights), Search(p)
  PROVE  Shorter(p)
<1>0. loc[p] \in LocSet /\ loc[p].at \in Int /\ loc[p].step \in Nat /\ loc[p].lastAlive \in Int
  BY HeldFact
<1>1. CASE FetchIndex(p)
  <2>0. loc[p].pc = "fetch" /\ "fetch" \in Lap /\ "store" \in Lap \ {"fetch"} /\ ToGo["store"] < ToGo["fetch"]
    BY <1>1, ToGoIs DEF FetchIndex, At, Lap
  <2>1. Index(p) + 1 \in Int /\ Len(fights[Fight(p)].order) \in Nat
    BY <2>0, HeldFact, LapSearches
  <2>2. CASE loc[p].step < Len(fights[Fight(p)].order) /\ Become(p, WithAt(p, "store", Index(p) + 1))
    <3>0. LapsLeft(loc[p], fights) = Len(fights[Fight(p)].order) - loc[p].step
      BY DEF LapsLeft, Fight
    <3>1. LapsLeft(loc[p], fights) >= 1
      <4>1. \A n, s \in Nat : s < n => n - s >= 1
        OBVIOUS
      <4>. QED
        BY <1>0, <2>1, <2>2, <3>0, <4>1
    <3>. QED
      BY <2>0, <2>1, <2>2, <3>1, ShorterInLap
  <2>3. ASSUME NEW l \in {"land", "endTurnOrder"}, Become(p, WithAt(p, l, loc[p].at))  PROVE Shorter(p)
    <3>1. WithAt(p, l, loc[p].at).pc \in Labels \ Lap
      BY <1>0, <2>3, WithAtFact DEF Labels, Lap
    <3>. QED
      BY <2>0, <2>3, <3>1, ShorterAfter
  <2>. QED
    BY <1>1, <2>2, <2>3 DEF FetchIndex, Goto
<1>2. CASE StoreIndex(p)
  <2>0. loc[p].pc = "store" /\ "store" \in Lap
        /\ "wrap" \in Lap \ {"fetch"} /\ ToGo["wrap"] < ToGo["store"] /\ "store" # "fetch"
    BY <1>2, ToGoIs DEF StoreIndex, At, Lap
  <2>. QED
    BY <1>0, <1>2, <2>0, ShorterInLap DEF StoreIndex, Goto
<1>3. CASE CheckWrap(p)
  <2>0. loc[p].pc = "wrap" /\ "wrap" \in Lap /\ "wrap" # "fetch"
    BY <1>3 DEF CheckWrap, At, Lap
  <2>1. ASSUME NEW l \in {"reset", "load"}, Become(p, WithAt(p, l, loc[p].at))  PROVE Shorter(p)
    <3>1. l \in Lap \ {"fetch"} /\ ToGo[l] < ToGo["wrap"]
      BY <2>1, ToGoIs DEF Lap
    <3>. QED
      BY <1>0, <2>0, <2>1, <3>1, ShorterInLap
  <2>. QED
    BY <1>3, <2>1 DEF CheckWrap, Goto
<1>4. CASE ResetIndex(p)
  <2>0. loc[p].pc = "reset" /\ "reset" \in Lap
        /\ "load" \in Lap \ {"fetch"} /\ ToGo["load"] < ToGo["reset"] /\ "reset" # "fetch"
    BY <1>4, ToGoIs DEF ResetIndex, At, Lap
  <2>. QED
    BY <1>0, <1>4, <2>0, ShorterInLap DEF ResetIndex, Goto
<1>5. CASE LoadCharacter(p)
  <2>0. loc[p].pc = "load" /\ "load" \in Lap \ {"fetch"} /\ "startTurn" \in Lap \ {"fetch"}
        /\ ToGo["startTurn"] < ToGo["load"] /\ "load" # "fetch" /\ "load" # "idle"
    BY <1>5, ToGoIs DEF LoadCharacter, At, Lap
  <2>1. Index(p) \in Int
    BY <2>0, HeldFact, LapSearches
  <2>2. CASE Goto(p, "panicked")
    <3>1. WithAt(p, "panicked", loc[p].at).pc \in Labels \ Lap
      BY <1>0, WithAtFact DEF Labels, Lap
    <3>. QED
      BY <2>0, <2>2, <3>1, ShorterAfter DEF Goto
  <2>3. CASE Return(p)
    BY <2>0, <2>3, ShorterReturn
  <2>4. CASE Become(p, PassOver(p, loc[p].lastAlive))
    BY <1>0, <2>0, <2>4, ShorterNextLap
  <2>5. CASE Become(p, WithAt(p, "startTurn", Index(p)))
    BY <2>0, <2>1, <2>5, ShorterInLap
  <2>. QED
    BY <1>5, <2>2, <2>3, <2>4, <2>5 DEF LoadCharacter
<1>6. CASE StartTurnFor(p)
  <2>0. loc[p].pc = "startTurn" /\ "startTurn" \in Lap /\ "canAct" \in Lap \ {"fetch"}
        /\ ToGo["canAct"] < ToGo["startTurn"] /\ "startTurn" # "fetch"
    BY <1>6, ToGoIs DEF StartTurnFor, At, Lap
  <2>. QED
    BY <1>0, <1>6, <2>0, ShorterInLap DEF StartTurnFor, Goto
<1>7. CASE CheckCanAct(p)
  <2>0. loc[p].pc = "canAct" /\ "canAct" \in Lap \ {"fetch"}
    BY <1>7 DEF CheckCanAct, At, Lap
  <2>1. Index(p) \in Int
    BY <2>0, HeldFact, LapSearches
  <2>2. CASE Become(p, PassOver(p, Index(p)))
    BY <2>0, <2>1, <2>2, ShorterNextLap
  <2>3. CASE Become(p, WithAt(p, "payload", -1))
    <3>1. WithAt(p, "payload", -1).pc \in Labels \ Lap
      BY <1>0, WithAtFact DEF Labels, Lap
    <3>. QED
      BY <2>0, <2>3, <3>1, ShorterAfter
  <2>. QED
    BY <1>7, <2>2, <2>3 DEF CheckCanAct
<1>8. CASE Land(p)
  <2>0. loc[p].pc = "land" /\ "land" \in Labels \ Lap /\ "payload" \in Labels \ Lap
        /\ ToGo["payload"] < ToGo["land"]
    BY <1>8, ToGoIs DEF Land, At, Lap, Labels
  <2>1. WithAt(p, "payload", loc[p].at).pc = "payload"
    BY <1>0, <2>0, WithAtFact
  <2>. QED
    BY <1>8, <2>0, <2>1, ShorterAfter DEF Land, Goto
<1>9. CASE MakePayload(p)
  <2>0. loc[p].pc = "payload" /\ {"payload", "broadcast", "panicked"} \subseteq Labels \ Lap
        /\ ToGo["broadcast"] < ToGo["payload"] /\ ToGo["panicked"] < ToGo["payload"]
    BY <1>9, ToGoIs DEF MakePayload, At, Lap, Labels
  <2>1. WithAt(p, "panicked", loc[p].at).pc = "panicked"
    BY <1>0, <2>0, WithAtFact
  <2>2. [Idle EXCEPT !.pc = "broadcast", !.turn = Turn(Fight(p))].pc = "broadcast"
    BY DEF Idle
  <2>. QED
    BY <1>9, <2>0, <2>1, <2>2, ShorterAfter DEF MakePayload, Goto
<1>10. CASE BroadcastTurnState(p)
  <2>0. loc[p].pc = "broadcast" /\ {"broadcast", "snapTurn"} \subseteq Labels \ Lap
        /\ ToGo["snapTurn"] < ToGo["broadcast"]
    BY <1>10, ToGoIs DEF BroadcastTurnState, At, Lap, Labels
  <2>1. [Idle EXCEPT !.pc = "snapTurn"].pc = "snapTurn"
    BY DEF Idle
  <2>. QED
    BY <1>10, <2>0, <2>1, ShorterAfter DEF BroadcastTurnState
<1>. QED
  BY <1>1, <1>2, <1>3, <1>4, <1>5, <1>6, <1>7, <1>8, <1>9, <1>10 DEF Search

LEMMA FinishShortens ==
  ASSUME TInv, NEW p \in Callers, LapOK(loc[p], fights), Finish(p)
  PROVE  Shorter(p)
<1>0. loc[p] \in LocSet /\ loc[p].at \in Int
  BY HeldFact
<1>1. ASSUME NEW l \in Labels \ Lap, At(p, l),
             NEW m \in Labels \ Lap, ToGo[m] < ToGo[l], NEW r, r.pc = m, Become(p, r)
      PROVE  Shorter(p)
  BY <1>1, ShorterAfter DEF At
<1>2. ASSUME NEW l \in Labels \ {"idle"}, At(p, l), Return(p)  PROVE Shorter(p)
  BY <1>2, ShorterReturn DEF At
<1>3. {"placeMap", "snapTurn", "snapMap", "save", "endTurnOrder", "endMap", "endRow", "endBroadcast", "panicked"}
        \subseteq (Labels \ Lap) \ {"idle"}
  BY DEF Labels, Lap
<1>4. ASSUME NEW l \in Labels  PROVE WithAt(p, l, loc[p].at).pc = l /\ [Idle EXCEPT !.pc = l].pc = l
  BY <1>0, WithAtFact DEF Idle
<1>5. CASE PlaceMap(p)
  <2>1. At(p, "placeMap") /\ (Return(p) \/ Become(p, [Idle EXCEPT !.pc = "snapTurn"]))
    BY <1>5 DEF PlaceMap
  <2>2. ToGo["snapTurn"] < ToGo["placeMap"]
    BY ToGoIs
  <2>. QED
    BY <1>1, <1>2, <1>3, <1>4, <2>1, <2>2
<1>6. CASE SnapshotTurn(p)
  <2>1. At(p, "snapTurn") /\ (Return(p) \/ \E t : Become(p, [Idle EXCEPT !.pc = "snapMap", !.turn = t]))
    BY <1>6 DEF SnapshotTurn
  <2>2. ToGo["snapMap"] < ToGo["snapTurn"]
    BY ToGoIs
  <2>3. ASSUME NEW t, Become(p, [Idle EXCEPT !.pc = "snapMap", !.turn = t])  PROVE Shorter(p)
    <3>1. [Idle EXCEPT !.pc = "snapMap", !.turn = t].pc = "snapMap"
      BY DEF Idle
    <3>. QED
      BY <1>1, <1>3, <2>1, <2>2, <2>3, <3>1
  <2>. QED
    BY <1>2, <1>3, <2>1, <2>3
<1>7. CASE SnapshotMap(p)
  <2>1. At(p, "snapMap") /\ (Return(p) \/ Become(p, [loc[p] EXCEPT !.pc = "save", !.map = combatMaps]))
    BY <1>7 DEF SnapshotMap
  <2>2. ToGo["save"] < ToGo["snapMap"]
    BY ToGoIs
  <2>3. [loc[p] EXCEPT !.pc = "save", !.map = combatMaps].pc = "save"
    BY <1>0 DEF LocSet
  <2>. QED
    BY <1>1, <1>2, <1>3, <2>1, <2>2, <2>3
<1>8. CASE SaveCombatState(p)
  BY <1>2, <1>3, <1>8 DEF SaveCombatState
<1>9. CASE EndTurnOrder(p)
  <2>1. At(p, "endTurnOrder") /\ Become(p, [Idle EXCEPT !.pc = "endMap"])
    BY <1>9 DEF EndTurnOrder
  <2>2. ToGo["endMap"] < ToGo["endTurnOrder"]
    BY ToGoIs
  <2>. QED
    BY <1>1, <1>3, <1>4, <2>1, <2>2
<1>10. CASE EndMap(p)
  <2>1. At(p, "endMap") /\ \E l \in {"endRow", "endBroadcast"} : Become(p, WithAt(p, l, loc[p].at))
    BY <1>10 DEF EndMap, Goto
  <2>2. ToGo["endRow"] < ToGo["endMap"] /\ ToGo["endBroadcast"] < ToGo["endMap"]
    BY ToGoIs
  <2>. QED
    BY <1>1, <1>3, <1>4, <2>1, <2>2
<1>11. CASE DeleteCombatState(p)
  <2>1. At(p, "endRow") /\ Become(p, WithAt(p, "endBroadcast", loc[p].at))
    BY <1>11 DEF DeleteCombatState, Goto
  <2>2. ToGo["endBroadcast"] < ToGo["endRow"]
    BY ToGoIs
  <2>. QED
    BY <1>1, <1>3, <1>4, <2>1, <2>2
<1>12. CASE BroadcastEnd(p) \/ Recover(p)
  BY <1>2, <1>3, <1>12 DEF BroadcastEnd, Recover
<1>. QED
  BY <1>5, <1>6, <1>7, <1>8, <1>9, <1>10, <1>11, <1>12 DEF Finish

\* The orders of the fights do not change, so a step changes only the caller's
\* own count.
LEMMA SameRemaining ==
  ASSUME OrdersKept, NEW r, r.pc \in Lap => r.fight \in 1 .. Len(fights)
  PROVE  Remaining(r, fights') = Remaining(r, fights) /\ (LapOK(r, fights') <=> LapOK(r, fights))
<1>1. r.pc \in Lap => LapsLeft(r, fights') = LapsLeft(r, fights)
  BY DEF OrdersKept, LapsLeft
<1>. QED
  BY <1>1 DEF Remaining, LapOK

LEMMA LapOfCaller ==
  ASSUME TInv, NEW p \in Callers
  PROVE  loc[p].pc \in Lap => loc[p].fight \in 1 .. Len(fights)
  BY HeldFact, LapSearches DEF Fight

\* One caller's step: its own new locals are right, the others' are as they were.
LEMMA ShortStep ==
  ASSUME ShortInv, OrdersKept, NEW p \in Callers, NEW r, Become(p, r), LapOK(r, fights')
  PROVE  /\ \A q \in Callers : LapOK(loc'[q], fights')
         /\ loc'[p] = r
         /\ \A q \in Callers \ {p} : loc'[q] = loc[q] /\ StepsLeft(q)' = StepsLeft(q)
<1>1. loc' = [loc EXCEPT ![p] = r] /\ loc \in [Callers -> LocSet]
  BY DEF Become, ShortInv, TInv
<1>2. loc'[p] = r /\ \A q \in Callers \ {p} : loc'[q] = loc[q]
  BY <1>1
<1>3. ASSUME NEW q \in Callers \ {p}
      PROVE  LapOK(loc'[q], fights') /\ StepsLeft(q)' = StepsLeft(q)
  <2>1. /\ Remaining(loc[q], fights') = Remaining(loc[q], fights)
        /\ LapOK(loc[q], fights') <=> LapOK(loc[q], fights)
    BY LapOfCaller, SameRemaining DEF ShortInv
  <2>. QED
    BY <1>2, <2>1 DEF StepsLeft, ShortInv
<1>. QED
  BY <1>2, <1>3

\* A new call starts at the head of a lap, or outside of them.
LEMMA CallStarts ==
  ASSUME TInv, NEW p \in Callers, Call(p)
  PROVE  At(p, "idle") /\ \E r : Become(p, r) /\ LapOK(r, fights')
<1>0. fights \in Seq(FightSet) /\ Len(fights) \in Nat /\ loc[p] \in LocSet /\ loc[p].at \in Int
  BY HeldFact DEF TInv, SharedOK
<1>1. ASSUME NEW f, Len(fights'[f].order) \in Nat
      PROVE  LapOK([Idle EXCEPT !.pc = "fetch", !.fight = f], fights')
  <2>. DEFINE r == [Idle EXCEPT !.pc = "fetch", !.fight = f]
  <2>1. r.pc = "fetch" /\ r.fight = f /\ r.step = 0
    BY DEF Idle
  <2>. HIDE DEF r
  <2>. QED
    <3>1. LapOK(r, fights')
      BY <1>1, <2>1 DEF LapOK, LapsLeft
    <3>. QED
      BY <3>1 DEF r
<1>2. CASE StartCombat(p)
  <2>1. PICK order \in Orders({c \in Characters : condition[c] # "dead"}) :
          fights' = Append(fights, [order |-> order, currentIndex |-> -1, round |-> 1])
    BY <1>2 DEF StartCombat
  <2>2. [order |-> order, currentIndex |-> -1, round |-> 1] \in FightSet /\ Len(order) \in Nat
    BY <2>1, OrdersFact DEF FightSet
  <2>3. fights'[Len(fights) + 1] = [order |-> order, currentIndex |-> -1, round |-> 1]
    BY <1>0, <2>1, <2>2, AppendProperties
  <2>4. Len(fights'[Len(fights) + 1].order) \in Nat
    BY <2>2, <2>3
  <2>. QED
    BY <1>1, <1>2, <2>4 DEF StartCombat, Calls
<1>3. CASE AdvanceTurn(p)
  <2>1. Len(fights'[turnOrders].order) \in Nat
    BY <1>0, <1>3, FightFact DEF AdvanceTurn, TInv, SharedOK
  <2>. QED
    BY <1>1, <1>3, <2>1 DEF AdvanceTurn, Calls
<1>4. CASE EndCombat(p) \/ MoveToken(p)
  <2>1. ASSUME NEW l \in {"endTurnOrder", "snapTurn"}, Become(p, WithAt(p, l, loc[p].at))
        PROVE  \E r : Become(p, r) /\ LapOK(r, fights')
    <3>1. WithAt(p, l, loc[p].at).pc \notin Lap
      BY <1>0, <2>1, WithAtFact DEF Labels, Lap
    <3>. QED
      BY <2>1, <3>1 DEF LapOK
  <2>. QED
    BY <1>4, <2>1 DEF EndCombat, MoveToken, Goto, Calls
<1>5. CASE GenerateCombatMap(p)
  <2>1. [Idle EXCEPT !.pc = "placeMap", !.fight = turnOrders].pc \notin Lap
    BY DEF Idle, Lap
  <2>. QED
    BY <1>5, <2>1 DEF GenerateCombatMap, Calls, LapOK
<1>. QED
  BY <1>2, <1>3, <1>4, <1>5 DEF Call

\* What every step does to the calls that are under way.
LEMMA ShortNext ==
  ASSUME ShortInv, [Next]_vars
  PROVE  /\ ShortInv'
         /\ \A q \in Callers : ~At(q, "idle") =>
              StepsLeft(q)' < StepsLeft(q) \/ (loc'[q] = loc[q] /\ StepsLeft(q)' = StepsLeft(q))
<1>. DEFINE Goal(q) == StepsLeft(q)' < StepsLeft(q) \/ (loc'[q] = loc[q] /\ StepsLeft(q)' = StepsLeft(q))
<1>0. TInv /\ TInv' /\ \A q \in Callers : LapOK(loc[q], fights)
  BY NextPreservesTInv DEF ShortInv
<1>1. ASSUME NEW p \in Callers, Call(p)
      PROVE  (\A q \in Callers : LapOK(loc'[q], fights')) /\ \A q \in Callers : ~At(q, "idle") => Goal(q)
  <2>1. OrdersKept
    BY <1>0, <1>1, NextKeepsOrders DEF Next
  <2>2. At(p, "idle") /\ \E r : Become(p, r) /\ LapOK(r, fights')
    BY <1>0, <1>1, CallStarts
  <2>. QED
    BY <2>1, <2>2, ShortStep
<1>2. ASSUME NEW p \in Callers, Continue(p)
      PROVE  (\A q \in Callers : LapOK(loc'[q], fights')) /\ \A q \in Callers : ~At(q, "idle") => Goal(q)
  <2>1. OrdersKept
    BY <1>0, <1>2, NextKeepsOrders DEF Next
  <2>2. Shorter(p)
    BY <1>0, <1>2, SearchShortens, FinishShortens DEF Continue
  <2>3. PICK r : /\ Become(p, r) /\ LapOK(r, fights) /\ Remaining(r, fights) < StepsLeft(p)
                 /\ r.pc \in Lap => r.fight \in 1 .. Len(fights)
    BY <2>2 DEF Shorter
  <2>4. LapOK(r, fights') /\ Remaining(r, fights') < StepsLeft(p)
    BY <2>1, <2>3, SameRemaining
  <2>5. /\ \A q \in Callers : LapOK(loc'[q], fights')
        /\ loc'[p] = r
        /\ \A q \in Callers \ {p} : loc'[q] = loc[q] /\ StepsLeft(q)' = StepsLeft(q)
    BY <2>1, <2>3, <2>4, ShortStep
  <2>6. StepsLeft(p)' < StepsLeft(p)
    BY <2>4, <2>5 DEF StepsLeft
  <2>. QED
    BY <2>5, <2>6
<1>3. CASE UNCHANGED <<loc, fights>>
  <2>1. \A q \in Callers : LapOK(loc'[q], fights') /\ loc'[q] = loc[q] /\ StepsLeft(q)' = StepsLeft(q)
    BY <1>0, <1>3 DEF StepsLeft
  <2>. QED
    BY <1>0, <2>1 DEF ShortInv
<1>4. CASE Restart
  <2>1. loc' = [q \in Callers |-> Idle]
    BY <1>4 DEF Restart
  <2>2. Idle.pc = "idle" /\ "idle" \notin Lap /\ ToGo["idle"] = 0
    BY ToGoIs DEF Idle, Lap
  <2>3. \A q \in Callers : LapOK(loc'[q], fights') /\ StepsLeft(q)' = 0
    BY <2>1, <2>2 DEF LapOK, StepsLeft, Remaining
  <2>4. ASSUME NEW q \in Callers, ~At(q, "idle")  PROVE StepsLeft(q)' < StepsLeft(q)
    <3>1. StepsLeft(q) \in 0 .. LongestCall /\ StepsLeft(q) # 0
      BY <1>0, <2>4, StepsBounded
    <3>2. StepsLeft(q) > 0
      BY <3>1, BoundsAssumption DEF LongestCall
    <3>. QED
      BY <2>3, <3>2
  <2>. QED
    BY <1>0, <2>3, <2>4 DEF ShortInv
<1>. QED
  BY <1>0, <1>1, <1>2, <1>3, <1>4 DEF Next, vars, ApplyEffect, ShortInv

LEMMA InitShortInv == Init => ShortInv
<1>. SUFFICES ASSUME Init  PROVE ShortInv
  OBVIOUS
<1>1. ASSUME NEW p \in Callers  PROVE LapOK(loc[p], fights)
  <2>1. loc[p] = Idle /\ Idle.pc \notin Lap
    BY DEF Init, Idle, Lap
  <2>. QED
    BY <2>1 DEF LapOK
<1>. QED
  BY <1>1, InitTInv DEF ShortInv

\* A lap that is under way never has more steps behind it than its order has
\* positions.
THEOREM ShortInvHolds == Spec => []ShortInv
<1>1. ShortInv /\ [Next]_vars => ShortInv'
  BY ShortNext
<1>. QED
  BY <1>1, InitShortInv, PTL DEF Spec

\* At every moment the steps a call still has to take are at most seven for
\* each character in its order and seven more, and a call has none left exactly
\* when it has returned (turn_order.go:211-268, 398-437).
THEOREM CallsAreShort == Spec => []CallsAreBounded
<1>1. ShortInv => CallsAreBounded
  BY StepsBounded DEF ShortInv, CallsAreBounded
<1>. QED
  BY <1>1, ShortInvHolds, PTL

\* No other caller can lengthen a call that is under way, by moving the position
\* of the fight it searches, ending it, replacing it or killing its characters;
\* and each step of the call itself brings its return nearer, so the search
\* cannot go round for ever (turn_order.go:211, 258-268).
THEOREM CallsGetShorter == Spec => CallsShorten
<1>. DEFINE Shortens == \A p \in Callers : ~At(p, "idle") =>
                          \/ StepsLeft(p)' < StepsLeft(p)
                          \/ loc'[p] = loc[p] /\ StepsLeft(p)' = StepsLeft(p)
<1>1. ShortInv /\ [Next]_vars => [Shortens]_vars
  BY ShortNext
<1>. QED
  BY <1>1, ShortInvHolds, PTL DEF Spec, CallsShorten
================================================================================
