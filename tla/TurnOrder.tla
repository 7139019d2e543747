------------------------------- MODULE TurnOrder -------------------------------
(***************************************************************************)
(* Structured combat of one campaign: the turn order of                    *)
(* master/internal/server/turn_order.go, the snapshot row of               *)
(* combat_state.go and the lifetime of the combat map of combat_map.go.    *)
(*                                                                         *)
(* A caller is a goroutine that makes one call into the combat code at a   *)
(* time: a slow pass running the DM model's tool calls (the server starts  *)
(* one slow pass per player input, so several of them run in one campaign) *)
(* or a connection that moves a token.  The turnOrder structs are shared   *)
(* by pointer and advanceToNextActionableCharacter changes currentIndex    *)
(* and round without turnOrdersMu, so each of its loads and stores is a    *)
(* step.  currentIndex counts from 0 as in the source; order[i + 1] is the *)
(* source's order[i].                                                      *)
(***************************************************************************)
EXTENDS Integers, Sequences

CONSTANTS
  Callers,      \* goroutines that call into the combat code
  Characters,   \* the campaign's characters
  Tools,        \* the calls an instance makes
  HasStore,     \* whether a CombatStateStore is configured
  Faults,       \* whether lookups and writes fail and the process restarts
  MaxOrder,     \* bound: characters named in a start_combat call
  MaxFights,    \* bound: start_combat calls of a behaviour
  MaxRound      \* bound: no advance_turn is called after this round

ASSUME ToolsAssumption ==
  Tools \subseteq {"start_combat", "advance_turn", "end_combat", "generate_combat_map",
                   "move_token", "apply_effect"}
ASSUME FlagsAssumption == HasStore \in BOOLEAN /\ Faults \in BOOLEAN
ASSUME BoundsAssumption ==
  MaxOrder \in Nat \ {0} /\ MaxFights \in Nat \ {0} /\ MaxRound \in Nat \ {0}

VARIABLES
  condition,    \* what the system engine would say of each character
  fights,       \* every turnOrder struct ever allocated
  turnOrders,   \* the map's entry: the struct of the running combat, or 0
  combatMaps,   \* the fight whose roster the combat map shows, or 0
  row,          \* the persisted combat_state row: a turn and a map
  announced,    \* the last turn.state the table was sent
  loc,          \* per caller: program counter and locals
  cutShort      \* since the last announcement a call failed half-way

vars == <<condition, fights, turnOrders, combatMaps, row, announced, loc, cutShort>>

Conditions == {"able", "incapacitated", "dead"}

\* A turn: a position of a fight, as turn.state and the snapshot carry it.
NoTurn == [fight |-> 0, index |-> -1, round |-> 0]
NoRow == [turn |-> NoTurn, map |-> 0]

Idle == [pc |-> "idle", fight |-> 0, step |-> 0, at |-> -1, lastAlive |-> -1,
         turn |-> NoTurn, map |-> 0]

\* Initiative orders of a set of characters: any of them, in the order of the
\* rolls.  The DM model may name a character twice.
Orders(S) == UNION {[1 .. n -> S] : n \in 1 .. MaxOrder}

InOrder(f, i) == i >= 0 /\ i < Len(fights[f].order)
CharacterAt(f, i) == fights[f].order[i + 1]
Turn(f) == [fight |-> f, index |-> fights[f].currentIndex, round |-> fights[f].round]

Fight(p) == loc[p].fight
Index(p) == fights[Fight(p)].currentIndex
Round(p) == fights[Fight(p)].round
Moved(f, i, r) ==
  [fights EXCEPT ![f] = [order |-> fights[f].order, currentIndex |-> i, round |-> r]]

At(p, label) == loc[p].pc = label
Become(p, r) == loc' = [loc EXCEPT ![p] = r]
WithAt(p, label, i) == [loc[p] EXCEPT !.pc = label, !.at = i]
PassOver(p, alive) ==
  [loc[p] EXCEPT !.pc = "fetch", !.step = @ + 1, !.at = -1, !.lastAlive = alive]
Goto(p, label) == Become(p, WithAt(p, label, loc[p].at))
Calls(p, tool) == At(p, "idle") /\ tool \in Tools
Return(p) == Become(p, Idle)

Init ==
  /\ condition \in [Characters -> Conditions]
  /\ fights = <<>>
  /\ turnOrders = 0
  /\ combatMaps = 0
  /\ row = NoRow
  /\ announced = NoTurn
  /\ loc = [p \in Callers |-> Idle]
  /\ cutShort = FALSE

--------------------------------------------------------------------------------
(* The calls.                                                              *)

\* Rolls initiative for everyone asked for who is not dead, publishes the
\* struct with currentIndex -1 and starts the search for the first turn.
StartCombat(p) ==
  /\ Calls(p, "start_combat") /\ Len(fights) < MaxFights
  /\ \E order \in Orders({c \in Characters : condition[c] # "dead"}) :
       fights' = Append(fights, [order |-> order, currentIndex |-> -1, round |-> 1])
  /\ turnOrders' = Len(fights) + 1
  /\ Become(p, [Idle EXCEPT !.pc = "fetch", !.fight = Len(fights) + 1])
  /\ UNCHANGED <<condition, combatMaps, row, announced, cutShort>>

AdvanceTurn(p) ==
  /\ Calls(p, "advance_turn") /\ turnOrders # 0
  /\ fights[turnOrders].round <= MaxRound
  /\ Become(p, [Idle EXCEPT !.pc = "fetch", !.fight = turnOrders])
  /\ UNCHANGED <<condition, fights, turnOrders, combatMaps, row, announced, cutShort>>

EndCombat(p) ==
  /\ Calls(p, "end_combat")
  /\ Goto(p, "endTurnOrder")
  /\ UNCHANGED <<condition, fights, turnOrders, combatMaps, row, announced, cutShort>>

\* dmGenerateCombatMap copies the running fight's roster under the lock ...
GenerateCombatMap(p) ==
  /\ Calls(p, "generate_combat_map") /\ turnOrders # 0
  /\ Become(p, [Idle EXCEPT !.pc = "placeMap", !.fight = turnOrders])
  /\ UNCHANGED <<condition, fights, turnOrders, combatMaps, row, announced, cutShort>>

\* ... and stores the map after generating it and loading every character,
\* any of which may fail and end the call.
PlaceMap(p) ==
  /\ At(p, "placeMap")
  /\ \/ /\ combatMaps' = Fight(p)
        /\ Become(p, [Idle EXCEPT !.pc = "snapTurn"])
     \/ Faults /\ combatMaps' = combatMaps /\ Return(p)
  /\ UNCHANGED <<condition, fights, turnOrders, row, announced, cutShort>>

\* handleMapTokenMoveRequest: an accepted move persists the combat state.
\* Where the token goes is left out.
MoveToken(p) ==
  /\ Calls(p, "move_token") /\ combatMaps # 0
  /\ Goto(p, "snapTurn")
  /\ UNCHANGED <<condition, fights, turnOrders, combatMaps, row, announced, cutShort>>

\* apply_effect, cast_spell, melee_attack, a player's character.apply_effect and
\* the other calls, of any goroutine, that change what the engine says of a
\* character.
ApplyEffect ==
  /\ "apply_effect" \in Tools
  /\ \E c \in Characters, now \in Conditions : condition' = [condition EXCEPT ![c] = now]
  /\ UNCHANGED <<fights, turnOrders, combatMaps, row, announced, loc, cutShort>>

--------------------------------------------------------------------------------
(* advanceToNextActionableCharacter, step by step.                         *)

\* The loop head and the load half of currentIndex++; after a full lap the
\* call lands on the last incapacitated character, or ends the combat.
FetchIndex(p) ==
  /\ At(p, "fetch")
  /\ \/ /\ loc[p].step < Len(fights[Fight(p)].order)
        /\ Become(p, WithAt(p, "store", Index(p) + 1))
     \/ /\ loc[p].step >= Len(fights[Fight(p)].order)
        /\ Goto(p, IF loc[p].lastAlive # -1 THEN "land" ELSE "endTurnOrder")
  /\ UNCHANGED <<condition, fights, turnOrders, combatMaps, row, announced, cutShort>>

StoreIndex(p) ==
  /\ At(p, "store")
  /\ fights' = Moved(Fight(p), loc[p].at, Round(p))
  /\ Goto(p, "wrap")
  /\ UNCHANGED <<condition, turnOrders, combatMaps, row, announced, cutShort>>

\* Mutant: > where the code has >=.
WrapTooLate(p) ==
  /\ At(p, "wrap")
  /\ Goto(p, IF Index(p) > Len(fights[Fight(p)].order) THEN "reset" ELSE "load")
  /\ UNCHANGED <<condition, fights, turnOrders, combatMaps, row, announced, cutShort>>

CheckWrap(p) ==
  /\ At(p, "wrap")
  /\ Goto(p, IF Index(p) >= Len(fights[Fight(p)].order) THEN "reset" ELSE "load")
  /\ UNCHANGED <<condition, fights, turnOrders, combatMaps, row, announced, cutShort>>

\* Mutant: the search starts the order over without starting a round.
WrapWithoutRound(p) ==
  /\ At(p, "reset")
  /\ fights' = Moved(Fight(p), 0, Round(p))
  /\ Goto(p, "load")
  /\ UNCHANGED <<condition, turnOrders, combatMaps, row, announced, cutShort>>

ResetIndex(p) ==
  /\ At(p, "reset")
  /\ fights' = Moved(Fight(p), 0, Round(p) + 1)
  /\ Goto(p, "load")
  /\ UNCHANGED <<condition, turnOrders, combatMaps, row, announced, cutShort>>

\* order[currentIndex] is read anew.  A failed lookup or status call returns
\* at once and leaves currentIndex where the search had moved it.
LoadCharacter(p) ==
  /\ At(p, "load")
  /\ \/ /\ ~InOrder(Fight(p), Index(p))
        /\ Goto(p, "panicked")
        /\ UNCHANGED cutShort
     \/ /\ Faults /\ InOrder(Fight(p), Index(p))
        /\ Return(p)
        /\ cutShort' = TRUE
     \/ /\ InOrder(Fight(p), Index(p))
        /\ IF condition[CharacterAt(Fight(p), Index(p))] = "dead"
           THEN Become(p, PassOver(p, loc[p].lastAlive))
           ELSE Become(p, WithAt(p, "startTurn", Index(p)))
        /\ UNCHANGED cutShort
  /\ UNCHANGED <<condition, fights, turnOrders, combatMaps, row, announced>>

\* The engine's start-of-turn bookkeeping: a condition may run out, a death
\* saving throw may be the last one.  A failure is logged and ignored.
AfterStartTurn(c) == CASE c = "able" -> {"able", "dead"}
                       [] c = "incapacitated" -> Conditions
                       [] c = "dead" -> {"dead"}

StartTurnFor(p) ==
  /\ At(p, "startTurn")
  /\ LET c == CharacterAt(Fight(p), loc[p].at) IN
     \E after \in AfterStartTurn(condition[c]) : condition' = [condition EXCEPT ![c] = after]
  /\ Goto(p, "canAct")
  /\ UNCHANGED <<fights, turnOrders, combatMaps, row, announced, cutShort>>

\* A character the engine says cannot act is passed over and remembered, by
\* the index the struct holds at that moment; an error counts as "can act".
CheckCanAct(p) ==
  /\ At(p, "canAct")
  /\ \/ /\ condition[CharacterAt(Fight(p), loc[p].at)] # "able"
        /\ Become(p, PassOver(p, Index(p)))
     \/ Become(p, WithAt(p, "payload", -1))
  /\ UNCHANGED <<condition, fights, turnOrders, combatMaps, row, announced, cutShort>>

\* Mutant: instead of landing on the last incapacitated character, the search
\* waits there until the character can act.
LandAndWait(p) ==
  /\ At(p, "land")
  /\ fights' = Moved(Fight(p), loc[p].lastAlive, Round(p))
  /\ Become(p, [WithAt(p, IF InOrder(Fight(p), loc[p].lastAlive) THEN "canAct" ELSE "payload",
                       loc[p].lastAlive) EXCEPT !.step = 0])
  /\ UNCHANGED <<condition, turnOrders, combatMaps, row, announced, cutShort>>

Land(p) ==
  /\ At(p, "land")
  /\ fights' = Moved(Fight(p), loc[p].lastAlive, Round(p))
  /\ Goto(p, "payload")
  /\ UNCHANGED <<condition, turnOrders, combatMaps, row, announced, cutShort>>

\* toPayload reads the struct, the broadcast follows.
MakePayload(p) ==
  /\ At(p, "payload")
  /\ \/ /\ InOrder(Fight(p), Index(p))
        /\ Become(p, [Idle EXCEPT !.pc = "broadcast", !.turn = Turn(Fight(p))])
     \/ ~InOrder(Fight(p), Index(p)) /\ Goto(p, "panicked")
  /\ UNCHANGED <<condition, fights, turnOrders, combatMaps, row, announced, cutShort>>

\* Mutant: the announced fight is published again.
AnnounceAndPublish(p) ==
  /\ At(p, "broadcast")
  /\ announced' = loc[p].turn
  /\ turnOrders' = loc[p].turn.fight
  /\ cutShort' = FALSE
  /\ Become(p, [Idle EXCEPT !.pc = "snapTurn"])
  /\ UNCHANGED <<condition, fights, combatMaps, row>>

BroadcastTurnState(p) ==
  /\ At(p, "broadcast")
  /\ announced' = loc[p].turn
  /\ cutShort' = FALSE
  /\ Become(p, [Idle EXCEPT !.pc = "snapTurn"])
  /\ UNCHANGED <<condition, fights, turnOrders, combatMaps, row>>

--------------------------------------------------------------------------------
(* persistCombatState and endCombat: each lock and each write is a step.   *)

SnapshotTurn(p) ==
  /\ At(p, "snapTurn")
  /\ IF ~HasStore
     THEN Return(p)
     ELSE Become(p, [Idle EXCEPT !.pc = "snapMap",
                                 !.turn = IF turnOrders = 0 THEN NoTurn ELSE Turn(turnOrders)])
  /\ UNCHANGED <<condition, fights, turnOrders, combatMaps, row, announced, cutShort>>

SnapshotMap(p) ==
  /\ At(p, "snapMap")
  /\ IF loc[p].turn = NoTurn /\ combatMaps = 0
     THEN Return(p)
     ELSE Become(p, [loc[p] EXCEPT !.pc = "save", !.map = combatMaps])
  /\ UNCHANGED <<condition, fights, turnOrders, combatMaps, row, announced, cutShort>>

SaveCombatState(p) ==
  /\ At(p, "save")
  /\ \/ row' = [turn |-> loc[p].turn, map |-> loc[p].map] /\ UNCHANGED cutShort
     \/ Faults /\ cutShort' = TRUE /\ UNCHANGED row
  /\ Return(p)
  /\ UNCHANGED <<condition, fights, turnOrders, combatMaps, announced>>

EndTurnOrder(p) ==
  /\ At(p, "endTurnOrder")
  /\ turnOrders' = 0
  /\ Become(p, [Idle EXCEPT !.pc = "endMap"])
  /\ UNCHANGED <<condition, fights, combatMaps, row, announced, cutShort>>

\* Mutant: the row outlives the combat.
EndMapKeepRow(p) ==
  /\ At(p, "endMap")
  /\ combatMaps' = 0
  /\ Goto(p, "endBroadcast")
  /\ UNCHANGED <<condition, fights, turnOrders, row, announced, cutShort>>

EndMap(p) ==
  /\ At(p, "endMap")
  /\ combatMaps' = 0
  /\ Goto(p, IF HasStore THEN "endRow" ELSE "endBroadcast")
  /\ UNCHANGED <<condition, fights, turnOrders, row, announced, cutShort>>

DeleteCombatState(p) ==
  /\ At(p, "endRow")
  /\ \/ row' = NoRow /\ cutShort' = FALSE
     \/ Faults /\ cutShort' = TRUE /\ UNCHANGED row
  /\ Goto(p, "endBroadcast")
  /\ UNCHANGED <<condition, fights, turnOrders, combatMaps, announced>>

BroadcastEnd(p) ==
  /\ At(p, "endBroadcast")
  /\ announced' = NoTurn
  /\ Return(p)
  /\ UNCHANGED <<condition, fights, turnOrders, combatMaps, row, cutShort>>

--------------------------------------------------------------------------------
(* The rest of the process.                                                *)

\* runSlowPass recovers the panic and ends; the next input starts afresh.
Recover(p) ==
  /\ At(p, "panicked")
  /\ Return(p)
  /\ cutShort' = TRUE
  /\ UNCHANGED <<condition, fights, turnOrders, combatMaps, row, announced>>

\* What a starting process reads back from a row.
WarmUpCombatState(loaded) ==
  /\ turnOrders' = loaded.turn.fight
  /\ combatMaps' = loaded.map
  /\ fights' = IF loaded.turn.fight = 0 THEN fights
               ELSE Moved(loaded.turn.fight, loaded.turn.index, loaded.turn.round)

\* The process dies and starts again; the row is read before the listener
\* accepts a connection, and a row that cannot be read is logged and ignored.
Restart ==
  /\ Faults
  /\ loc' = [p \in Callers |-> Idle]
  /\ \E loaded \in {row, NoRow} :
       /\ WarmUpCombatState(loaded)
       /\ cutShort' = (cutShort \/ loaded # row \/ \E p \in Callers : ~At(p, "idle"))
  /\ UNCHANGED <<condition, row, announced>>

Call(p) ==
  \/ StartCombat(p) \/ AdvanceTurn(p) \/ EndCombat(p)
  \/ GenerateCombatMap(p) \/ MoveToken(p)

Search(p) ==
  \/ FetchIndex(p) \/ StoreIndex(p) \/ CheckWrap(p) \/ ResetIndex(p)
  \/ LoadCharacter(p) \/ StartTurnFor(p) \/ CheckCanAct(p)
  \/ Land(p) \/ MakePayload(p) \/ BroadcastTurnState(p)

Finish(p) ==
  \/ PlaceMap(p) \/ SnapshotTurn(p) \/ SnapshotMap(p) \/ SaveCombatState(p)
  \/ EndTurnOrder(p) \/ EndMap(p) \/ DeleteCombatState(p) \/ BroadcastEnd(p)
  \/ Recover(p)

Continue(p) == Search(p) \/ Finish(p)

Next ==
  \/ \E p \in Callers : Call(p) \/ Continue(p)
  \/ ApplyEffect \/ Restart

Spec == Init /\ [][Next]_vars

\* A goroutine inside a call keeps running: every engine call, store call and
\* interactive death save it waits for has a timeout.  Nobody has to call.
FairSpec == Spec /\ \A p \in Callers : WF_vars(Continue(p))

--------------------------------------------------------------------------------
(* Properties.                                                             *)

TurnSet == [fight : 0 .. MaxFights, index : Int, round : Nat]

Labels == {"idle", "fetch", "store", "wrap", "reset", "load", "startTurn", "canAct",
           "land", "payload", "broadcast", "snapTurn", "snapMap", "save", "placeMap",
           "endTurnOrder", "endMap", "endRow", "endBroadcast", "panicked"}

FightSet == [order : Orders(Characters), currentIndex : Int, round : Nat]

LocSet == [pc : Labels, fight : 0 .. MaxFights, step : Nat, at : Int, lastAlive : Int,
           turn : TurnSet, map : 0 .. MaxFights]

\* Types, and every reference to a fight is to one that was started.
TypeOK ==
  /\ condition \in [Characters -> Conditions]
  /\ fights \in Seq(FightSet) /\ Len(fights) <= MaxFights
  /\ turnOrders \in 0 .. Len(fights)
  /\ combatMaps \in 0 .. Len(fights)
  /\ row \in [turn : TurnSet, map : 0 .. MaxFights]
  /\ row.turn.fight <= Len(fights) /\ row.map <= Len(fights)
  /\ announced \in TurnSet
  /\ loc \in [Callers -> LocSet]
  /\ \A p \in Callers : /\ Fight(p) <= Len(fights)
                        /\ loc[p].turn.fight <= Len(fights) /\ loc[p].map <= Len(fights)
  /\ cutShort \in BOOLEAN

Quiescent == \A p \in Callers : At(p, "idle")

\* Between calls, what the table was last told, what enforceTurnOrder will
\* enforce and what a restart would bring back are one and the same turn and
\* map (turn_order.go:250-255, 262-265, 417-437; combat_state.go:98-123),
\* unless a call failed half-way since the last announcement.
TableMemoryAndRowAgree ==
  Quiescent /\ ~cutShort =>
    /\ announced = IF turnOrders = 0 THEN NoTurn ELSE Turn(turnOrders)
    /\ row = [turn |-> announced, map |-> combatMaps]

\* The search for the next turn never indexes order out of range
\* (turn_order.go:211-217, 49, 259).
SearchNeverPanics == \A p \in Callers : ~At(p, "panicked")

\* Within a fight the announced turns move forward: no turn is announced
\* again, none before it, and no round is passed over (turn_order.go:211-216,
\* 258-259), unless a call was cut short in between.
TurnsMoveForward ==
  [][ /\ announced'.fight # 0 /\ announced'.fight = announced.fight
      /\ ~cutShort
      => \/ announced'.round = announced.round /\ announced'.index > announced.index
         \/ announced'.round = announced.round + 1 ]_announced

\* A fight that was ended or replaced is never made current again while the
\* process lives, however late a search that was under way in it then finishes
\* (turn_order.go:382-387, 402-407, 418-420): an older fight that is current
\* after a step was current before it.
EndedFightsStayEnded ==
  [][ turnOrders' \in 1 .. Len(fights) => turnOrders' = turnOrders \/ Restart ]_vars

\* Every call returns: the search gives up after one lap even if nobody can
\* act, whatever the other callers do to the struct meanwhile
\* (turn_order.go:211, 258-268).
CallsFinish == \A p \in Callers : ~At(p, "idle") ~> At(p, "idle")

\* "Safe to call from any goroutine": a player's connection may call
\* enforceTurnOrder at any moment, and order[currentIndex] must then exist
\* (turn_order.go:451-463).
GateIsSafeFromAnyGoroutine ==
  turnOrders # 0 => InOrder(turnOrders, fights[turnOrders].currentIndex)

\* persistCombatState "writes campaignID's current in-memory turn-order/
\* combat-map state to storage" (combat_state.go:89-92) and endCombat removes
\* it: when every call has returned, the row does not hold a fight that was
\* ended.
RowHoldsNoEndedFight ==
  Quiescent /\ ~cutShort => row.turn.fight \in {0, turnOrders}
================================================================================
