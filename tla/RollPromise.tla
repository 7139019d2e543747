------------------------------ MODULE RollPromise ------------------------------
(* What an interactive roll promises the table, whoever reveals its dice   *)
(* and whenever: sendClientRollAndWait and finishRoll of                   *)
(* master/internal/server/client_roll.go.                                  *)
EXTENDS Naturals

CONSTANT Dice

VARIABLES
  decided,    \* dice whose reveal can no longer be taken back
  announced,  \* per die: how often the spectators were told its result
  completes,  \* client.roll_complete messages broadcast
  closes,     \* closes of the channel the caller waits on
  resumed     \* the caller went on

vars == <<decided, announced, completes, closes, resumed>>

Init ==
  /\ decided = {}
  /\ announced = [d \in Dice |-> 0]
  /\ completes = 0
  /\ closes = 0
  /\ resumed = FALSE

Decide(S) ==
  /\ decided' = decided \cup S
  /\ UNCHANGED <<announced, completes, closes, resumed>>

\* A result is told once, and never before its die is decided.
Announce(d) ==
  /\ d \in decided /\ announced[d] = 0
  /\ announced' = [announced EXCEPT ![d] = 1]
  /\ UNCHANGED <<decided, completes, closes, resumed>>

\* The roll is complete once, when nothing is left to decide.
Complete ==
  /\ decided = Dice /\ completes = 0
  /\ completes' = 1
  /\ UNCHANGED <<decided, announced, closes, resumed>>

\* The caller may be the one who closes the channel; it then goes on at once.
Close ==
  /\ completes = 1 /\ closes = 0
  /\ closes' = 1
  /\ resumed' \in {resumed, TRUE}
  /\ UNCHANGED <<decided, announced, completes>>

\* The caller goes on with every die decided.
Resume ==
  /\ decided = Dice /\ ~resumed
  /\ resumed' = TRUE
  /\ UNCHANGED <<decided, announced, completes, closes>>

Next ==
  \/ \E S \in SUBSET Dice : Decide(S)
  \/ \E d \in Dice : Announce(d)
  \/ Complete \/ Close \/ Resume

Spec == Init /\ [][Next]_vars
================================================================================
