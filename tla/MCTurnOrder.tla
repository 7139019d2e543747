------------------------------ MODULE MCTurnOrder ------------------------------
(* Instances of TurnOrder for TLC.                                         *)
EXTENDS TurnOrder

CombatTools == {"start_combat", "advance_turn", "end_combat"}
MapTools == {"generate_combat_map", "move_token"}
AllTools == CombatTools \cup MapTools \cup {"apply_effect"}
================================================================================
