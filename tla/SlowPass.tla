-------------------------------- MODULE SlowPass --------------------------------
(***************************************************************************)
(* A turn of the DM (dm_slow_pass.go): the player's input is shown to the  *)
(* table (renderPlayerBubble), then a detached goroutine lets the model    *)
(* play it out with the mechanics tools and narrate it with the narration  *)
(* tools, both in a bounded number of rounds, and says what came of it or  *)
(* that nothing did.  The model may answer anything with the tools it is   *)
(* offered, fail, or run into the pass's deadline; a failed call of        *)
(* start_combat or advance_turn must not end in a narration that claims an *)
(* initiative.  Which tools a pass offers is no gate: each runs whatever   *)
(* tool the reply names.  What the tools do is in the other modules, how   *)
(* messages are recorded and sent in EventLog.                             *)
(***************************************************************************)
EXTENDS Naturals, FiniteSets, Sequences

CONSTANTS
  Turns,            \* inputs; a player may send the next before the last is answered
  MechanicsLimit,   \* mechanicsPassMaxToolIterations
  NarrationLimit,   \* narrationPassMaxToolIterations
  MaxBatch          \* bound: tool calls in one reply

ASSUME LimitsAssumption ==
  MechanicsLimit \in Nat /\ NarrationLimit \in Nat /\ MaxBatch \in Nat \ {0}

VARIABLES
  turn,       \* what the goroutine of each input is doing
  table,      \* what the table was told of each turn, in order
  schema,     \* turns in which get_character_schema succeeded
  npcs,       \* turns whose create_npc reached the engine
  loose,      \* history: those of them whose narration pass called it
  cut         \* turns ended by a panic or a restart

turnVars == <<turn, table, schema, npcs, loose, cut>>

NoTurn == [pc |-> "none", round |-> 0, left |-> 0, failed |-> FALSE]

TurnInit ==
  /\ turn = [t \in Turns |-> NoTurn]
  /\ table = [t \in Turns |-> <<>>]
  /\ schema = {} /\ npcs = {} /\ loose = {} /\ cut = {}

TurnAt(t, pc) == turn[t].pc = pc
Running(t) == turn[t].pc \notin {"none", "ended"}

TurnGoto(t, pc) == turn' = [turn EXCEPT ![t].pc = pc]
Tell(t, what) == table' = [table EXCEPT ![t] = Append(@, what)]

--------------------------------------------------------------------------------

\* Without a rendering the player gets an error and there is no turn.
RenderPlayerBubble(t) ==
  /\ TurnAt(t, "none")
  /\ \/ Tell(t, "bubble") /\ TurnGoto(t, "mechanics")
     \/ UNCHANGED table /\ TurnGoto(t, "ended")
  /\ UNCHANGED <<schema, npcs, loose, cut>>

\* sendSlowPassFailureNotice: the turn is over.
FailureNotice(t) == Tell(t, "notice") /\ TurnGoto(t, "ended")

\* The reply calls one tool or more, which are executed in order.
CallTools(t, pc) ==
  /\ \E n \in 1..MaxBatch :
       turn' = [turn EXCEPT ![t].pc = pc, ![t].round = @ + 1, ![t].left = n]
  /\ UNCHANGED table

\* A call was executed: the reply's next one, or the next round.
Called(t, failed, round) ==
  turn' = [turn EXCEPT ![t] = [turn[t] EXCEPT !.left = @ - 1, !.failed = failed,
                                              !.pc = IF turn[t].left > 1 THEN @ ELSE round]]

\* A round of runMechanicsPass.  When the rounds are used up the narration
\* follows all the same.
MechanicsRound(t) ==
  /\ TurnAt(t, "mechanics")
  /\ \/ turn[t].round < MechanicsLimit /\ FailureNotice(t)
     \/ turn[t].round < MechanicsLimit /\ CallTools(t, "mechanicsCall")
     \/ turn' = [turn EXCEPT ![t].pc = "narration", ![t].round = 0] /\ UNCHANGED table
  /\ UNCHANGED <<schema, npcs, loose, cut>>

\* Mutant: a call that succeeds makes up for one that failed.
NoteForgiving(t, order, ok) == IF order THEN ~ok ELSE turn[t].failed

\* turnOrderCallFailed.
NoteFailure(t, order, ok) == turn[t].failed \/ (order /\ ~ok)

\* A call is executed and its tool.result broadcast.  order: start_combat or
\* advance_turn.
MechanicsCall(t, order, ok) ==
  /\ TurnAt(t, "mechanicsCall")
  /\ Tell(t, IF order /\ ~ok THEN "noTurnOrder" ELSE "result")
  /\ Called(t, NoteFailure(t, order, ok), "mechanics")
  /\ UNCHANGED <<schema, npcs, loose, cut>>

GetCharacterSchema(t) ==
  /\ TurnAt(t, "mechanicsCall")
  /\ Tell(t, "result") /\ Called(t, turn[t].failed, "mechanics")
  /\ schema' = schema \cup {t}
  /\ UNCHANGED <<npcs, loose, cut>>

\* create_npc is rejected before the engine sees it until the schema was read.
CreateNPC(t) ==
  /\ TurnAt(t, "mechanicsCall")
  /\ Tell(t, "result") /\ Called(t, turn[t].failed, "mechanics")
  /\ npcs' = IF t \in schema THEN npcs \cup {t} ELSE npcs
  /\ UNCHANGED <<schema, loose, cut>>

\* looksLikeUnearnedTurnOrderClaim; the debris of a malformed call is replaced
\* by the notice too, which NarrationRound may always send.
Gated(t, claim) == claim /\ turn[t].failed

\* A round of runNarrationPass.  The text ends it, if runSlowPass lets it pass;
\* otherwise, or when the rounds are used up, the player gets the notice.
NarrationRound(t) ==
  /\ TurnAt(t, "narration")
  /\ \/ FailureNotice(t)
     \/ turn[t].round < NarrationLimit /\ CallTools(t, "narrationCall")
     \/ /\ turn[t].round < NarrationLimit
        /\ \E claim \in BOOLEAN :
             /\ ~Gated(t, claim)
             /\ Tell(t, IF claim THEN "claim" ELSE "narration") /\ TurnGoto(t, "ended")
  /\ UNCHANGED <<schema, npcs, loose, cut>>

\* Offered or not, the call is executed.  A turn order that fails only now is
\* not noted for the gate.
NarrationCall(t, order, ok) ==
  /\ TurnAt(t, "narrationCall")
  /\ Tell(t, IF order /\ ~ok THEN "lateNoTurnOrder" ELSE "result")
  /\ Called(t, turn[t].failed, "narration")
  /\ UNCHANGED <<schema, npcs, loose, cut>>

\* create_npc here asks for no schema.
LooseNPC(t) ==
  /\ TurnAt(t, "narrationCall")
  /\ Tell(t, "result") /\ Called(t, turn[t].failed, "narration")
  /\ npcs' = npcs \cup {t} /\ loose' = loose \cup {t}
  /\ UNCHANGED <<schema, cut>>

\* A panic is recovered and logged, nothing more.
Panic(t) ==
  /\ Running(t)
  /\ TurnGoto(t, "ended") /\ cut' = cut \cup {t}
  /\ UNCHANGED <<table, schema, npcs, loose>>

TurnRestart ==
  /\ cut' = cut \cup {t \in Turns : Running(t)}
  /\ turn' = [t \in Turns |-> IF Running(t) THEN [turn[t] EXCEPT !.pc = "ended"] ELSE turn[t]]
  /\ UNCHANGED <<table, schema, npcs, loose>>

Proceed(t) ==
  \/ MechanicsRound(t) \/ NarrationRound(t)
  \/ GetCharacterSchema(t) \/ CreateNPC(t) \/ LooseNPC(t)
  \/ \E order, ok \in BOOLEAN : MechanicsCall(t, order, ok) \/ NarrationCall(t, order, ok)

TurnNext ==
  \/ \E t \in Turns : RenderPlayerBubble(t) \/ Proceed(t) \/ Panic(t)
  \/ TurnRestart

\* A completion ends at the latest with its pass's deadline, a tool call too.
TurnFairness == \A t \in Turns : WF_turnVars(Proceed(t))

TurnSpec == TurnInit /\ [][TurnNext]_turnVars /\ TurnFairness

--------------------------------------------------------------------------------
(* Properties.                                                             *)

Phases == {"mechanics", "mechanicsCall", "narration", "narrationCall"}
Told == {"bubble", "result", "noTurnOrder", "lateNoTurnOrder", "claim", "narration", "notice"}

TurnTypeOK ==
  /\ turn \in [Turns -> [pc : Phases \cup {"none", "ended"}, round : Nat, left : 0..MaxBatch, failed : BOOLEAN]]
  /\ table \in [Turns -> Seq(Told)]
  /\ schema \subseteq Turns /\ npcs \subseteq Turns /\ loose \subseteq Turns /\ cut \subseteq Turns

Answer == {"claim", "narration", "notice"}
ToldAt(t, kinds) == {i \in DOMAIN table[t] : table[t][i] \in kinds}

\* An input that was shown to the table gets one answer, a narration or a
\* failure notice, and it comes last; only a panic or the end of the process
\* leaves it without.  The narration claims no turn order when the table saw the
\* mechanics pass fail to make one, whatever was called in between; and an NPC
\* made up without its schema is one the narration pass made, whose calls no
\* gate sees.
AnsweredOnce ==
  /\ npcs \subseteq schema \cup loose
  /\ \A t \in Turns :
       /\ \A i \in ToldAt(t, Answer) : i = Len(table[t])
       /\ TurnAt(t, "ended") /\ table[t] # <<>> /\ t \notin cut => ToldAt(t, Answer) # {}
       /\ ToldAt(t, {"claim"}) = {} \/ ToldAt(t, {"noTurnOrder"}) = {}

\* Every turn ends, whatever the model does.
TurnsEnd == \A t \in Turns : Running(t) ~> ~Running(t)
================================================================================
