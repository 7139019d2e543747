-------------------------------- MODULE Creation --------------------------------
(***************************************************************************)
(* A player without a character is led through its creation               *)
(* (master/internal/server/character_creation.go) by prompts, each of      *)
(* which is answered at most once (clientmsg.go).  A session is a row of   *)
(* the map creationSessions, a prompt one of pendingPrompts with the       *)
(* session its closure holds; both maps have their own mutex, and between  *)
(* two steps of a connection's handler any other connection may take its.  *)
(* The engine's and the pregens' contents are left out; what the client    *)
(* may answer is any value.  Both maps are lost in a restart.              *)
(***************************************************************************)
EXTENDS Naturals, FiniteSets

CONSTANTS
  Sessions,     \* random session ids
  Tabs,         \* connections
  Users,
  UserOf,       \* the effective sender of each connection
  MaxPrompts    \* bound: how many prompts are ever sent

ASSUME TabsAssumption == UserOf \in [Tabs -> Users] /\ "nobody" \notin Users
ASSUME MaxPromptsAssumption == MaxPrompts \in Nat

VARIABLES
  sessions,   \* creationSessions: who started it and the stage it is at
  prompts,    \* pendingPrompts
  sent,       \* how many prompts were written; a prompt's id is its number
  tab,        \* what each connection's handler is doing
  pregens,    \* whether the Host offers pregenerated characters
  \* history
  starter,    \* who started each session
  made,       \* characters saved: the session, the owner, the status
  stranded    \* sessions whose prompt could not be written

creationVars == <<sessions, prompts, sent, tab, pregens, starter, made, stranded>>

Kinds == {"query", "choice", "ack"}
Stages == {"top_level", "import", "pregen", "engine"}
NoSession == [stage |-> "none"]
Idle == [pc |-> "idle"]

Prompt == [id : 1..MaxPrompts, session : Sessions, user : Users, kind : Kinds]

CreationInit ==
  /\ sessions = [s \in Sessions |-> NoSession]
  /\ prompts = {} /\ sent = 0
  /\ tab = [t \in Tabs |-> Idle]
  /\ pregens = FALSE
  /\ starter = [s \in Sessions |-> "nobody"]
  /\ made = {} /\ stranded = {}

--------------------------------------------------------------------------------

TabAt(t, pc) == tab[t].pc = pc
TabGoto(t, next) == tab' = [tab EXCEPT ![t] = next]

\* The handler writes the session it has in hand, which is its sender's.
SetSession(t, s, stage) == sessions' = [sessions EXCEPT ![s] = [user |-> UserOf[t], stage |-> stage]]
DeleteSession(s) == sessions' = [sessions EXCEPT ![s] = NoSession]

\* sendError: the handler is done, the session is as it was left.
GiveUp(t, s) == DeleteSession(s) /\ TabGoto(t, Idle)

\* The next prompt is about to be written.
Ask(t, s, kind) == TabGoto(t, [pc |-> "ask", session |-> s, kind |-> kind])

--------------------------------------------------------------------------------
(* Prompts.                                                                *)

\* sendClientQuery, sendClientChoice, sendClientAbilityScoreRolls: the prompt is
\* written to the socket first.  A dead socket ends the connection; the player
\* comes back on a new one, which is the same tab here.
WritePrompt(t) ==
  /\ TabAt(t, "ask") /\ sent < MaxPrompts
  /\ \/ /\ sent' = sent + 1
        /\ TabGoto(t, [pc |-> "register", id |-> sent', session |-> tab[t].session, kind |-> tab[t].kind])
        /\ UNCHANGED stranded
     \/ /\ TabGoto(t, Idle)
        /\ stranded' = stranded \cup {tab[t].session}
        /\ UNCHANGED sent
  /\ UNCHANGED <<sessions, prompts, pregens, starter, made>>

RegisterPrompt(t) ==
  /\ TabAt(t, "register")
  /\ prompts' = prompts \cup {[id |-> tab[t].id, session |-> tab[t].session, user |-> UserOf[t], kind |-> tab[t].kind]}
  /\ TabGoto(t, Idle)
  /\ UNCHANGED <<sessions, sent, pregens, starter, made, stranded>>

\* Mutant: a prompt stays until it was delivered.
ResolveKeeping(t, w) == UNCHANGED prompts

\* resolvePrompt: looked up and deleted under one lock.
ResolvePrompt(t, w) == prompts' = prompts \ {w}

Addressed(t, w, kind) == w.user = UserOf[t] /\ w.kind = kind

\* deliverPromptAnswer: any connection may answer any prompt's id.  One that is
\* not pending is refused.
DeliverPromptAnswer(t, w, kind) ==
  /\ TabAt(t, "idle") /\ w \in prompts
  /\ ResolvePrompt(t, w)
  /\ TabGoto(t, [pc |-> IF Addressed(t, w, kind) THEN "route" ELSE "putBack", prompt |-> w])
  /\ UNCHANGED <<sessions, sent, pregens, starter, made, stranded>>

\* Mutant: what was answered wrongly is gone.
PutNothingBack(t) ==
  /\ TabAt(t, "putBack")
  /\ TabGoto(t, Idle)
  /\ UNCHANGED <<sessions, prompts, sent, pregens, starter, made, stranded>>

\* Another's prompt, or the wrong kind of answer: registered again.
PutBack(t) ==
  /\ TabAt(t, "putBack")
  /\ prompts' = prompts \cup {tab[t].prompt}
  /\ TabGoto(t, Idle)
  /\ UNCHANGED <<sessions, sent, pregens, starter, made, stranded>>

--------------------------------------------------------------------------------
(* The stages.                                                             *)

\* handleCreationStart.  Without an engine and without pregens there is nothing
\* to offer.
HandleCreationStart(t, s) ==
  /\ TabAt(t, "idle") /\ starter[s] = "nobody"
  /\ starter' = [starter EXCEPT ![s] = UserOf[t]]
  /\ \/ /\ SetSession(t, s, "top_level")
        /\ Ask(t, s, "choice")
     \/ ~pregens /\ UNCHANGED <<sessions, tab>>
  /\ UNCHANGED <<prompts, sent, pregens, made, stranded>>

\* routeCreationAnswer looks the session up when the answer comes, and would
\* refuse one that is over or another's: no state gets there
\* (OneCharacterPerSession).
Owns(t, s) == sessions[s] # NoSession /\ sessions[s].user = UserOf[t]

Routed(t, stage) ==
  LET s == tab[t].prompt.session IN
  /\ TabAt(t, "route")
  /\ Owns(t, s) /\ sessions[s].stage = stage

\* The engine is asked for the first question, or there is none.
StartCreationRoll(t, s) ==
  \/ UNCHANGED sessions /\ TabGoto(t, [pc |-> "engine", session |-> s])
  \/ GiveUp(t, s)

\* import, quick_roll, detailed_roll, pregen, or nothing it knows.
HandleCreationTopLevelAnswer(t) ==
  /\ Routed(t, "top_level")
  /\ LET s == tab[t].prompt.session IN
     \/ SetSession(t, s, "import") /\ Ask(t, s, "query")
     \/ StartCreationRoll(t, s)
     \/ GiveUp(t, s)
  /\ UNCHANGED <<prompts, sent, pregens, starter, made, stranded>>

StartCreationPregenChoice(t) ==
  /\ Routed(t, "top_level")
  /\ LET s == tab[t].prompt.session IN
     \/ pregens /\ SetSession(t, s, "pregen") /\ Ask(t, s, "choice")
     \/ GiveUp(t, s)
  /\ UNCHANGED <<prompts, sent, pregens, starter, made, stranded>>

Save(t, s, status) == TabGoto(t, [pc |-> "save", session |-> s, status |-> status])

\* The session is over before the sheet is parsed.
HandleImportAnswer(t) ==
  /\ Routed(t, "import")
  /\ LET s == tab[t].prompt.session IN DeleteSession(s) /\ (Save(t, s, "pending") \/ TabGoto(t, Idle))
  /\ UNCHANGED <<prompts, sent, pregens, starter, made, stranded>>

\* A pregen the Host took away meanwhile is refused.
HandleCreationPregenAnswer(t) ==
  /\ Routed(t, "pregen")
  /\ LET s == tab[t].prompt.session IN
     DeleteSession(s) /\ ((pregens /\ Save(t, s, "approved")) \/ TabGoto(t, Idle))
  /\ UNCHANGED <<prompts, sent, pregens, starter, made, stranded>>

HandleCreationEngineAnswer(t) ==
  /\ Routed(t, "engine")
  /\ TabGoto(t, [pc |-> "engine", session |-> tab[t].prompt.session])
  /\ UNCHANGED <<sessions, prompts, sent, pregens, starter, made, stranded>>

\* The rolled abilities are shown one after the other and acknowledged.
SendCreationAbilityScoreRolls(t, s) == Ask(t, s, "ack")

\* handleCreationEngineResponse: another prompt, or the end.
HandleCreationEngineResponse(t) ==
  /\ TabAt(t, "engine")
  /\ LET s == tab[t].session IN
     \/ SetSession(t, s, "engine") /\ (SendCreationAbilityScoreRolls(t, s) \/ \E k \in Kinds \ {"ack"} : Ask(t, s, k))
     \/ DeleteSession(s) /\ Save(t, s, "approved")
     \/ GiveUp(t, s)
  /\ UNCHANGED <<prompts, sent, pregens, starter, made, stranded>>

\* finishCreationRoll, the claim of a pregen and importCharacter end with the
\* new character's row; the save may fail.
SaveNewCharacter(t) ==
  /\ TabAt(t, "save")
  /\ \/ made' = made \cup {[session |-> tab[t].session, owner |-> UserOf[t], status |-> tab[t].status, by |-> t]}
     \/ UNCHANGED made
  /\ TabGoto(t, Idle)
  /\ UNCHANGED <<sessions, prompts, sent, pregens, starter, stranded>>

\* The Host adds the first pregen or deletes the last.
ChangePregens ==
  /\ pregens' = ~pregens
  /\ UNCHANGED <<sessions, prompts, sent, tab, starter, made, stranded>>

CreationRestart ==
  /\ sessions' = [s \in Sessions |-> NoSession]
  /\ prompts' = {}
  /\ tab' = [t \in Tabs |-> Idle]
  /\ UNCHANGED <<sent, pregens, starter, made, stranded>>

TabStep(t) ==
  \/ WritePrompt(t) \/ RegisterPrompt(t) \/ PutBack(t)
  \/ HandleCreationTopLevelAnswer(t) \/ StartCreationPregenChoice(t)
  \/ HandleImportAnswer(t) \/ HandleCreationPregenAnswer(t) \/ HandleCreationEngineAnswer(t)
  \/ HandleCreationEngineResponse(t) \/ SaveNewCharacter(t)

CreationNext ==
  \/ \E t \in Tabs :
       \/ TabStep(t)
       \/ \E s \in Sessions : HandleCreationStart(t, s)
       \/ \E w \in prompts, k \in Kinds : DeliverPromptAnswer(t, w, k)
  \/ ChangePregens
  \/ CreationRestart

CreationSpec == CreationInit /\ [][CreationNext]_creationVars

--------------------------------------------------------------------------------
(* Properties.                                                             *)

Handling ==
  {Idle} \cup [pc : {"ask"}, session : Sessions, kind : Kinds]
    \cup [pc : {"register"}, id : 1..MaxPrompts, session : Sessions, kind : Kinds]
    \cup [pc : {"route", "putBack"}, prompt : Prompt]
    \cup [pc : {"engine"}, session : Sessions]
    \cup [pc : {"save"}, session : Sessions, status : {"pending", "approved"}]

CreationTypeOK ==
  /\ sessions \in [Sessions -> {NoSession} \cup [user : Users, stage : Stages]]
  /\ prompts \subseteq Prompt /\ sent \in 0..MaxPrompts
  /\ tab \in [Tabs -> Handling]
  /\ pregens \in BOOLEAN
  /\ starter \in [Sessions -> Users \cup {"nobody"}]
  /\ made \subseteq [session : Sessions, owner : Users, status : {"pending", "approved"}, by : Tabs]
  /\ stranded \subseteq Sessions

\* The session a connection has in hand.
Holds(t, s) ==
  \/ tab[t].pc \in {"ask", "register", "engine", "save"} /\ tab[t].session = s
  \/ tab[t].pc \in {"route", "putBack"} /\ tab[t].prompt.session = s

Holders(s) == {t \in Tabs : Holds(t, s)} \cup {w \in prompts : w.session = s}

\* However often and from however many connections its prompts are answered, a
\* session makes at most one character, for the player who started it: whoever's
\* answer is accepted has the session the prompt belongs to.
OneCharacterPerSession ==
  /\ \A m \in made : m.owner = starter[m.session] /\ \A n \in made : n.session = m.session => n = m
  /\ \A t \in Tabs : TabAt(t, "route") => Owns(t, tab[t].prompt.session)

\* A session that is waiting can be answered: its prompt is pending, or some
\* connection is about to ask, to put it back or to go on, unless the socket
\* died before the player saw the prompt.
SessionsStayAnswerable ==
  \A s \in Sessions : sessions[s] # NoSession /\ s \notin stranded => Holders(s) # {}
================================================================================
