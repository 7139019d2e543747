-------------------------------- MODULE EventLog --------------------------------
(***************************************************************************)
(* Everything the Master says is recorded in the event log                 *)
(* (store/sqlite.go) and sent to the connections that are registered in    *)
(* the hub; players page through the log (sendHistory), and the next       *)
(* turn's context recalls its end (recent_conversation.go).  Some of it is *)
(* for some players only: narrate_privately (knowledge_scoping.go), a new  *)
(* character's introduction (character_intro.go) and error notices.        *)
(*                                                                         *)
(* A message is made, recorded and sent in three steps, between which      *)
(* other goroutines and the players' requests run.                         *)
(***************************************************************************)
EXTENDS Naturals, FiniteSets, Sequences

CONSTANTS
  Writers,        \* goroutines that say something
  PlayerOf,       \* whose input each of them answers
  Players,
  Viewers,        \* the players who connect, each on one connection
  Characters,
  OwnerOf,
  Confidants,     \* sets of characters who are told something privately
  PageLimit,      \* events in a page of history
  ContextLimit,   \* lines of conversation a turn's context recalls
  MaxMessages,    \* bound: messages made
  MaxLosses       \* bound: messages not recorded, or lost to a full outbox

ASSUME OwnerAssumption == OwnerOf \in [Characters -> Players]
ASSUME ConfidantsAssumption == Confidants \subseteq (SUBSET Characters) \ {{}}
ASSUME PlayerOfAssumption == PlayerOf \in [Writers -> Players]
ASSUME ViewersAssumption == Viewers \subseteq Players
ASSUME PageAssumption == PageLimit \in Nat \ {0}
ASSUME ContextAssumption == ContextLimit \in Nat
ASSUME BoundsAssumption == MaxMessages \in Nat /\ MaxLosses \in Nat

VARIABLES
  said,     \* every message made; its number is its message_id
  log,      \* the event log: numbers of messages, in order of recording
  writer,
  viewer,   \* registered, and which part of the log was fetched
  seen,     \* messages each viewer was shown
  lost,     \* messages its full outbox dropped
  chars     \* characters that exist

logVars == <<said, log, writer, viewer, seen, lost, chars>>

Resting == [pc |-> "idle", id |-> 0]
Away == [on |-> FALSE, asked |-> FALSE, oldest |-> 0, newest |-> 0, more |-> FALSE]

LogInit ==
  /\ said = <<>> /\ log = <<>>
  /\ writer = [w \in Writers |-> Resting]
  /\ viewer = [v \in Viewers |-> Away]
  /\ seen = [v \in Viewers |-> {}] /\ lost = [v \in Viewers |-> {}]
  /\ chars = Characters

Ids == DOMAIN said

--------------------------------------------------------------------------------
(* Saying something.                                                       *)

\* newMessage.  scope: the characters a private message names, none when it is
\* recorded without a scope; to: the players it is sent to.
Say(w, talk, scope, to) ==
  /\ writer[w].pc = "idle" /\ Len(said) < MaxMessages
  /\ said' = Append(said, [talk |-> talk, scope |-> scope, to |-> to])
  /\ writer' = [writer EXCEPT ![w] = [pc |-> "record", id |-> Len(said')]]
  /\ UNCHANGED <<log, viewer, seen, lost, chars>>

\* A bubble or the DM's narration; a tool.result is not recalled but goes the
\* same way.
SendClientDisplay(w) == Say(w, TRUE, {}, Players)

\* sendSlowPassFailureNotice: for one player, recorded without a scope.
SendFailureNotice(w) == Say(w, FALSE, {}, {PlayerOf[w]})

\* dmNarratePrivately: to the owners of characters that exist.
DmNarratePrivately(w, scope) ==
  /\ scope \subseteq chars
  /\ Say(w, TRUE, scope, {OwnerOf[c] : c \in scope})

\* sendCharacterIntro, once the model has settled on a text.
SendCharacterIntro(w) == \E c \in chars : {c} \in Confidants /\ DmNarratePrivately(w, {c})

Unrecorded == {e \in Ids : \A i \in DOMAIN log : log[i] # e} \ {writer[w].id : w \in {u \in Writers : writer[u].pc = "record"}}
Losses == Cardinality(Unrecorded) + Cardinality(UNION {lost[v] : v \in Viewers})

\* recordEvent: a failure to write is logged and ignored.
RecordEvent(w) ==
  /\ writer[w].pc = "record"
  /\ \/ log' = Append(log, writer[w].id)
     \/ Losses < MaxLosses /\ UNCHANGED log
  /\ writer' = [writer EXCEPT ![w].pc = "send"]
  /\ UNCHANGED <<said, viewer, seen, lost, chars>>

\* broadcastMessage, sendToSender: whoever is registered; a full outbox drops.
Send(w) ==
  /\ writer[w].pc = "send"
  /\ LET e == writer[w].id
         here == {v \in said[e].to \cap Viewers : viewer[v].on}
     IN \E dropped \in SUBSET here :
          /\ Losses + Cardinality(dropped) <= MaxLosses \/ dropped = {}
          /\ seen' = [v \in Viewers |-> IF v \in here \ dropped THEN seen[v] \cup {e} ELSE seen[v]]
          /\ lost' = [v \in Viewers |-> IF v \in dropped THEN lost[v] \cup {e} ELSE lost[v]]
  /\ writer' = [writer EXCEPT ![w] = Resting]
  /\ UNCHANGED <<said, log, viewer, chars>>

--------------------------------------------------------------------------------
(* A turn's context.                                                       *)

\* recentConversationContextText leaves out what was private, or no talk.
Recalled(i) == said[log[i]].talk /\ said[log[i]].scope = {}

RecentConversation ==
  {log[i] : i \in {j \in DOMAIN log : Recalled(j) /\ Cardinality({k \in DOMAIN log : k > j /\ Recalled(k)}) < ContextLimit}}

--------------------------------------------------------------------------------
(* The players' connections.                                               *)

\* A connection registers in the hub before it reads its first request; what
\* the page showed before it was reloaded is forgotten.
Join(v) ==
  /\ ~viewer[v].on
  /\ viewer' = [viewer EXCEPT ![v] = [Away EXCEPT !.on = TRUE]]
  /\ seen' = [seen EXCEPT ![v] = {}] /\ lost' = [lost EXCEPT ![v] = {}]
  /\ UNCHANGED <<said, log, writer, chars>>

Leave(v) ==
  /\ viewer[v].on
  /\ viewer' = [viewer EXCEPT ![v] = Away]
  /\ seen' = [seen EXCEPT ![v] = {}] /\ lost' = [lost EXCEPT ![v] = {}]
  /\ UNCHANGED <<said, log, writer, chars>>

\* Mutant: whatever is in the log is shown.
VisibleToAll(v, e) == e \in Ids

\* eventVisibleTo: a private event, to the owner of a character it names that
\* can still be looked up.
EventVisibleTo(v, e) == said[e].scope = {} \/ \E c \in said[e].scope : c \in chars /\ OwnerOf[c] = v

\* Positions from..to of the log are shown to v, as far as it may see them.
Show(v, from, to) ==
  seen' = [seen EXCEPT ![v] = @ \cup {log[i] : i \in {j \in from..to : EventVisibleTo(v, log[j])}}]

\* Mutant: the page's cursor skips an event.
ListBackwardOffByOne(before) == [to |-> before - 2, from |-> IF before > PageLimit + 1 THEN before - PageLimit - 1 ELSE 1]

\* listBackward: the events before a position that are nearest to it.
ListBackward(before) == [to |-> before - 1, from |-> IF before > PageLimit THEN before - PageLimit ELSE 1]

PageTo(after) == IF after + PageLimit < Len(log) THEN after + PageLimit ELSE Len(log)

\* The response: the page's first and last position are the cursors, and an
\* empty page has none.
ShowPage(v, page, newest) ==
  IF page.from > page.to THEN UNCHANGED seen /\ viewer' = [viewer EXCEPT ![v].asked = TRUE, ![v].more = FALSE]
  ELSE /\ Show(v, page.from, page.to)
       /\ viewer' = [viewer EXCEPT ![v] =
            [@ EXCEPT !.asked = TRUE, !.oldest = page.from, !.newest = newest, !.more = page.from > 1]]

\* sendHistory without a cursor: the end of the log.
RequestTail(v) ==
  /\ viewer[v].on
  /\ ShowPage(v, ListBackward(Len(log) + 1), Len(log))
  /\ UNCHANGED <<said, log, writer, lost, chars>>

RequestEarlier(v) ==
  /\ viewer[v].on /\ viewer[v].oldest > 0
  /\ ShowPage(v, ListBackward(viewer[v].oldest), viewer[v].newest)
  /\ UNCHANGED <<said, log, writer, lost, chars>>

\* What came after the last position the player knows.
RequestLater(v) ==
  /\ viewer[v].on /\ viewer[v].newest > 0
  /\ LET to == PageTo(viewer[v].newest) IN
     /\ Show(v, viewer[v].newest + 1, to)
     /\ viewer' = [viewer EXCEPT ![v].newest = to]
  /\ UNCHANGED <<said, log, writer, lost, chars>>

\* The Host deletes a character.
DeleteCharacter(c) ==
  /\ c \in chars
  /\ chars' = chars \ {c}
  /\ UNCHANGED <<said, log, writer, viewer, seen, lost>>

\* The log survives; goroutines and connections do not.
LogRestart ==
  /\ writer' = [w \in Writers |-> Resting]
  /\ viewer' = [v \in Viewers |-> Away]
  /\ seen' = [v \in Viewers |-> {}] /\ lost' = [v \in Viewers |-> {}]
  /\ UNCHANGED <<said, log, chars>>

WriterStep(w) ==
  \/ SendClientDisplay(w) \/ SendFailureNotice(w)
  \/ \E scope \in Confidants : DmNarratePrivately(w, scope)
  \/ SendCharacterIntro(w)
  \/ RecordEvent(w) \/ Send(w)

ViewerStep(v) == Join(v) \/ Leave(v) \/ RequestTail(v) \/ RequestEarlier(v) \/ RequestLater(v)

LogNext ==
  \/ \E w \in Writers : WriterStep(w)
  \/ \E v \in Viewers : ViewerStep(v)
  \/ \E c \in Characters : DeleteCharacter(c)
  \/ LogRestart

LogSpec == LogInit /\ [][LogNext]_logVars

--------------------------------------------------------------------------------
(* Properties.                                                             *)

LogTypeOK ==
  /\ said \in Seq([talk : BOOLEAN, scope : SUBSET Characters, to : SUBSET Players])
  /\ log \in Seq(Ids)
  /\ writer \in [Writers -> {Resting} \cup [pc : {"record", "send"}, id : Ids]]
  /\ viewer \in [Viewers -> [on : BOOLEAN, asked : BOOLEAN, oldest : Nat, newest : Nat, more : BOOLEAN]]
  /\ seen \in [Viewers -> SUBSET Ids] /\ lost \in [Viewers -> SUBSET Ids]
  /\ chars \subseteq Characters

\* What is told to some characters' players reaches nobody else, live or in any
\* page of the history; and what a later turn's context recalls, for a narration
\* that everybody will read, had been sent to everybody.
PrivateStaysPrivate ==
  /\ \A v \in Viewers : \A e \in seen[v] : said[e].scope = {} \/ \E c \in said[e].scope : OwnerOf[c] = v
  /\ \A e \in RecentConversation : said[e].to = Players

OnItsWay(e) == \E w \in Writers : writer[w].pc = "send" /\ writer[w].id = e

\* A player who came while messages were being made has each recorded one that
\* he may see: those of the pages he fetched, and every later one live, unless
\* his outbox dropped it; and when no earlier page is left he is at the start.
NothingMissed ==
  \A v \in Viewers : viewer[v].asked =>
    /\ \A i \in DOMAIN log : EventVisibleTo(v, log[i]) =>
         /\ i \in viewer[v].oldest..viewer[v].newest => log[i] \in seen[v]
         /\ i > viewer[v].newest /\ v \in said[log[i]].to =>
              log[i] \in seen[v] \cup lost[v] \/ OnItsWay(log[i])
    /\ viewer[v].more \/ viewer[v].oldest <= 1
================================================================================
