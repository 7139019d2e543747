------------------------------- MODULE ClientRoll -------------------------------
(***************************************************************************)
(* One interactive roll of master/internal/server/client_roll.go.  The     *)
(* waiter is the goroutine in sendClientRollAndWait; the connections are   *)
(* the read loops that dispatch client.roll_reveal, several of which may   *)
(* belong to the roll's owner.  A step is a section under pendingRollsMu,  *)
(* or one message handed to the hub, or one channel operation.  Rolls      *)
(* have their own prompt_id and share nothing but the mutex.               *)
(***************************************************************************)
EXTENDS Naturals

CONSTANTS
  NumDice,           \* dice of the roll
  Waiter,            \* the goroutine that sent the roll
  Connections,       \* connections that may send client.roll_reveal
  OwnerConnections   \* those of them that are the character's owner's

ASSUME NumDiceAssumption == NumDice \in Nat
ASSUME ProcsAssumption == Waiter \notin Connections /\ OwnerConnections \subseteq Connections

VARIABLES
  registered,  \* the roll is in s.pendingRolls
  revealed,    \* pr.revealed
  completed,   \* pr.completed
  closes,      \* how often pr.done was closed; a second close panics
  spectated,   \* client.roll_spectate went out
  announced,   \* per die: client.roll_spectate_reveal messages
  completes,   \* client.roll_complete messages
  loc          \* per goroutine: program counter and locals

vars == <<registered, revealed, completed, closes, spectated, announced, completes, loc>>

Dice == 1 .. NumDice
Procs == Connections \cup {Waiter}

Labels == {"idle", "sendRoll", "sendSpectate", "register", "waiting", "returned",
           "mark", "announce", "finish", "selfReveal", "close"}

At(p, label) == loc[p].pc = label
Become(p, label, die, hidden) ==
  loc' = [loc EXCEPT ![p] = [pc |-> label, die |-> die, hidden |-> hidden]]
Goto(p, label) == Become(p, label, 0, {})

Init ==
  /\ registered = FALSE
  /\ revealed = {}
  /\ completed = FALSE
  /\ closes = 0
  /\ spectated = FALSE
  /\ announced = [d \in Dice |-> 0]
  /\ completes = 0
  /\ loc = [p \in Procs |->
              [pc |-> IF p = Waiter THEN "sendRoll" ELSE "idle", die |-> 0, hidden |-> {}]]

--------------------------------------------------------------------------------
(* sendClientRollAndWait.                                                  *)

\* Mutant: the roll is registered before the spectators have heard of it.
SendRegistered ==
  /\ At(Waiter, "sendRoll")
  /\ registered' = TRUE
  /\ Goto(Waiter, "sendSpectate")
  /\ UNCHANGED <<revealed, completed, closes, spectated, announced, completes>>

SendRoll ==
  /\ At(Waiter, "sendRoll")
  /\ Goto(Waiter, "sendSpectate")
  /\ UNCHANGED <<registered, revealed, completed, closes, spectated, announced, completes>>

SendSpectate ==
  /\ At(Waiter, "sendSpectate")
  /\ spectated' = TRUE
  /\ Goto(Waiter, "register")
  /\ UNCHANGED <<registered, revealed, completed, closes, announced, completes>>

RegisterPendingRoll ==
  /\ At(Waiter, "register")
  /\ registered' = TRUE
  /\ Goto(Waiter, "waiting")
  /\ UNCHANGED <<revealed, completed, closes, spectated, announced, completes>>

\* Mutant: no timer.
NeverTimeOut ==
  /\ At(Waiter, "waiting") /\ closes > 0
  /\ Goto(Waiter, "finish")
  /\ UNCHANGED <<registered, revealed, completed, closes, spectated, announced, completes>>

\* ClientRollTimeout, or the caller's context ends.
TimeOut ==
  /\ At(Waiter, "waiting")
  /\ Goto(Waiter, "finish")
  /\ UNCHANGED <<registered, revealed, completed, closes, spectated, announced, completes>>

WakeUp ==
  /\ At(Waiter, "waiting") /\ closes > 0
  /\ Goto(Waiter, "returned")
  /\ UNCHANGED <<registered, revealed, completed, closes, spectated, announced, completes>>

--------------------------------------------------------------------------------
(* handleClientRollReveal and revealDie.                                   *)

\* Mutant: any connection may reveal.
LookupForAnyone(c, d) ==
  /\ At(c, "idle") /\ registered
  /\ Become(c, "mark", d, {})
  /\ UNCHANGED <<registered, revealed, completed, closes, spectated, announced, completes>>

\* A request for die d; 0 is a die the roll does not have.  Before the roll is
\* registered and after it finished, and from anyone but the owner, a request
\* is answered with system.error and changes nothing.
LookupPendingRoll(c, d) ==
  /\ At(c, "idle") /\ registered /\ c \in OwnerConnections
  /\ Become(c, "mark", d, {})
  /\ UNCHANGED <<registered, revealed, completed, closes, spectated, announced, completes>>

\* Under the lock: refuse a die that is unknown or already revealed.
MarkRevealed(c) ==
  /\ At(c, "mark")
  /\ LET d == loc[c].die IN
     IF d \in Dice \ revealed
     THEN revealed' = revealed \cup {d} /\ Become(c, "announce", d, Dice \ (revealed \cup {d}))
     ELSE revealed' = revealed /\ Goto(c, "idle")
  /\ UNCHANGED <<registered, completed, closes, spectated, announced, completes>>

\* The reveal is broadcast after the lock is released; whoever left no die
\* hidden when it held the lock goes on to finish the roll.
AnnounceDie(c) ==
  /\ At(c, "announce")
  /\ announced' = [announced EXCEPT ![loc[c].die] = @ + 1]
  /\ Goto(c, IF loc[c].hidden = {} THEN "finish" ELSE "idle")
  /\ UNCHANGED <<registered, revealed, completed, closes, spectated, completes>>

--------------------------------------------------------------------------------
(* finishRoll, called by the waiter or by a connection.                    *)

Finished(p) == IF p = Waiter THEN "returned" ELSE "idle"

\* Mutant: the completed guard is gone.
FinishAgain(p) ==
  /\ At(p, "finish")
  /\ completed' = TRUE
  /\ revealed' = Dice
  /\ registered' = FALSE
  /\ Become(p, "selfReveal", 0, Dice \ revealed)
  /\ UNCHANGED <<closes, spectated, announced, completes>>

BeginFinish(p) ==
  /\ At(p, "finish")
  /\ IF completed
     THEN /\ Goto(p, Finished(p))
          /\ UNCHANGED <<registered, revealed, completed>>
     ELSE /\ completed' = TRUE
          /\ revealed' = Dice
          /\ registered' = FALSE
          /\ Become(p, "selfReveal", 0, Dice \ revealed)
  /\ UNCHANGED <<closes, spectated, announced, completes>>

\* The dice nobody clicked are announced in the order of the roll.
SelfReveal(p, d) ==
  /\ At(p, "selfReveal")
  /\ d \in loc[p].hidden /\ \A e \in loc[p].hidden : d <= e
  /\ announced' = [announced EXCEPT ![d] = @ + 1]
  /\ Become(p, "selfReveal", 0, loc[p].hidden \ {d})
  /\ UNCHANGED <<registered, revealed, completed, closes, spectated, completes>>

AnnounceComplete(p) ==
  /\ At(p, "selfReveal") /\ loc[p].hidden = {}
  /\ completes' = completes + 1
  /\ Goto(p, "close")
  /\ UNCHANGED <<registered, revealed, completed, closes, spectated, announced>>

CloseDone(p) ==
  /\ At(p, "close")
  /\ closes' = closes + 1
  /\ Goto(p, Finished(p))
  /\ UNCHANGED <<registered, revealed, completed, spectated, announced, completes>>

--------------------------------------------------------------------------------
FinishRoll(p) ==
  BeginFinish(p) \/ (\E d \in Dice : SelfReveal(p, d)) \/ AnnounceComplete(p) \/ CloseDone(p)

SendAndWait == SendRoll \/ SendSpectate \/ RegisterPendingRoll \/ TimeOut \/ WakeUp
Request(c) == \E d \in Dice \cup {0} : LookupPendingRoll(c, d)
Reveal(c) == MarkRevealed(c) \/ AnnounceDie(c)

Next ==
  \/ SendAndWait
  \/ \E c \in Connections : Request(c) \/ Reveal(c)
  \/ \E p \in Procs : FinishRoll(p)

Spec == Init /\ [][Next]_vars

\* Goroutines run and the timer fires; nobody has to click.
FairSpec ==
  /\ Spec
  /\ WF_vars(SendAndWait)
  /\ \A c \in Connections : WF_vars(Reveal(c))
  /\ \A p \in Procs : WF_vars(FinishRoll(p))

--------------------------------------------------------------------------------
(* Properties.                                                             *)

TypeOK ==
  /\ registered \in BOOLEAN /\ completed \in BOOLEAN /\ spectated \in BOOLEAN
  /\ revealed \subseteq Dice
  /\ closes \in Nat /\ completes \in Nat
  /\ announced \in [Dice -> Nat]
  /\ loc \in [Procs -> [pc : Labels, die : Dice \cup {0}, hidden : SUBSET Dice]]

\* The roll keeps its promise to the table (RollPromise): results are told
\* once each and only of decided dice, client.roll_complete goes out once and
\* before done is closed, done is closed once, and the caller resumes with
\* every die decided (client_roll.go:201-210, 218-303).
Promise == INSTANCE RollPromise WITH decided <- revealed, resumed <- At(Waiter, "returned")
KeepsPromise == Promise!Spec

\* A die is revealed by its owner's own request for it or by the waiter's
\* timeout, never by another player and never by a connection that finishes
\* the roll (client_roll.go:218-247, 277-283, 320-331).
OnlyOwnerOrTimeoutReveals ==
  [][ \A d \in revealed' \ revealed :
        \/ \E c \in OwnerConnections : At(c, "mark") /\ loc[c].die = d
        \/ At(Waiter, "finish") ]_revealed

\* Spectators have their ghost dice before the first result is sent to fill
\* one in (messages.go:899-904).
GhostDiceComeFirst == (\E d \in Dice : announced[d] > 0) \/ completes > 0 => spectated

\* Every roll ends, also when nobody clicks, the owner is not connected or a
\* click came before the roll was registered: the caller goes on, every die is
\* announced and the roll is completed (client_roll.go:199-210, 271-303).
RollEnds ==
  <>[] /\ At(Waiter, "returned")
       /\ \A d \in Dice : announced[d] > 0
       /\ completes > 0

================================================================================
