---------------------------- MODULE ClientRollProofs ----------------------------
(* Proofs about ClientRoll: for any number of dice and of connections the  *)
(* roll keeps its promise, and only its owner or the timeout reveals.      *)
EXTENDS ClientRoll, TLAPS

\* The goroutine p has still to announce die d.
Owes(p, d) ==
  \/ At(p, "announce") /\ loc[p].die = d
  \/ At(p, "selfReveal") /\ d \in loc[p].hidden

Finishing(p) == At(p, "selfReveal") \/ At(p, "close")

\* Every revealed die was announced once or is owed by one goroutine.
AnnouncedOnce ==
  /\ \A p \in Procs, d \in Dice : Owes(p, d) => d \in revealed /\ announced[d] = 0
  /\ \A p, q \in Procs, d \in Dice : Owes(p, d) /\ Owes(q, d) => p = q
  /\ \A d \in Dice : announced[d] = 0 \/ (announced[d] = 1 /\ d \in revealed)

\* One goroutine at most is past the completed guard of finishRoll.
FinishedOnce ==
  /\ \A p \in Procs : Finishing(p) => completed /\ closes = 0
  /\ \A p, q \in Procs : Finishing(p) /\ Finishing(q) => p = q
  /\ \A p \in Procs : At(p, "selfReveal") => completes = 0
  /\ \A p \in Procs : At(p, "close") => completes = 1
  /\ completed => revealed = Dice
  /\ ~completed => completes = 0 /\ closes = 0
  /\ closes > 0 => completed

\* A connection announces a die of the roll, and goes on to finishRoll only
\* when no die is hidden.
ConnectionsFinishLast ==
  \A c \in Connections :
    /\ At(c, "finish") => revealed = Dice
    /\ At(c, "announce") => loc[c].die \in Dice
    /\ At(c, "announce") /\ loc[c].hidden = {} => revealed = Dice

\* The waiter and the connections have labels of their own, and only an
\* owner's connection gets past the lookup.
OwnLabels ==
  /\ loc[Waiter].pc \in {"sendRoll", "sendSpectate", "register", "waiting", "returned",
                         "finish", "selfReveal", "close"}
  /\ \A c \in Connections :
       /\ loc[c].pc \in {"idle", "mark", "announce", "finish", "selfReveal", "close"}
       /\ c \notin OwnerConnections => At(c, "idle")

\* Nothing happens before the spectators have their ghost dice.
QuietBefore ==
  ~spectated =>
    /\ ~registered /\ completes = 0
    /\ \A d \in Dice : announced[d] = 0
    /\ At(Waiter, "sendRoll") \/ At(Waiter, "sendSpectate")
    /\ \A c \in Connections : At(c, "idle")

IInv ==
  /\ TypeOK /\ AnnouncedOnce /\ FinishedOnce /\ ConnectionsFinishLast /\ OwnLabels /\ QuietBefore

--------------------------------------------------------------------------------
\* The goroutine p moves to label l with locals d and h; the others stay.
Moves(p, l, d, h) ==
  /\ loc' \in [Procs -> [pc : Labels, die : Dice \cup {0}, hidden : SUBSET Dice]]
  /\ loc'[p].pc = l /\ loc'[p].die = d /\ loc'[p].hidden = h
  /\ \A q \in Procs : q # p => loc'[q] = loc[q]

\* A goroutine that moves takes its new label and locals, the others stay.
LEMMA BecomeFacts ==
  ASSUME TypeOK, NEW p \in Procs, NEW l \in Labels, NEW d \in Dice \cup {0},
         NEW h \in SUBSET Dice, Become(p, l, d, h)
  PROVE  Moves(p, l, d, h)
  BY DEF TypeOK, Become, Moves

LEMMA GotoFacts ==
  ASSUME TypeOK, NEW p \in Procs, NEW l \in Labels, Goto(p, l)
  PROVE  Moves(p, l, 0, {})
  <1>1. Become(p, l, 0, {})
    BY DEF Goto
  <1> QED BY <1>1, BecomeFacts

LEMMA ProcsFacts ==
  /\ Waiter \in Procs /\ Waiter \notin Connections /\ OwnerConnections \subseteq Connections
  /\ Connections \subseteq Procs
  /\ \A p \in Procs : p = Waiter \/ p \in Connections
  BY ProcsAssumption DEF Procs

\* A step outside finishRoll.
LEMMA FinishedStays ==
  ASSUME IInv, NEW p \in Procs, NEW l, NEW d, NEW h, Moves(p, l, d, h),
         l \notin {"selfReveal", "close"},
         revealed \subseteq revealed', revealed' \subseteq Dice,
         UNCHANGED <<completed, closes, completes>>
  PROVE  FinishedOnce'
  <1>1. \A q \in Procs : Finishing(q)' => Finishing(q) /\ loc'[q] = loc[q]
    BY DEF Finishing, Moves, At
  <1>2. completed => revealed' = Dice
    BY DEF IInv, FinishedOnce, TypeOK
  <1> QED BY <1>1, <1>2 DEF IInv, FinishedOnce, Finishing, At

\* SendRoll preserves the invariant.
LEMMA SendRollKeeps ==
  ASSUME IInv, SendRoll
  PROVE  IInv'
  <1> USE ProcsFacts
  <1>1. Moves(Waiter, "sendSpectate", 0, {})
    BY GotoFacts DEF SendRoll, IInv, Labels
  <1>2. TypeOK'
    BY <1>1 DEF IInv, TypeOK, SendRoll, Moves, At
  <1>3. AnnouncedOnce'
    BY <1>1 DEF IInv, TypeOK, AnnouncedOnce, QuietBefore, Owes, SendRoll, Moves, At
  <1>4. FinishedOnce'
    BY <1>1, FinishedStays DEF IInv, TypeOK, SendRoll
  <1>5. ConnectionsFinishLast'
    BY <1>1 DEF IInv, TypeOK, FinishedOnce, ConnectionsFinishLast, SendRoll, Moves, At
  <1>6. OwnLabels'
    BY <1>1 DEF IInv, OwnLabels, SendRoll, Moves, At
  <1>7. QuietBefore'
    BY <1>1 DEF IInv, TypeOK, QuietBefore, OwnLabels, AnnouncedOnce, SendRoll, Moves, At
  <1> QED BY <1>2, <1>3, <1>4, <1>5, <1>6, <1>7 DEF IInv

\* SendSpectate preserves the invariant.
LEMMA SendSpectateKeeps ==
  ASSUME IInv, SendSpectate
  PROVE  IInv'
  <1> USE ProcsFacts
  <1>1. Moves(Waiter, "register", 0, {})
    BY GotoFacts DEF SendSpectate, IInv, Labels
  <1>2. TypeOK'
    BY <1>1 DEF IInv, TypeOK, SendSpectate, Moves, At
  <1>3. AnnouncedOnce'
    BY <1>1 DEF IInv, TypeOK, AnnouncedOnce, QuietBefore, Owes, SendSpectate, Moves, At
  <1>4. FinishedOnce'
    BY <1>1, FinishedStays DEF IInv, TypeOK, SendSpectate
  <1>5. ConnectionsFinishLast'
    BY <1>1 DEF IInv, TypeOK, FinishedOnce, ConnectionsFinishLast, SendSpectate, Moves, At
  <1>6. OwnLabels'
    BY <1>1 DEF IInv, OwnLabels, SendSpectate, Moves, At
  <1>7. QuietBefore'
    BY <1>1 DEF IInv, TypeOK, QuietBefore, OwnLabels, AnnouncedOnce, SendSpectate, Moves, At
  <1> QED BY <1>2, <1>3, <1>4, <1>5, <1>6, <1>7 DEF IInv

\* RegisterPendingRoll preserves the invariant.
LEMMA RegisterPendingRollKeeps ==
  ASSUME IInv, RegisterPendingRoll
  PROVE  IInv'
  <1> USE ProcsFacts
  <1>1. Moves(Waiter, "waiting", 0, {})
    BY GotoFacts DEF RegisterPendingRoll, IInv, Labels
  <1>2. TypeOK'
    BY <1>1 DEF IInv, TypeOK, RegisterPendingRoll, Moves, At
  <1>3. AnnouncedOnce'
    BY <1>1 DEF IInv, TypeOK, AnnouncedOnce, QuietBefore, Owes, RegisterPendingRoll, Moves, At
  <1>4. FinishedOnce'
    BY <1>1, FinishedStays DEF IInv, TypeOK, RegisterPendingRoll
  <1>5. ConnectionsFinishLast'
    BY <1>1 DEF IInv, TypeOK, FinishedOnce, ConnectionsFinishLast, RegisterPendingRoll, Moves, At
  <1>6. OwnLabels'
    BY <1>1 DEF IInv, OwnLabels, RegisterPendingRoll, Moves, At
  <1>7. QuietBefore'
    BY <1>1 DEF IInv, TypeOK, QuietBefore, OwnLabels, AnnouncedOnce, RegisterPendingRoll, Moves, At
  <1> QED BY <1>2, <1>3, <1>4, <1>5, <1>6, <1>7 DEF IInv

\* TimeOut preserves the invariant.
LEMMA TimeOutKeeps ==
  ASSUME IInv, TimeOut
  PROVE  IInv'
  <1> USE ProcsFacts
  <1>1. Moves(Waiter, "finish", 0, {})
    BY GotoFacts DEF TimeOut, IInv, Labels
  <1>2. TypeOK'
    BY <1>1 DEF IInv, TypeOK, TimeOut, Moves, At
  <1>3. AnnouncedOnce'
    BY <1>1 DEF IInv, TypeOK, AnnouncedOnce, QuietBefore, Owes, TimeOut, Moves, At
  <1>4. FinishedOnce'
    BY <1>1, FinishedStays DEF IInv, TypeOK, TimeOut
  <1>5. ConnectionsFinishLast'
    BY <1>1 DEF IInv, TypeOK, FinishedOnce, ConnectionsFinishLast, TimeOut, Moves, At
  <1>6. OwnLabels'
    BY <1>1 DEF IInv, OwnLabels, TimeOut, Moves, At
  <1>7. QuietBefore'
    BY <1>1 DEF IInv, TypeOK, QuietBefore, OwnLabels, AnnouncedOnce, TimeOut, Moves, At
  <1> QED BY <1>2, <1>3, <1>4, <1>5, <1>6, <1>7 DEF IInv

\* WakeUp preserves the invariant.
LEMMA WakeUpKeeps ==
  ASSUME IInv, WakeUp
  PROVE  IInv'
  <1> USE ProcsFacts
  <1>1. Moves(Waiter, "returned", 0, {})
    BY GotoFacts DEF WakeUp, IInv, Labels
  <1>2. TypeOK'
    BY <1>1 DEF IInv, TypeOK, WakeUp, Moves, At
  <1>3. AnnouncedOnce'
    BY <1>1 DEF IInv, TypeOK, AnnouncedOnce, QuietBefore, Owes, WakeUp, Moves, At
  <1>4. FinishedOnce'
    BY <1>1, FinishedStays DEF IInv, TypeOK, WakeUp
  <1>5. ConnectionsFinishLast'
    BY <1>1 DEF IInv, TypeOK, FinishedOnce, ConnectionsFinishLast, WakeUp, Moves, At
  <1>6. OwnLabels'
    BY <1>1 DEF IInv, OwnLabels, WakeUp, Moves, At
  <1>7. QuietBefore'
    BY <1>1 DEF IInv, TypeOK, QuietBefore, OwnLabels, AnnouncedOnce, WakeUp, Moves, At
  <1> QED BY <1>2, <1>3, <1>4, <1>5, <1>6, <1>7 DEF IInv

\* A request for a die preserves the invariant.
LEMMA LookupPendingRollKeeps ==
  ASSUME IInv, NEW c \in Connections, NEW d \in Dice \cup {0}, LookupPendingRoll(c, d)
  PROVE  IInv'
  <1> USE ProcsFacts
  <1>1. Moves(c, "mark", d, {})
    BY BecomeFacts DEF LookupPendingRoll, IInv, Labels
  <1>2. TypeOK'
    BY <1>1 DEF IInv, TypeOK, LookupPendingRoll, Moves, At
  <1>3. AnnouncedOnce'
    BY <1>1 DEF IInv, TypeOK, AnnouncedOnce, QuietBefore, Owes, LookupPendingRoll, Moves, At
  <1>4. FinishedOnce'
    BY <1>1, FinishedStays DEF IInv, TypeOK, LookupPendingRoll
  <1>5. ConnectionsFinishLast'
    BY <1>1 DEF IInv, TypeOK, FinishedOnce, ConnectionsFinishLast, LookupPendingRoll, Moves, At
  <1>6. OwnLabels'
    BY <1>1 DEF IInv, OwnLabels, LookupPendingRoll, Moves, At
  <1>7. QuietBefore'
    BY <1>1 DEF IInv, TypeOK, QuietBefore, OwnLabels, AnnouncedOnce, LookupPendingRoll, Moves, At
  <1> QED BY <1>2, <1>3, <1>4, <1>5, <1>6, <1>7 DEF IInv

\* A request for a die that is unknown or revealed preserves the invariant.
LEMMA MarkRefusedKeeps ==
  ASSUME IInv, NEW c \in Connections, loc[c].die \notin Dice \ revealed, MarkRevealed(c)
  PROVE  IInv'
  <1> USE ProcsFacts
  <1>1. Moves(c, "idle", 0, {}) /\ revealed' = revealed
    BY GotoFacts DEF MarkRevealed, IInv, Labels
  <1>2. TypeOK'
    BY <1>1 DEF IInv, TypeOK, MarkRevealed, Moves, At
  <1>3. AnnouncedOnce'
    BY <1>1 DEF IInv, TypeOK, AnnouncedOnce, QuietBefore, Owes, MarkRevealed, Moves, At
  <1>4. FinishedOnce'
    BY <1>1, FinishedStays DEF IInv, TypeOK, MarkRevealed
  <1>5. ConnectionsFinishLast'
    BY <1>1 DEF IInv, TypeOK, FinishedOnce, ConnectionsFinishLast, MarkRevealed, Moves, At
  <1>6. OwnLabels'
    BY <1>1 DEF IInv, OwnLabels, MarkRevealed, Moves, At
  <1>7. QuietBefore'
    BY <1>1 DEF IInv, TypeOK, QuietBefore, OwnLabels, AnnouncedOnce, MarkRevealed, Moves, At
  <1> QED BY <1>2, <1>3, <1>4, <1>5, <1>6, <1>7 DEF IInv

\* Revealing a hidden die preserves the invariant.
LEMMA MarkHiddenKeeps ==
  ASSUME IInv, NEW c \in Connections, loc[c].die \in Dice \ revealed, MarkRevealed(c)
  PROVE  IInv'
  <1> USE ProcsFacts
  <1>1. /\ Moves(c, "announce", loc[c].die, Dice \ (revealed \cup {loc[c].die}))
       /\ revealed' = revealed \cup {loc[c].die}
    BY BecomeFacts DEF MarkRevealed, IInv, Labels
  <1>2. TypeOK'
    BY <1>1 DEF IInv, TypeOK, MarkRevealed, Moves, At
  <1>3. AnnouncedOnce'
    BY <1>1, SMTT(30) DEF IInv, TypeOK, AnnouncedOnce, QuietBefore, Owes, MarkRevealed, Moves, At
  <1>4. FinishedOnce'
    BY <1>1, FinishedStays DEF IInv, TypeOK, MarkRevealed
  <1>5. ConnectionsFinishLast'
    BY <1>1 DEF IInv, TypeOK, FinishedOnce, ConnectionsFinishLast, MarkRevealed, Moves, At
  <1>6. OwnLabels'
    BY <1>1 DEF IInv, OwnLabels, MarkRevealed, Moves, At
  <1>7. QuietBefore'
    BY <1>1 DEF IInv, TypeOK, QuietBefore, OwnLabels, AnnouncedOnce, MarkRevealed, Moves, At
  <1> QED BY <1>2, <1>3, <1>4, <1>5, <1>6, <1>7 DEF IInv

\* Announcing the last die preserves the invariant.
LEMMA AnnounceLastKeeps ==
  ASSUME IInv, NEW c \in Connections, loc[c].hidden = {}, AnnounceDie(c)
  PROVE  IInv'
  <1> USE ProcsFacts
  <1>1. Moves(c, "finish", 0, {})
    BY GotoFacts DEF AnnounceDie, IInv, Labels
  <1>2. loc[c].die \in Dice
    BY DEF AnnounceDie, IInv, ConnectionsFinishLast
  <1>3. announced[loc[c].die] = 0 /\ loc[c].die \in revealed
    BY <1>2 DEF AnnounceDie, IInv, AnnouncedOnce, Owes
  <1>4. announced' = [announced EXCEPT ![loc[c].die] = 1]
    BY <1>3 DEF AnnounceDie
  <1>5. \A q \in Procs, e \in Dice : Owes(q, e)' => Owes(q, e) /\ e # loc[c].die
    BY <1>1, <1>2, <1>3, <1>4 DEF IInv, TypeOK, AnnouncedOnce, Owes, AnnounceDie, Moves, At
  <1>6. TypeOK'
    BY <1>1, <1>2, <1>3, <1>4 DEF IInv, TypeOK, AnnounceDie, Moves, At
  <1>7. AnnouncedOnce'
    BY <1>1, <1>2, <1>3, <1>4, <1>5 DEF IInv, TypeOK, AnnouncedOnce, AnnounceDie
  <1>8. FinishedOnce'
    BY <1>1, <1>2, <1>3, <1>4, FinishedStays DEF IInv, TypeOK, AnnounceDie
  <1>9. ConnectionsFinishLast'
    BY <1>1, <1>2, <1>3, <1>4 DEF IInv, TypeOK, FinishedOnce, ConnectionsFinishLast, AnnounceDie, Moves, At
  <1>10. OwnLabels'
    BY <1>1, <1>2, <1>3, <1>4 DEF IInv, OwnLabels, AnnounceDie, Moves, At
  <1>11. QuietBefore'
    BY <1>1, <1>2, <1>3, <1>4 DEF IInv, TypeOK, QuietBefore, OwnLabels, AnnouncedOnce, AnnounceDie, Moves, At
  <1> QED BY <1>6, <1>7, <1>8, <1>9, <1>10, <1>11 DEF IInv

\* Announcing any other die preserves the invariant.
LEMMA AnnounceDieKeeps ==
  ASSUME IInv, NEW c \in Connections, loc[c].hidden # {}, AnnounceDie(c)
  PROVE  IInv'
  <1> USE ProcsFacts
  <1>1. Moves(c, "idle", 0, {})
    BY GotoFacts DEF AnnounceDie, IInv, Labels
  <1>2. loc[c].die \in Dice
    BY DEF AnnounceDie, IInv, ConnectionsFinishLast
  <1>3. announced[loc[c].die] = 0 /\ loc[c].die \in revealed
    BY <1>2 DEF AnnounceDie, IInv, AnnouncedOnce, Owes
  <1>4. announced' = [announced EXCEPT ![loc[c].die] = 1]
    BY <1>3 DEF AnnounceDie
  <1>5. \A q \in Procs, e \in Dice : Owes(q, e)' => Owes(q, e) /\ e # loc[c].die
    BY <1>1, <1>2, <1>3, <1>4 DEF IInv, TypeOK, AnnouncedOnce, Owes, AnnounceDie, Moves, At
  <1>6. TypeOK'
    BY <1>1, <1>2, <1>3, <1>4 DEF IInv, TypeOK, AnnounceDie, Moves, At
  <1>7. AnnouncedOnce'
    BY <1>1, <1>2, <1>3, <1>4, <1>5 DEF IInv, TypeOK, AnnouncedOnce, AnnounceDie
  <1>8. FinishedOnce'
    BY <1>1, <1>2, <1>3, <1>4, FinishedStays DEF IInv, TypeOK, AnnounceDie
  <1>9. ConnectionsFinishLast'
    BY <1>1, <1>2, <1>3, <1>4 DEF IInv, TypeOK, FinishedOnce, ConnectionsFinishLast, AnnounceDie, Moves, At
  <1>10. OwnLabels'
    BY <1>1, <1>2, <1>3, <1>4 DEF IInv, OwnLabels, AnnounceDie, Moves, At
  <1>11. QuietBefore'
    BY <1>1, <1>2, <1>3, <1>4 DEF IInv, TypeOK, QuietBefore, OwnLabels, AnnouncedOnce, AnnounceDie, Moves, At
  <1> QED BY <1>6, <1>7, <1>8, <1>9, <1>10, <1>11 DEF IInv

\* A second finishRoll preserves the invariant.
LEMMA SecondFinishKeeps ==
  ASSUME IInv, NEW p \in Procs, completed, BeginFinish(p)
  PROVE  IInv'
  <1> USE ProcsFacts
  <1>1. /\ Moves(p, Finished(p), 0, {}) /\ Finished(p) = IF p = Waiter THEN "returned" ELSE "idle"
       /\ UNCHANGED <<registered, revealed, completed>>
    BY GotoFacts DEF BeginFinish, Finished, IInv, Labels
  <1>2. TypeOK'
    BY <1>1 DEF IInv, TypeOK, BeginFinish, Moves, At
  <1>3. AnnouncedOnce'
    BY <1>1 DEF IInv, TypeOK, AnnouncedOnce, QuietBefore, Owes, BeginFinish, Moves, At
  <1>4. FinishedOnce'
    BY <1>1 DEF IInv, TypeOK, FinishedOnce, Finishing, BeginFinish, Moves, At
  <1>5. ConnectionsFinishLast'
    BY <1>1 DEF IInv, TypeOK, FinishedOnce, ConnectionsFinishLast, BeginFinish, Moves, At
  <1>6. OwnLabels'
    BY <1>1 DEF IInv, OwnLabels, BeginFinish, Moves, At
  <1>7. QuietBefore'
    BY <1>1 DEF IInv, TypeOK, QuietBefore, OwnLabels, AnnouncedOnce, BeginFinish, Moves, At
  <1> QED BY <1>2, <1>3, <1>4, <1>5, <1>6, <1>7 DEF IInv

\* The first finishRoll preserves the invariant.
LEMMA FirstFinishKeeps ==
  ASSUME IInv, NEW p \in Procs, ~completed, BeginFinish(p)
  PROVE  IInv'
  <1> USE ProcsFacts
  <1>1. /\ Moves(p, "selfReveal", 0, Dice \ revealed)
       /\ completed' = TRUE /\ revealed' = Dice /\ registered' = FALSE
    BY BecomeFacts DEF BeginFinish, IInv, Labels
  <1>2. TypeOK'
    BY <1>1 DEF IInv, TypeOK, BeginFinish, Moves, At
  <1>3. AnnouncedOnce'
    BY <1>1 DEF IInv, TypeOK, AnnouncedOnce, QuietBefore, Owes, BeginFinish, Moves, At
  <1>4. FinishedOnce'
    BY <1>1 DEF IInv, TypeOK, FinishedOnce, Finishing, BeginFinish, Moves, At
  <1>5. ConnectionsFinishLast'
    BY <1>1 DEF IInv, TypeOK, FinishedOnce, ConnectionsFinishLast, BeginFinish, Moves, At
  <1>6. OwnLabels'
    BY <1>1 DEF IInv, OwnLabels, BeginFinish, Moves, At
  <1>7. QuietBefore'
    BY <1>1 DEF IInv, TypeOK, QuietBefore, OwnLabels, AnnouncedOnce, BeginFinish, Moves, At
  <1> QED BY <1>2, <1>3, <1>4, <1>5, <1>6, <1>7 DEF IInv

\* Announcing a die nobody clicked preserves the invariant.
LEMMA SelfRevealKeeps ==
  ASSUME IInv, NEW p \in Procs, NEW d \in Dice, SelfReveal(p, d)
  PROVE  IInv'
  <1> USE ProcsFacts
  <1>1. Moves(p, "selfReveal", 0, loc[p].hidden \ {d})
    BY BecomeFacts DEF SelfReveal, IInv, TypeOK, Labels
  <1>2. announced[d] = 0 /\ d \in revealed
    BY DEF SelfReveal, IInv, AnnouncedOnce, Owes
  <1>3. announced' = [announced EXCEPT ![d] = 1]
    BY <1>2 DEF SelfReveal
  <1>4. \A q \in Procs, e \in Dice : Owes(q, e)' => Owes(q, e) /\ e # d
    BY <1>1, <1>2, <1>3 DEF IInv, TypeOK, AnnouncedOnce, Owes, SelfReveal, Moves, At
  <1>5. TypeOK'
    BY <1>1, <1>2, <1>3 DEF IInv, TypeOK, SelfReveal, Moves, At
  <1>6. AnnouncedOnce'
    BY <1>1, <1>2, <1>3, <1>4 DEF IInv, TypeOK, AnnouncedOnce, SelfReveal
  <1>7. FinishedOnce'
    BY <1>1, <1>2, <1>3 DEF IInv, TypeOK, FinishedOnce, Finishing, SelfReveal, Moves, At
  <1>8. ConnectionsFinishLast'
    BY <1>1, <1>2, <1>3 DEF IInv, TypeOK, FinishedOnce, ConnectionsFinishLast, SelfReveal, Moves, At
  <1>9. OwnLabels'
    BY <1>1, <1>2, <1>3 DEF IInv, OwnLabels, SelfReveal, Moves, At
  <1>10. QuietBefore'
    BY <1>1, <1>2, <1>3 DEF IInv, TypeOK, QuietBefore, OwnLabels, AnnouncedOnce, SelfReveal, Moves, At
  <1> QED BY <1>5, <1>6, <1>7, <1>8, <1>9, <1>10 DEF IInv

\* Completing the roll preserves the invariant.
LEMMA AnnounceCompleteKeeps ==
  ASSUME IInv, NEW p \in Procs, AnnounceComplete(p)
  PROVE  IInv'
  <1> USE ProcsFacts
  <1>1. Moves(p, "close", 0, {})
    BY GotoFacts DEF AnnounceComplete, IInv, Labels
  <1>2. TypeOK'
    BY <1>1 DEF IInv, TypeOK, AnnounceComplete, Moves, At
  <1>3. AnnouncedOnce'
    BY <1>1 DEF IInv, TypeOK, AnnouncedOnce, QuietBefore, Owes, AnnounceComplete, Moves, At
  <1>4. FinishedOnce'
    BY <1>1 DEF IInv, TypeOK, FinishedOnce, Finishing, AnnounceComplete, Moves, At
  <1>5. ConnectionsFinishLast'
    BY <1>1 DEF IInv, TypeOK, FinishedOnce, ConnectionsFinishLast, AnnounceComplete, Moves, At
  <1>6. OwnLabels'
    BY <1>1 DEF IInv, OwnLabels, AnnounceComplete, Moves, At
  <1>7. QuietBefore'
    BY <1>1 DEF IInv, TypeOK, QuietBefore, OwnLabels, AnnouncedOnce, AnnounceComplete, Moves, At
  <1> QED BY <1>2, <1>3, <1>4, <1>5, <1>6, <1>7 DEF IInv

\* Closing the channel preserves the invariant.
LEMMA CloseDoneKeeps ==
  ASSUME IInv, NEW p \in Procs, CloseDone(p)
  PROVE  IInv'
  <1> USE ProcsFacts
  <1>1. Moves(p, Finished(p), 0, {}) /\ Finished(p) = IF p = Waiter THEN "returned" ELSE "idle"
    BY GotoFacts DEF CloseDone, Finished, IInv, Labels
  <1>2. TypeOK'
    BY <1>1 DEF IInv, TypeOK, CloseDone, Moves, At
  <1>3. AnnouncedOnce'
    BY <1>1 DEF IInv, TypeOK, AnnouncedOnce, QuietBefore, Owes, CloseDone, Moves, At
  <1>4. FinishedOnce'
    BY <1>1 DEF IInv, TypeOK, FinishedOnce, Finishing, CloseDone, Moves, At
  <1>5. ConnectionsFinishLast'
    BY <1>1 DEF IInv, TypeOK, FinishedOnce, ConnectionsFinishLast, CloseDone, Moves, At
  <1>6. OwnLabels'
    BY <1>1 DEF IInv, OwnLabels, CloseDone, Moves, At
  <1>7. QuietBefore'
    BY <1>1 DEF IInv, TypeOK, QuietBefore, OwnLabels, AnnouncedOnce, CloseDone, Moves, At
  <1> QED BY <1>2, <1>3, <1>4, <1>5, <1>6, <1>7 DEF IInv

--------------------------------------------------------------------------------
\* The invariant holds initially.
LEMMA InitInv == Init => IInv
  <1> SUFFICES ASSUME Init PROVE IInv
    OBVIOUS
  <1> USE ProcsFacts
  <1>1. TypeOK
    BY DEF Init, TypeOK, Labels
  <1>2. \A p \in Procs : loc[p].pc = IF p = Waiter THEN "sendRoll" ELSE "idle"
    BY DEF Init
  <1>3. AnnouncedOnce
    BY <1>2 DEF Init, AnnouncedOnce, Owes, At
  <1>4. FinishedOnce
    BY <1>2 DEF Init, FinishedOnce, Finishing, At
  <1>5. ConnectionsFinishLast /\ OwnLabels
    BY <1>2 DEF ConnectionsFinishLast, OwnLabels, At
  <1>6. QuietBefore
    BY <1>2 DEF Init, QuietBefore, At
  <1> QED BY <1>1, <1>3, <1>4, <1>5, <1>6 DEF IInv

\* Every step preserves it.
LEMMA NextKeeps == IInv /\ [Next]_vars => IInv'
  <1> SUFFICES ASSUME IInv, [Next]_vars PROVE IInv'
    OBVIOUS
  <1>1. CASE UNCHANGED vars
    BY <1>1 DEF vars, IInv, TypeOK, AnnouncedOnce, FinishedOnce, ConnectionsFinishLast,
                OwnLabels, QuietBefore, Owes, Finishing, At
  <1>2. CASE SendAndWait
    BY <1>2, SendRollKeeps, SendSpectateKeeps, RegisterPendingRollKeeps, TimeOutKeeps,
       WakeUpKeeps DEF SendAndWait
  <1>3. ASSUME NEW c \in Connections, Request(c) PROVE IInv'
    BY <1>3, LookupPendingRollKeeps DEF Request
  <1>4. ASSUME NEW c \in Connections, MarkRevealed(c) PROVE IInv'
    BY <1>4, MarkRefusedKeeps, MarkHiddenKeeps
  <1>5. ASSUME NEW c \in Connections, AnnounceDie(c) PROVE IInv'
    BY <1>5, AnnounceLastKeeps, AnnounceDieKeeps
  <1>6. ASSUME NEW p \in Procs, FinishRoll(p) PROVE IInv'
    BY <1>6, SecondFinishKeeps, FirstFinishKeeps, SelfRevealKeeps, AnnounceCompleteKeeps,
       CloseDoneKeeps DEF FinishRoll
  <1> QED BY <1>1, <1>2, <1>3, <1>4, <1>5, <1>6 DEF Next, Reveal

\* The inductive invariant holds of every behaviour.
THEOREM InvHolds == Spec => []IInv
  BY InitInv, NextKeeps, PTL DEF Spec

\* Types of the roll's state, for any number of dice and connections.
THEOREM RollTypeCorrect == Spec => []TypeOK
  <1>1. IInv => TypeOK
    BY DEF IInv
  <1> QED BY <1>1, InvHolds, PTL

\* No result is sent before the ghost dice it fills in.
THEOREM GhostDiceAlwaysFirst == Spec => []GhostDiceComeFirst
  <1>1. IInv => GhostDiceComeFirst
    BY DEF IInv, QuietBefore, GhostDiceComeFirst
  <1> QED BY <1>1, InvHolds, PTL

\* Only the owner's request or the waiter's timeout reveals a die: another
\* player never gets past the lookup, and a connection that finishes the roll
\* finds every die revealed.
THEOREM OnlyOwnerReveals == Spec => OnlyOwnerOrTimeoutReveals
  <1> DEFINE Allowed == \A d \in revealed' \ revealed :
                          \/ \E c \in OwnerConnections : At(c, "mark") /\ loc[c].die = d
                          \/ At(Waiter, "finish")
  <1>1. IInv /\ [Next]_vars => [Allowed]_revealed
    <2> SUFFICES ASSUME IInv, [Next]_vars, revealed' # revealed PROVE Allowed
      OBVIOUS
    <2> USE ProcsFacts
    <2>1. CASE \E c \in Connections : MarkRevealed(c)
      <3>1. PICK c \in Connections : MarkRevealed(c)
        BY <2>1
      <3>2. At(c, "mark") /\ revealed' \subseteq revealed \cup {loc[c].die}
        BY <3>1 DEF MarkRevealed
      <3>3. c \in OwnerConnections
        BY <3>2 DEF IInv, OwnLabels, At
      <3> QED BY <3>2, <3>3
    <2>2. CASE \E p \in Procs : BeginFinish(p)
      <3>1. PICK p \in Procs : BeginFinish(p)
        BY <2>2
      <3>2. At(p, "finish") /\ (revealed' = revealed \/ revealed' = Dice)
        BY <3>1 DEF BeginFinish
      <3>3. p = Waiter
        BY <3>2 DEF IInv, ConnectionsFinishLast
      <3> QED BY <3>2, <3>3
    <2>3. \/ \E c \in Connections : MarkRevealed(c)
          \/ \E p \in Procs : BeginFinish(p)
      BY DEF vars, Next, SendAndWait, Request, Reveal, FinishRoll, SendRoll, SendSpectate,
             RegisterPendingRoll, TimeOut, WakeUp, LookupPendingRoll, AnnounceDie, SelfReveal,
             AnnounceComplete, CloseDone
    <2> QED BY <2>1, <2>2, <2>3
  <1> QED BY <1>1, InvHolds, PTL DEF Spec, OnlyOwnerOrTimeoutReveals

--------------------------------------------------------------------------------
(* Refinement: each step of the roll is a step of its promise or hides.     *)

\* What the waiter does outside finishRoll.
LEMMA SendAndWaitImplements ==
  ASSUME IInv, SendAndWait
  PROVE  Promise!Next \/ UNCHANGED Promise!vars
  <1> USE ProcsFacts
  <1>1. CASE SendRoll
    <2>1. Moves(Waiter, "sendSpectate", 0, {})
      BY <1>1, GotoFacts DEF SendRoll, IInv, Labels
    <2>2. At(Waiter, "returned")' = At(Waiter, "returned")
      BY <1>1, <2>1 DEF SendRoll, Moves, At
    <2> QED BY <1>1, <2>2 DEF SendRoll, Promise!vars
  <1>2. CASE SendSpectate
    <2>1. Moves(Waiter, "register", 0, {})
      BY <1>2, GotoFacts DEF SendSpectate, IInv, Labels
    <2>2. At(Waiter, "returned")' = At(Waiter, "returned")
      BY <1>2, <2>1 DEF SendSpectate, Moves, At
    <2> QED BY <1>2, <2>2 DEF SendSpectate, Promise!vars
  <1>3. CASE RegisterPendingRoll
    <2>1. Moves(Waiter, "waiting", 0, {})
      BY <1>3, GotoFacts DEF RegisterPendingRoll, IInv, Labels
    <2>2. At(Waiter, "returned")' = At(Waiter, "returned")
      BY <1>3, <2>1 DEF RegisterPendingRoll, Moves, At
    <2> QED BY <1>3, <2>2 DEF RegisterPendingRoll, Promise!vars
  <1>4. CASE TimeOut
    <2>1. Moves(Waiter, "finish", 0, {})
      BY <1>4, GotoFacts DEF TimeOut, IInv, Labels
    <2>2. At(Waiter, "returned")' = At(Waiter, "returned")
      BY <1>4, <2>1 DEF TimeOut, Moves, At
    <2> QED BY <1>4, <2>2 DEF TimeOut, Promise!vars
  <1>5. CASE WakeUp
    <2>1. Moves(Waiter, "returned", 0, {})
      BY <1>5, GotoFacts DEF WakeUp, IInv, Labels
    <2>2. At(Waiter, "returned")' = TRUE /\ At(Waiter, "returned") = FALSE
      BY <1>5, <2>1 DEF WakeUp, Moves, At
    <2>3. revealed = Dice
      BY <1>5 DEF WakeUp, IInv, FinishedOnce
    <2>4. Promise!Resume
      BY <1>5, <2>2, <2>3 DEF WakeUp, Promise!Resume
    <2> QED BY <2>4 DEF Promise!Next
  <1> QED BY <1>1, <1>2, <1>3, <1>4, <1>5 DEF SendAndWait

\* What a connection does outside finishRoll.
LEMMA RevealImplements ==
  ASSUME IInv, NEW c \in Connections, Request(c) \/ Reveal(c)
  PROVE  Promise!Next \/ UNCHANGED Promise!vars
  <1> USE ProcsFacts
  <1>0. c # Waiter
    OBVIOUS
  <1>1. CASE Request(c)
    <2>1. PICK d \in Dice \cup {0} : LookupPendingRoll(c, d)
      BY <1>1 DEF Request
    <2>2. Moves(c, "mark", d, {})
      BY <2>1, BecomeFacts DEF LookupPendingRoll, IInv, Labels
    <2>3. loc'[Waiter] = loc[Waiter]
      BY <1>0, <2>2 DEF Moves
    <2> QED BY <2>1, <2>3 DEF LookupPendingRoll, Promise!vars, At
  <1>2. CASE MarkRevealed(c)
    <2>1. loc'[Waiter] = loc[Waiter]
      BY <1>0, <1>2 DEF MarkRevealed, Goto, Become, IInv, TypeOK
    <2>2. \E S \in SUBSET Dice : revealed' = revealed \cup S
      <3>1. CASE loc[c].die \in Dice \ revealed
        <4>1. {loc[c].die} \in SUBSET Dice /\ revealed' = revealed \cup {loc[c].die}
          BY <1>2, <3>1 DEF MarkRevealed
        <4> QED BY <4>1
      <3>2. CASE loc[c].die \notin Dice \ revealed
        <4>1. {} \in SUBSET Dice /\ revealed' = revealed \cup {}
          BY <1>2, <3>2 DEF MarkRevealed
        <4> QED BY <4>1
      <3> QED BY <3>1, <3>2
    <2>3. \E S \in SUBSET Dice : Promise!Decide(S)
      BY <1>2, <2>1, <2>2 DEF MarkRevealed, Promise!Decide, At
    <2> QED BY <2>3 DEF Promise!Next
  <1>3. CASE AnnounceDie(c)
    <2>1. loc'[Waiter] = loc[Waiter]
      BY <1>0, <1>3 DEF AnnounceDie, Goto, Become, IInv, TypeOK
    <2>2. loc[c].die \in Dice
      BY <1>3 DEF AnnounceDie, IInv, ConnectionsFinishLast
    <2>3. announced[loc[c].die] = 0 /\ loc[c].die \in revealed
      BY <1>3, <2>2 DEF AnnounceDie, IInv, AnnouncedOnce, Owes
    <2>4. announced' = [announced EXCEPT ![loc[c].die] = 1]
      BY <1>3, <2>3 DEF AnnounceDie
    <2>5. Promise!Announce(loc[c].die)
      BY <1>3, <2>1, <2>3, <2>4 DEF AnnounceDie, Promise!Announce, At
    <2> QED BY <2>2, <2>5 DEF Promise!Next
  <1> QED BY <1>1, <1>2, <1>3 DEF Reveal

\* finishRoll, whoever calls it.
LEMMA FinishImplements ==
  ASSUME IInv, NEW p \in Procs, FinishRoll(p)
  PROVE  Promise!Next \/ UNCHANGED Promise!vars
  <1> USE ProcsFacts
  <1>0. /\ Finished(p) = IF p = Waiter THEN "returned" ELSE "idle"
        /\ Finished(p) \in Labels
    BY DEF Finished, Labels
  <1>1. CASE BeginFinish(p) /\ completed
    <2>1. Moves(p, Finished(p), 0, {})
      BY <1>0, <1>1, GotoFacts DEF BeginFinish, IInv
    <2>2. revealed = Dice
      BY <1>1 DEF IInv, FinishedOnce
    <2>3. CASE p = Waiter
      <3>1. At(Waiter, "returned")' = TRUE /\ At(Waiter, "returned") = FALSE
        BY <1>0, <1>1, <2>1, <2>3 DEF BeginFinish, Moves, At
      <3>2. Promise!Resume
        BY <1>1, <2>2, <3>1 DEF BeginFinish, Promise!Resume
      <3> QED BY <3>2 DEF Promise!Next
    <2>4. CASE p # Waiter
      <3>1. loc'[Waiter] = loc[Waiter]
        BY <2>1, <2>4 DEF Moves
      <3> QED BY <1>1, <3>1 DEF BeginFinish, Promise!vars, At
    <2> QED BY <2>3, <2>4
  <1>2. CASE BeginFinish(p) /\ ~completed
    <2>1. Moves(p, "selfReveal", 0, Dice \ revealed)
      BY <1>2, BecomeFacts DEF BeginFinish, IInv, Labels
    <2>2. At(Waiter, "returned")' = At(Waiter, "returned")
      BY <1>2, <2>1 DEF BeginFinish, Moves, At
    <2>3. revealed' = revealed \cup Dice
      BY <1>2 DEF BeginFinish, IInv, TypeOK
    <2>4. Promise!Decide(Dice)
      BY <1>2, <2>2, <2>3 DEF BeginFinish, Promise!Decide
    <2> QED BY <2>4 DEF Promise!Next
  <1>3. ASSUME NEW d \in Dice, SelfReveal(p, d) PROVE Promise!Next
    <2>1. Moves(p, "selfReveal", 0, loc[p].hidden \ {d})
      BY <1>3, BecomeFacts DEF SelfReveal, IInv, TypeOK, Labels
    <2>2. At(Waiter, "returned")' = At(Waiter, "returned")
      BY <1>3, <2>1 DEF SelfReveal, Moves, At
    <2>3. announced[d] = 0 /\ d \in revealed
      BY <1>3 DEF SelfReveal, IInv, AnnouncedOnce, Owes
    <2>4. announced' = [announced EXCEPT ![d] = 1]
      BY <1>3, <2>3 DEF SelfReveal
    <2>5. Promise!Announce(d)
      BY <1>3, <2>2, <2>3, <2>4 DEF SelfReveal, Promise!Announce
    <2> QED BY <2>5 DEF Promise!Next
  <1>4. CASE AnnounceComplete(p)
    <2>1. Moves(p, "close", 0, {})
      BY <1>4, GotoFacts DEF AnnounceComplete, IInv, Labels
    <2>2. At(Waiter, "returned")' = At(Waiter, "returned")
      BY <1>4, <2>1 DEF AnnounceComplete, Moves, At
    <2>3. revealed = Dice /\ completes = 0
      BY <1>4 DEF AnnounceComplete, IInv, FinishedOnce, Finishing
    <2>4. Promise!Complete
      BY <1>4, <2>2, <2>3 DEF AnnounceComplete, Promise!Complete
    <2> QED BY <2>4 DEF Promise!Next
  <1>5. CASE CloseDone(p)
    <2>1. Moves(p, Finished(p), 0, {})
      BY <1>0, <1>5, GotoFacts DEF CloseDone, IInv
    <2>2. completes = 1 /\ closes = 0
      BY <1>5 DEF CloseDone, IInv, FinishedOnce, Finishing
    <2>3. At(Waiter, "returned")' \in {At(Waiter, "returned"), TRUE}
      BY <1>0, <1>5, <2>1 DEF CloseDone, Moves, At
    <2>4. /\ completes = 1 /\ closes = 0 /\ closes' = 1
          /\ UNCHANGED <<revealed, announced, completes>>
      BY <1>5, <2>2 DEF CloseDone
    <2>5. Promise!Close
      BY <2>3, <2>4, Zenon DEF Promise!Close
    <2> QED BY <2>5 DEF Promise!Next
  <1> QED BY <1>1, <1>2, <1>3, <1>4, <1>5 DEF FinishRoll

\* The roll keeps its promise: every die is announced once and only after it
\* was decided, the roll is completed once and its channel closed once, and the
\* caller goes on with every die decided, for any number of dice and of
\* connections that reveal them.
THEOREM PromiseKept == Spec => KeepsPromise
  <1>1. Init => Promise!Init
    BY ProcsFacts DEF Init, Promise!Init, At
  <1>2. IInv /\ [Next]_vars => [Promise!Next]_(Promise!vars)
    <2> SUFFICES ASSUME IInv, [Next]_vars
                 PROVE  Promise!Next \/ UNCHANGED Promise!vars
      OBVIOUS
    <2>1. CASE UNCHANGED vars
      BY <2>1 DEF vars, Promise!vars, At
    <2>2. CASE Next
      BY <2>2, SendAndWaitImplements, RevealImplements, FinishImplements DEF Next
    <2> QED BY <2>1, <2>2
  <1> QED BY <1>1, <1>2, InvHolds, PTL DEF Spec, KeepsPromise, Promise!Spec

--------------------------------------------------------------------------------
(* The end of a roll: nothing a goroutine took on is dropped.              *)

Starting == {"sendRoll", "sendSpectate", "register"}

\* Every revealed die was announced or is owed, and whoever set completed is
\* still at it or has closed the channel after client.roll_complete.
RevealsOwed == \A d \in revealed : announced[d] > 0 \/ \E p \in Procs : Owes(p, d)
FinishOwed == completed => closes = 1 \/ \E p \in Procs : Finishing(p)
ClosedLast == closes \in {0, 1} /\ (closes = 1 => completes = 1)

\* The waiter registers an open roll, and returns from a completed one.
WaiterInOrder ==
  /\ loc[Waiter].pc \in Starting => ~completed /\ ~registered /\ \A c \in Connections : At(c, "idle")
  /\ completed => ~registered
  /\ At(Waiter, "returned") => completed

EInv == RevealsOwed /\ FinishOwed /\ ClosedLast /\ WaiterInOrder

\* When the caller has its result and no connection is in a handler, the roll is
\* over for everyone: every die was announced once, client.roll_complete went
\* out once, done was closed once, and no later click finds the roll.
SettledRollsAreWhole ==
  At(Waiter, "returned") /\ (\A c \in Connections : At(c, "idle")) =>
    /\ revealed = Dice /\ \A d \in Dice : announced[d] = 1
    /\ completes = 1 /\ closes = 1 /\ ~registered

LEMMA InitEInv == Init => EInv
  <1> SUFFICES ASSUME Init PROVE EInv
    OBVIOUS
  <1>1. \A p \in Procs : loc[p].pc = IF p = Waiter THEN "sendRoll" ELSE "idle"
    BY DEF Init
  <1>2. revealed = {} /\ ~completed /\ ~registered /\ closes = 0
    BY DEF Init
  <1> QED
    BY <1>1, <1>2, ProcsFacts DEF EInv, RevealsOwed, FinishOwed, ClosedLast, WaiterInOrder, At

\* A step of p that takes on or drops no duty.
LEMMA DutiesStay ==
  ASSUME IInv, EInv, NEW p \in Procs, NEW l, NEW d, NEW h, Moves(p, l, d, h),
         ~At(p, "announce"), ~Finishing(p), UNCHANGED <<revealed, completed, closes, announced, completes>>
  PROVE  RevealsOwed' /\ FinishOwed' /\ ClosedLast'
  <1>1. \A q \in Procs : Finishing(q) => Finishing(q)'
    BY DEF Moves, Finishing, At
  <1>2. \A q \in Procs, e \in Dice : Owes(q, e) => Owes(q, e)'
    BY DEF Moves, Owes, Finishing, At
  <1>3. revealed \subseteq Dice
    BY DEF IInv, TypeOK
  <1>4. RevealsOwed'
    BY <1>2, <1>3 DEF EInv, RevealsOwed
  <1> QED
    BY <1>1, <1>4 DEF EInv, FinishOwed, ClosedLast

LEMMA NextKeepsEInv == IInv /\ EInv /\ [Next]_vars => EInv'
  <1> SUFFICES ASSUME IInv, EInv, [Next]_vars PROVE EInv'
    OBVIOUS
  <1> USE ProcsFacts
  <1>a. TypeOK /\ OwnLabels /\ IInv'
    BY NextKeeps DEF IInv
  <1>1. CASE UNCHANGED vars
    BY <1>1 DEF vars, EInv, RevealsOwed, FinishOwed, ClosedLast, WaiterInOrder, Owes, Finishing, At
  <1>2. CASE SendAndWait
    <2>1. PICK l \in Labels : /\ Moves(Waiter, l, 0, {}) /\ ~At(Waiter, "announce") /\ ~Finishing(Waiter)
                              /\ UNCHANGED <<revealed, completed, closes, announced, completes>>
      <3>1. PICK l \in Labels : /\ Goto(Waiter, l) /\ ~At(Waiter, "announce") /\ ~Finishing(Waiter)
                                /\ UNCHANGED <<revealed, completed, closes, announced, completes>>
        BY <1>2 DEF SendAndWait, SendRoll, SendSpectate, RegisterPendingRoll, TimeOut, WakeUp, Labels, Finishing, At
      <3> QED
        BY <1>a, <3>1, GotoFacts
    <2>2. RevealsOwed' /\ FinishOwed' /\ ClosedLast'
      BY <2>1, DutiesStay
    <2>3. \A c \in Connections : loc'[c] = loc[c]
      BY <2>1 DEF Moves
    <2>4. WaiterInOrder'
      <3>1. CASE SendRoll
        <4>1. Moves(Waiter, "sendSpectate", 0, {})
          BY <1>a, <3>1, GotoFacts DEF SendRoll, Labels
        <4> QED BY <2>3, <3>1, <4>1 DEF SendRoll, EInv, WaiterInOrder, Moves, At, Starting
      <3>2. CASE SendSpectate
        <4>1. Moves(Waiter, "register", 0, {})
          BY <1>a, <3>2, GotoFacts DEF SendSpectate, Labels
        <4> QED BY <2>3, <3>2, <4>1 DEF SendSpectate, EInv, WaiterInOrder, Moves, At, Starting
      <3>3. CASE RegisterPendingRoll
        <4>1. Moves(Waiter, "waiting", 0, {})
          BY <1>a, <3>3, GotoFacts DEF RegisterPendingRoll, Labels
        <4> QED BY <2>3, <3>3, <4>1 DEF RegisterPendingRoll, EInv, WaiterInOrder, Moves, At, Starting
      <3>4. CASE TimeOut
        <4>1. Moves(Waiter, "finish", 0, {})
          BY <1>a, <3>4, GotoFacts DEF TimeOut, Labels
        <4> QED BY <2>3, <3>4, <4>1 DEF TimeOut, EInv, WaiterInOrder, Moves, At, Starting
      <3>5. CASE WakeUp
        <4>1. Moves(Waiter, "returned", 0, {})
          BY <1>a, <3>5, GotoFacts DEF WakeUp, Labels
        <4>2. completed
          BY <3>5 DEF WakeUp, IInv, FinishedOnce
        <4> QED BY <2>3, <3>5, <4>1, <4>2 DEF WakeUp, EInv, WaiterInOrder, Moves, At, Starting
      <3> QED
        BY <1>2, <3>1, <3>2, <3>3, <3>4, <3>5 DEF SendAndWait
    <2> QED
      BY <2>2, <2>4 DEF EInv
  <1>3. ASSUME NEW c \in Connections, NEW d \in Dice \cup {0}, LookupPendingRoll(c, d) PROVE EInv'
    <2>1. Moves(c, "mark", d, {}) /\ At(c, "idle") /\ registered
      BY <1>a, <1>3, BecomeFacts DEF LookupPendingRoll, Labels
    <2>2. RevealsOwed' /\ FinishOwed' /\ ClosedLast'
      BY <1>3, <2>1, DutiesStay DEF LookupPendingRoll, Finishing, At
    <2>3. WaiterInOrder'
      BY <1>3, <2>1 DEF LookupPendingRoll, EInv, WaiterInOrder, Moves, At
    <2> QED
      BY <2>2, <2>3 DEF EInv
  <1>4. ASSUME NEW c \in Connections, MarkRevealed(c) PROVE EInv'
    <2>0. loc[Waiter].pc \notin Starting /\ At(c, "mark") /\ c # Waiter
      BY <1>4 DEF MarkRevealed, EInv, WaiterInOrder, At
    <2>1. CASE loc[c].die \in Dice \ revealed
      <3>1. /\ Moves(c, "announce", loc[c].die, Dice \ (revealed \cup {loc[c].die}))
            /\ revealed' = revealed \cup {loc[c].die}
        BY <1>a, <1>4, <2>1, BecomeFacts DEF MarkRevealed, Labels
      <3>2. UNCHANGED <<registered, completed, closes, announced, completes>>
        BY <1>4 DEF MarkRevealed
      <3>3. \A q \in Procs, e \in Dice : Owes(q, e) => Owes(q, e)'
        BY <2>0, <3>1 DEF Moves, Owes, At
      <3>4. \A d \in Dice : d = loc[c].die => Owes(c, d)'
        BY <3>1 DEF Moves, Owes, At
      <3>5. RevealsOwed'
        <4>1. ASSUME NEW e \in revealed
              PROVE  announced'[e] > 0 \/ \E q \in Procs : Owes(q, e)'
          BY <1>a, <3>2, <3>3 DEF EInv, RevealsOwed, TypeOK
        <4> QED
          BY <2>1, <3>1, <3>4, <4>1 DEF RevealsOwed
      <3>6. \A q \in Procs : Finishing(q) => Finishing(q)'
        BY <2>0, <3>1 DEF Moves, Finishing, At
      <3>7. FinishOwed' /\ ClosedLast'
        BY <3>2, <3>6 DEF EInv, FinishOwed, ClosedLast
      <3>8. WaiterInOrder'
        BY <2>0, <3>1, <3>2 DEF EInv, WaiterInOrder, Moves, At
      <3> QED
        BY <3>5, <3>7, <3>8 DEF EInv
    <2>2. CASE loc[c].die \notin Dice \ revealed
      <3>1. Moves(c, "idle", 0, {}) /\ revealed' = revealed
        BY <1>a, <1>4, <2>2, GotoFacts DEF MarkRevealed, Labels
      <3>2. RevealsOwed' /\ FinishOwed' /\ ClosedLast'
        BY <1>4, <2>0, <3>1, DutiesStay DEF MarkRevealed, Finishing, At
      <3>3. WaiterInOrder'
        BY <1>4, <2>0, <3>1 DEF MarkRevealed, EInv, WaiterInOrder, Moves, At
      <3> QED
        BY <3>2, <3>3 DEF EInv
    <2> QED
      BY <2>1, <2>2
  <1>5. ASSUME NEW c \in Connections, AnnounceDie(c) PROVE EInv'
    <2>0. loc[Waiter].pc \notin Starting /\ At(c, "announce") /\ c # Waiter /\ loc[c].die \in Dice
      BY <1>5 DEF AnnounceDie, EInv, WaiterInOrder, IInv, ConnectionsFinishLast, At
    <2>1. PICK l \in {"finish", "idle"} : Moves(c, l, 0, {})
      BY <1>a, <1>5, GotoFacts DEF AnnounceDie, Labels
    <2>2. announced' = [announced EXCEPT ![loc[c].die] = @ + 1]
         /\ UNCHANGED <<registered, revealed, completed, closes, completes>>
      BY <1>5 DEF AnnounceDie
    <2>3. \A q \in Procs, e \in Dice : Owes(q, e) => Owes(q, e)' \/ e = loc[c].die
      BY <2>0, <2>1 DEF Moves, Owes, At
    <2>4. announced'[loc[c].die] > 0 /\ \A e \in Dice : announced[e] > 0 => announced'[e] > 0
      BY <1>a, <2>0, <2>2 DEF TypeOK
    <2>5. RevealsOwed'
      BY <1>a, <2>2, <2>3, <2>4 DEF EInv, RevealsOwed, TypeOK
    <2>6. \A q \in Procs : Finishing(q) => Finishing(q)'
      BY <2>0, <2>1 DEF Moves, Finishing, At
    <2>7. FinishOwed' /\ ClosedLast'
      BY <2>2, <2>6 DEF EInv, FinishOwed, ClosedLast
    <2>8. WaiterInOrder'
      BY <2>0, <2>1, <2>2 DEF EInv, WaiterInOrder, Moves, At
    <2> QED
      BY <2>5, <2>7, <2>8 DEF EInv
  <1>6. ASSUME NEW p \in Procs, BeginFinish(p) PROVE EInv'
    <2>0. loc[Waiter].pc \notin Starting /\ At(p, "finish")
      BY <1>6 DEF BeginFinish, EInv, WaiterInOrder, At, Starting
    <2>1. CASE completed
      <3>1. Moves(p, Finished(p), 0, {}) /\ Finished(p) = (IF p = Waiter THEN "returned" ELSE "idle")
            /\ UNCHANGED <<registered, revealed, completed, closes, announced, completes>>
        BY <1>a, <1>6, <2>1, GotoFacts DEF BeginFinish, Finished, Labels
      <3>2. RevealsOwed' /\ FinishOwed' /\ ClosedLast'
        BY <2>0, <3>1, DutiesStay DEF Finishing, At
      <3>3. WaiterInOrder'
        BY <2>0, <2>1, <3>1 DEF EInv, WaiterInOrder, Moves, At, Starting
      <3> QED
        BY <3>2, <3>3 DEF EInv
    <2>2. CASE ~completed
      <3>1. /\ Moves(p, "selfReveal", 0, Dice \ revealed)
            /\ completed' = TRUE /\ revealed' = Dice /\ registered' = FALSE
            /\ UNCHANGED <<closes, announced, completes>>
        BY <1>a, <1>6, <2>2, BecomeFacts DEF BeginFinish, Labels
      <3>2. \A q \in Procs, e \in Dice : Owes(q, e) => Owes(q, e)'
        BY <2>0, <3>1 DEF Moves, Owes, At
      <3>3. \A e \in Dice \ revealed : Owes(p, e)'
        BY <3>1 DEF Moves, Owes, At
      <3>4. RevealsOwed'
        BY <3>1, <3>2, <3>3 DEF EInv, RevealsOwed
      <3>5. Finishing(p)'
        BY <3>1 DEF Moves, Finishing, At
      <3>6. FinishOwed' /\ ClosedLast'
        BY <3>1, <3>5 DEF EInv, FinishOwed, ClosedLast
      <3>7. WaiterInOrder'
        BY <2>0, <3>1 DEF EInv, WaiterInOrder, Moves, At, Starting
      <3> QED
        BY <3>4, <3>6, <3>7 DEF EInv
    <2> QED
      BY <2>1, <2>2
  <1>7. ASSUME NEW p \in Procs, NEW d \in Dice, SelfReveal(p, d) PROVE EInv'
    <2>0. /\ loc[Waiter].pc \notin Starting /\ At(p, "selfReveal")
      BY <1>7 DEF SelfReveal, EInv, WaiterInOrder, At, Starting
    <2>1. Moves(p, "selfReveal", 0, loc[p].hidden \ {d})
      BY <1>a, <1>7, BecomeFacts DEF SelfReveal, TypeOK, Labels
    <2>2. announced' = [announced EXCEPT ![d] = @ + 1]
         /\ UNCHANGED <<registered, revealed, completed, closes, completes>>
      BY <1>7 DEF SelfReveal
    <2>3. \A q \in Procs, e \in Dice : Owes(q, e) => Owes(q, e)' \/ e = d
      BY <2>0, <2>1 DEF Moves, Owes, At
    <2>4. announced'[d] > 0 /\ \A e \in Dice : announced[e] > 0 => announced'[e] > 0
      BY <1>a, <2>2 DEF TypeOK
    <2>5. RevealsOwed'
      BY <1>a, <2>2, <2>3, <2>4 DEF EInv, RevealsOwed, TypeOK
    <2>6. \A q \in Procs : Finishing(q) => Finishing(q)'
      BY <2>1 DEF Moves, Finishing, At
    <2>7. FinishOwed' /\ ClosedLast'
      BY <2>2, <2>6 DEF EInv, FinishOwed, ClosedLast
    <2>8. WaiterInOrder'
      BY <2>0, <2>1, <2>2 DEF EInv, WaiterInOrder, Moves, At, Starting
    <2> QED
      BY <2>5, <2>7, <2>8 DEF EInv
  <1>8. ASSUME NEW p \in Procs, AnnounceComplete(p) PROVE EInv'
    <2>0. loc[Waiter].pc \notin Starting /\ At(p, "selfReveal") /\ loc[p].hidden = {} /\ closes = 0
      BY <1>8 DEF AnnounceComplete, EInv, WaiterInOrder, At, Starting, IInv, FinishedOnce, Finishing
    <2>1. Moves(p, "close", 0, {})
      BY <1>a, <1>8, GotoFacts DEF AnnounceComplete, Labels
    <2>2. UNCHANGED <<registered, revealed, completed, closes, announced>>
      BY <1>8 DEF AnnounceComplete
    <2>3. \A q \in Procs, e \in Dice : Owes(q, e) => Owes(q, e)'
      BY <2>0, <2>1 DEF Moves, Owes, At
    <2>4. RevealsOwed'
      BY <1>a, <2>2, <2>3 DEF EInv, RevealsOwed, TypeOK
    <2>5. Finishing(p)'
      BY <2>1 DEF Moves, Finishing, At
    <2>6. FinishOwed' /\ ClosedLast'
      BY <2>0, <2>2, <2>5 DEF FinishOwed, ClosedLast
    <2>7. WaiterInOrder'
      BY <2>0, <2>1, <2>2 DEF EInv, WaiterInOrder, Moves, At, Starting
    <2> QED
      BY <2>4, <2>6, <2>7 DEF EInv
  <1>9. ASSUME NEW p \in Procs, CloseDone(p) PROVE EInv'
    <2>0. loc[Waiter].pc \notin Starting /\ At(p, "close") /\ closes = 0 /\ completes = 1 /\ completed
      BY <1>9 DEF CloseDone, EInv, WaiterInOrder, At, Starting, IInv, FinishedOnce, Finishing
    <2>1. Moves(p, Finished(p), 0, {}) /\ Finished(p) = (IF p = Waiter THEN "returned" ELSE "idle")
      BY <1>a, <1>9, GotoFacts DEF CloseDone, Finished, Labels
    <2>2. closes' = 1 /\ UNCHANGED <<registered, revealed, completed, announced, completes>>
      BY <1>9, <2>0 DEF CloseDone
    <2>3. \A q \in Procs, e \in Dice : Owes(q, e) => Owes(q, e)'
      BY <2>0, <2>1 DEF Moves, Owes, At
    <2>4. RevealsOwed'
      BY <1>a, <2>2, <2>3 DEF EInv, RevealsOwed, TypeOK
    <2>5. FinishOwed' /\ ClosedLast'
      BY <2>0, <2>2 DEF FinishOwed, ClosedLast
    <2>6. WaiterInOrder'
      BY <2>0, <2>1, <2>2 DEF EInv, WaiterInOrder, Moves, At, Starting
    <2> QED
      BY <2>4, <2>5, <2>6 DEF EInv
  <1> QED
    BY <1>1, <1>2, <1>3, <1>4, <1>5, <1>6, <1>7, <1>8, <1>9 DEF Next, Request, Reveal, FinishRoll

\* However the clicks, the timeout and the connections that finish the roll fall
\* together, a roll that has come to rest is whole: no die is left unannounced,
\* none was announced twice, and it cannot be found again
\* (client_roll.go:201-210, 271-303).
THEOREM SettledRolls == Spec => []SettledRollsAreWhole
  <1>1. IInv /\ EInv => SettledRollsAreWhole
    <2> SUFFICES ASSUME IInv, EInv, At(Waiter, "returned"), \A c \in Connections : At(c, "idle")
                 PROVE /\ revealed = Dice /\ \A d \in Dice : announced[d] = 1
                       /\ completes = 1 /\ closes = 1 /\ ~registered
      BY DEF SettledRollsAreWhole
    <2>1. \A p \in Procs : ~Finishing(p) /\ \A d \in Dice : ~Owes(p, d)
      BY ProcsFacts DEF Finishing, Owes, At
    <2>2. completed /\ revealed = Dice /\ ~registered
      BY DEF EInv, WaiterInOrder, IInv, FinishedOnce
    <2>3. closes = 1 /\ completes = 1
      BY <2>1, <2>2 DEF EInv, FinishOwed, ClosedLast
    <2>4. \A d \in Dice : announced[d] > 0
      BY <2>1, <2>2 DEF EInv, RevealsOwed
    <2>5. \A d \in Dice : announced[d] = 1
      BY <2>4 DEF IInv, AnnouncedOnce
    <2> QED
      BY <2>2, <2>3, <2>5
  <1>2. IInv /\ EInv /\ [Next]_vars => (IInv /\ EInv)'
    BY NextKeeps, NextKeepsEInv
  <1>3. Init => IInv /\ EInv
    BY InitInv, InitEInv
  <1> QED
    BY <1>1, <1>2, <1>3, PTL DEF Spec
================================================================================
