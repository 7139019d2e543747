------------------------------ MODULE Connections -------------------------------
(***************************************************************************)
(* The life of the WebSocket connections of one campaign: handleConnection *)
(* and serve of master/internal/server/server.go, the hub of               *)
(* master/internal/session/hub.go and the Host's kick of                   *)
(* master/internal/admin/server.go.  Each connection has a goroutine that  *)
(* reads and, once joined, one that writes what the hub puts into its      *)
(* outbox.  A hub operation holds h.mu and is one step; a message is not   *)
(* told from another, so an outbox is its length.  A player who reconnects *)
(* is another connection of the same sender.                               *)
(***************************************************************************)
EXTENDS Naturals

CONSTANTS
  Connections,
  Senders,
  SenderOf,     \* the effective sender of each connection
  OutboxSize

ASSUME SendersAssumption == SenderOf \in [Connections -> Senders]
ASSUME OutboxAssumption == OutboxSize \in Nat \ {0}

VARIABLES
  serve,      \* program counter of each connection's reading goroutine
  pump,       \* program counter of its write pump
  open,       \* its socket is open
  rooms,      \* the hub's registered clients
  closers,    \* clients that were given a closer
  outbox,     \* messages waiting in each client's outbox
  closes,     \* how often it was closed; a second close panics
  once,       \* serve's unregisterOnce has run
  writeDone,  \* results in the channel the pump reports to
  kick        \* the Host's kick: the connections it still has to close

vars == <<serve, pump, open, rooms, closers, outbox, closes, once, writeDone, kick>>

ServeLabels == {"handshake", "gate", "refusal", "sessionState", "register", "setCloser", "startPump",
                "read", "dispatch", "reply", "unregister", "awaitPump", "deferred", "return", "ended"}
PumpLabels == {"none", "take", "write", "report", "done"}

At(c, label) == serve[c] = label
Goto(c, label) == serve' = [serve EXCEPT ![c] = label]
PumpAt(c, label) == pump[c] = label
PumpGoto(c, label) == pump' = [pump EXCEPT ![c] = label]

Init ==
  /\ serve = [c \in Connections |-> "handshake"]
  /\ pump = [c \in Connections |-> "none"]
  /\ open = [c \in Connections |-> TRUE]
  /\ rooms = {} /\ closers = {}
  /\ outbox = [c \in Connections |-> 0]
  /\ closes = [c \in Connections |-> 0]
  /\ once = [c \in Connections |-> FALSE]
  /\ writeDone = [c \in Connections |-> 0]
  /\ kick = {}

--------------------------------------------------------------------------------
(* The hub.                                                                *)

\* A full outbox is skipped; the message is lost to that client.
Push(S) ==
  outbox' = [c \in Connections |-> IF c \in S \cap rooms /\ outbox[c] < OutboxSize
                                   THEN outbox[c] + 1 ELSE outbox[c]]

From(s) == {c \in Connections : SenderOf[c] = s}

\* Mutant: the sends to the outboxes block.
BlockingSend(s) ==
  /\ \A c \in rooms : outbox[c] < OutboxSize
  /\ Push(Connections)

\* What a message handler or a slow pass of sender s may hand to the hub:
\* nothing, or Broadcast, SendToSender, BroadcastExceptSender.
HubSend(s) ==
  \/ UNCHANGED outbox
  \/ Push(Connections)
  \/ Push(From(s))
  \/ Push(Connections \ From(s))

\* Slow passes and the admin panel send at any time.
SendFromElsewhere ==
  /\ \E s \in Senders : HubSend(s)
  /\ UNCHANGED <<serve, pump, open, rooms, closers, closes, once, writeDone, kick>>

\* Mutant: the player leaves the room, not the connection.
UnregisterSender(c) ==
  /\ rooms' = rooms \ From(SenderOf[c])
  /\ closes' = [closes EXCEPT ![c] = @ + 1]

Unregister(c) ==
  /\ rooms' = rooms \ {c}
  /\ closes' = [closes EXCEPT ![c] = @ + 1]

\* serve's unregister: Hub.Unregister, at most once.
UnregisterOnce(c) ==
  /\ once' = [once EXCEPT ![c] = TRUE]
  /\ IF once[c] THEN UNCHANGED <<rooms, closes>> ELSE Unregister(c)

--------------------------------------------------------------------------------
(* handleConnection.                                                       *)

\* The client may take its time to send system.connect, or never do.
ReceiveHandshake(c) ==
  /\ At(c, "handshake")
  /\ Goto(c, IF open[c] THEN "gate" ELSE "return")
  /\ UNCHANGED <<pump, open, rooms, closers, outbox, closes, once, writeDone, kick>>

\* sessionGate: the active campaign and the join lock are read from the store
\* when the join arrives; the Host changes them at any time before or after.
SessionGate(c) ==
  /\ At(c, "gate")
  /\ Goto(c, "sessionState") \/ Goto(c, "refusal")
  /\ UNCHANGED <<pump, open, rooms, closers, outbox, closes, once, writeDone, kick>>

\* What a reading goroutine writes, it writes on its own socket and without a
\* deadline: the write may fail on a dead socket or be buffered there, and
\* waits for a living peer to read, for ever perhaps.
RejectHandshake(c) ==
  /\ At(c, "refusal")
  /\ Goto(c, "return")
  /\ UNCHANGED <<pump, open, rooms, closers, outbox, closes, once, writeDone, kick>>

SendSessionState(c) ==
  /\ At(c, "sessionState")
  /\ \/ Goto(c, "register")
     \/ ~open[c] /\ Goto(c, "return")
  /\ UNCHANGED <<pump, open, rooms, closers, outbox, closes, once, writeDone, kick>>

\* handleConnection has returned, or recovered a panic; CloseNow is deferred.
Return(c) ==
  /\ At(c, "return")
  /\ open' = [open EXCEPT ![c] = FALSE]
  /\ Goto(c, "ended")
  /\ UNCHANGED <<pump, rooms, closers, outbox, closes, once, writeDone, kick>>

--------------------------------------------------------------------------------
(* serve.                                                                  *)

Register(c) ==
  /\ At(c, "register")
  /\ rooms' = rooms \cup {c}
  /\ Goto(c, "setCloser")
  /\ UNCHANGED <<pump, open, closers, outbox, closes, once, writeDone, kick>>

SetCloser(c) ==
  /\ At(c, "setCloser")
  /\ closers' = closers \cup {c}
  /\ Goto(c, "startPump")
  /\ UNCHANGED <<pump, open, rooms, outbox, closes, once, writeDone, kick>>

StartPump(c) ==
  /\ At(c, "startPump")
  /\ PumpGoto(c, "take")
  /\ Goto(c, "read")
  /\ UNCHANGED <<open, rooms, closers, outbox, closes, once, writeDone, kick>>

ReadMessage(c) ==
  /\ At(c, "read") /\ open[c]
  /\ Goto(c, "dispatch")
  /\ UNCHANGED <<pump, open, rooms, closers, outbox, closes, once, writeDone, kick>>

\* conn.Read fails: the peer went, or CloseNow was called.
LeaveReadLoop(c) ==
  /\ At(c, "read") /\ ~open[c]
  /\ Goto(c, "unregister")
  /\ UNCHANGED <<pump, open, rooms, closers, outbox, closes, once, writeDone, kick>>

\* The handler does its work, sends to the hub and may have something to reply
\* to its own client; it may panic.
Dispatch(c) ==
  /\ At(c, "dispatch")
  /\ HubSend(SenderOf[c])
  /\ \E next \in {"read", "reply", "deferred"} : Goto(c, next)
  /\ UNCHANGED <<pump, open, rooms, closers, closes, once, writeDone, kick>>

\* A reply that fails ends the read loop.
Reply(c) ==
  /\ At(c, "reply")
  /\ \/ Goto(c, "read")
     \/ ~open[c] /\ Goto(c, "unregister")
  /\ UNCHANGED <<pump, open, rooms, closers, outbox, closes, once, writeDone, kick>>

EagerUnregister(c) ==
  /\ At(c, "unregister")
  /\ UnregisterOnce(c)
  /\ Goto(c, "awaitPump")
  /\ UNCHANGED <<pump, open, closers, outbox, writeDone, kick>>

AwaitPump(c) ==
  /\ At(c, "awaitPump") /\ writeDone[c] > 0
  /\ writeDone' = [writeDone EXCEPT ![c] = @ - 1]
  /\ Goto(c, "deferred")
  /\ UNCHANGED <<pump, open, rooms, closers, outbox, closes, once, kick>>

\* Mutant: the deferred call goes to the hub again.
UnregisterAgain(c) ==
  /\ At(c, "deferred")
  /\ Unregister(c)
  /\ Goto(c, "return")
  /\ UNCHANGED <<pump, open, closers, outbox, once, writeDone, kick>>

DeferredUnregister(c) ==
  /\ At(c, "deferred")
  /\ UnregisterOnce(c)
  /\ Goto(c, "return")
  /\ UNCHANGED <<pump, open, closers, outbox, writeDone, kick>>

--------------------------------------------------------------------------------
(* writePump: range over the outbox, which ends when it is closed and empty *)

Take(c) ==
  /\ PumpAt(c, "take")
  /\ \/ /\ outbox[c] > 0
        /\ outbox' = [outbox EXCEPT ![c] = @ - 1]
        /\ PumpGoto(c, "write")
     \/ /\ outbox[c] = 0 /\ closes[c] > 0
        /\ PumpGoto(c, "report")
        /\ UNCHANGED outbox
  /\ UNCHANGED <<serve, open, rooms, closers, closes, once, writeDone, kick>>

\* A peer that does not read may keep a write waiting.
Written(c) ==
  /\ PumpAt(c, "write") /\ open[c]
  /\ PumpGoto(c, "take")
  /\ UNCHANGED <<serve, open, rooms, closers, outbox, closes, once, writeDone, kick>>

\* Mutant: the pump ends without a report.
DieSilently(c) ==
  /\ PumpAt(c, "write")
  /\ PumpGoto(c, "done")
  /\ UNCHANGED <<serve, open, rooms, closers, outbox, closes, once, writeDone, kick>>

\* The write fails or panics; the pump ends although its reader may go on.
WriteFails(c) ==
  /\ PumpAt(c, "write")
  /\ PumpGoto(c, "report")
  /\ UNCHANGED <<serve, open, rooms, closers, outbox, closes, once, writeDone, kick>>

\* writeDone has room for one result.
Report(c) ==
  /\ PumpAt(c, "report") /\ writeDone[c] < 1
  /\ writeDone' = [writeDone EXCEPT ![c] = @ + 1]
  /\ PumpGoto(c, "done")
  /\ UNCHANGED <<serve, open, rooms, closers, outbox, closes, once, kick>>

--------------------------------------------------------------------------------
(* The Host and the network.                                               *)

\* handleKickPlayer: the notice, and after a fixed delay the closers of the
\* player's clients, collected under h.mu ...
KickPlayer(s) ==
  /\ kick = {}
  /\ kick' = rooms \cap closers \cap From(s)
  /\ UNCHANGED <<serve, pump, open, rooms, closers, outbox, closes, once, writeDone>>

\* ... and called one by one after the unlock.
CallCloser(c) ==
  /\ c \in kick
  /\ open' = [open EXCEPT ![c] = FALSE]
  /\ kick' = kick \ {c}
  /\ UNCHANGED <<serve, pump, rooms, closers, outbox, closes, once, writeDone>>

\* The client leaves or the network fails.
Disconnect(c) ==
  /\ open[c]
  /\ open' = [open EXCEPT ![c] = FALSE]
  /\ UNCHANGED <<serve, pump, rooms, closers, outbox, closes, once, writeDone, kick>>

--------------------------------------------------------------------------------
\* What a reading goroutine does without waiting for its client ...
Proceed(c) ==
  \/ SessionGate(c) \/ Return(c)
  \/ Register(c) \/ SetCloser(c) \/ StartPump(c)
  \/ LeaveReadLoop(c) \/ EagerUnregister(c) \/ AwaitPump(c) \/ DeferredUnregister(c)

\* ... and what waits until the client has read it.
OwnWrite(c) == RejectHandshake(c) \/ SendSessionState(c) \/ Reply(c)

PumpStep(c) == Take(c) \/ (~open[c] /\ WriteFails(c)) \/ Report(c)

Next ==
  \/ \E c \in Connections :
       \/ ReceiveHandshake(c) \/ ReadMessage(c) \/ Dispatch(c) \/ Proceed(c) \/ OwnWrite(c)
       \/ Take(c) \/ Written(c) \/ WriteFails(c) \/ Report(c)
       \/ CallCloser(c) \/ Disconnect(c)
  \/ \E s \in Senders : KickPlayer(s)
  \/ SendFromElsewhere

Spec == Init /\ [][Next]_vars

\* Goroutines run; a read and a write on a closed socket end, a read and a
\* write on an open one may wait for ever.  A handler comes to its reply: the
\* store and the engine, which it calls without a deadline, answer or fail.
FairSpec ==
  /\ Spec
  /\ \A c \in Connections :
       /\ WF_vars(Proceed(c)) /\ WF_vars(Dispatch(c)) /\ WF_vars(PumpStep(c))
       /\ WF_vars(~open[c] /\ (ReceiveHandshake(c) \/ OwnWrite(c)))
       /\ WF_vars(CallCloser(c))

--------------------------------------------------------------------------------
(* Properties.                                                             *)

TypeOK ==
  /\ serve \in [Connections -> ServeLabels]
  /\ pump \in [Connections -> PumpLabels]
  /\ open \in [Connections -> BOOLEAN] /\ once \in [Connections -> BOOLEAN]
  /\ rooms \subseteq Connections /\ closers \subseteq Connections /\ kick \subseteq Connections
  /\ outbox \in [Connections -> 0 .. OutboxSize]
  /\ closes \in [Connections -> Nat]
  /\ writeDone \in [Connections -> 0 .. 1]

\* A connection is in the hub from Register until its own teardown, whatever
\* the other connections of the same player do; its outbox is closed exactly
\* when it has left (hub.go:66-103, server.go:556, 574-575, 597).
InHubWhileServing ==
  \A c \in Connections :
    /\ c \in rooms <=> serve[c] \in {"setCloser", "startPump", "read", "dispatch", "reply", "unregister"}
                       \/ (At(c, "deferred") /\ ~once[c])
    /\ closes[c] > 0 => c \notin rooms

\* No outbox is closed twice and none is closed while the hub may still send
\* into it: neither panics (hub.go:79-83, server.go:560-575).
OutboxClosedOnce ==
  \A c \in Connections : closes[c] <= 1 /\ (c \in rooms => closes[c] = 0)

\* However a connection ends (the client leaves, the Host kicks, a handler
\* panics, the pump died before), both its goroutines end and the hub forgets
\* it (server.go:560-604).
ConnectionsEnd ==
  \A c \in Connections :
    ~open[c] ~> At(c, "ended") /\ pump[c] \in {"none", "done"} /\ c \notin rooms

\* Whatever the other clients do (do not read, hold up their own handler with
\* its reply, lose their pump), a handler's sends to them end: it comes to its
\* return or to a reply of its own, which only its own client can hold up, and
\* not after that client is gone (hub.go:104-119).
HandlersReturn ==
  \A c \in Connections :
    /\ At(c, "dispatch") ~> serve[c] \in {"read", "reply", "deferred"}
    /\ At(c, "reply") /\ ~open[c] ~> ~At(c, "reply")
================================================================================
