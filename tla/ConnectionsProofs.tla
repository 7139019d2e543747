--------------------------- MODULE ConnectionsProofs ----------------------------
(***************************************************************************)
(* For any number of connections, senders and any outbox size: a           *)
(* connection is in the hub exactly while it is served, and its outbox is  *)
(* closed once.  The strengthening says where the two calls of serve's     *)
(* unregister find the flag of the sync.Once.                              *)
(***************************************************************************)
EXTENDS Connections, TLAPS

TearingDown == {"awaitPump", "deferred", "return", "ended"}

\* The outbox of c has been closed as often as unregisterOnce has run, which
\* is only after its read loop, and always before serve waits for its pump.
OnceInv ==
  \A c \in Connections :
    /\ once[c] => closes[c] = 1 /\ serve[c] \in TearingDown
    /\ ~once[c] => closes[c] = 0 /\ serve[c] # "awaitPump"

IInv == TypeOK /\ InHubWhileServing /\ OutboxClosedOnce /\ OnceInv

\* A campaign nobody has joined yet.
LEMMA InitIInv == Init => IInv
  BY OutboxAssumption DEF Init, IInv, TypeOK, InHubWhileServing, OutboxClosedOnce, OnceInv,
     ServeLabels, PumpLabels, At

\* An operation of the hub that only sends leaves the outboxes bounded.
LEMMA SendBounded ==
  ASSUME TypeOK, NEW s, HubSend(s)
  PROVE  outbox' \in [Connections -> 0 .. OutboxSize]
  <1>1. ASSUME NEW S, Push(S) PROVE outbox' \in [Connections -> 0 .. OutboxSize]
    BY <1>1, OutboxAssumption DEF Push, TypeOK
  <1>2. QED
    BY <1>1 DEF HubSend, TypeOK

\* The steps that neither touch the hub's registry nor tear down: every part
\* of the invariant but TypeOK reads variables they leave as they are.
LEMMA QuietStep ==
  ASSUME IInv, TypeOK', UNCHANGED <<serve, rooms, closes, once>>
  PROVE  IInv'
  BY DEF IInv, InHubWhileServing, OutboxClosedOnce, OnceInv, At

\* Each step of a connection, its pump, the Host or the network.
LEMMA NextIInv == IInv /\ [Next]_vars => IInv'
  <1> SUFFICES ASSUME IInv, [Next]_vars PROVE IInv'
    OBVIOUS
  <1> USE DEF At, Goto, PumpAt, PumpGoto
  <1>a. TypeOK
    BY DEF IInv
  <1>1. ASSUME NEW c \in Connections, ReceiveHandshake(c) PROVE IInv'
    BY <1>1 DEF ReceiveHandshake, IInv, TypeOK, InHubWhileServing, OutboxClosedOnce, OnceInv, ServeLabels, TearingDown
  <1>2. ASSUME NEW c \in Connections, ReadMessage(c) PROVE IInv'
    BY <1>2 DEF ReadMessage, IInv, TypeOK, InHubWhileServing, OutboxClosedOnce, OnceInv, ServeLabels, TearingDown
  <1>3. ASSUME NEW c \in Connections, Dispatch(c) PROVE IInv'
    <2>1. outbox' \in [Connections -> 0 .. OutboxSize]
      BY <1>a, <1>3, SendBounded DEF Dispatch
    <2>2. TypeOK'
      BY <1>3, <2>1 DEF Dispatch, IInv, TypeOK, ServeLabels
    <2>3. (InHubWhileServing /\ OutboxClosedOnce /\ OnceInv)'
      BY <1>3 DEF Dispatch, IInv, TypeOK, InHubWhileServing, OutboxClosedOnce, OnceInv, ServeLabels, TearingDown
    <2>4. QED
      BY <2>2, <2>3 DEF IInv
  <1>4. ASSUME NEW c \in Connections, Proceed(c) PROVE IInv'
    <2>1. CASE SessionGate(c)
      BY <2>1 DEF SessionGate, IInv, TypeOK, InHubWhileServing, OutboxClosedOnce, OnceInv, ServeLabels, TearingDown
    <2>3. CASE Return(c)
      BY <2>3 DEF Return, IInv, TypeOK, InHubWhileServing, OutboxClosedOnce, OnceInv, ServeLabels, TearingDown
    <2>4. CASE Register(c)
      BY <2>4 DEF Register, IInv, TypeOK, InHubWhileServing, OutboxClosedOnce, OnceInv, ServeLabels, TearingDown
    <2>5. CASE SetCloser(c)
      BY <2>5 DEF SetCloser, IInv, TypeOK, InHubWhileServing, OutboxClosedOnce, OnceInv, ServeLabels, TearingDown
    <2>6. CASE StartPump(c)
      BY <2>6 DEF StartPump, IInv, TypeOK, InHubWhileServing, OutboxClosedOnce, OnceInv, ServeLabels, PumpLabels, TearingDown
    <2>7. CASE LeaveReadLoop(c)
      BY <2>7 DEF LeaveReadLoop, IInv, TypeOK, InHubWhileServing, OutboxClosedOnce, OnceInv, ServeLabels, TearingDown
    <2>8. CASE EagerUnregister(c)
      <3>1. ~once[c]
        BY <2>8 DEF EagerUnregister, IInv, OnceInv, TearingDown
      <3>2. Unregister(c) /\ once' = [once EXCEPT ![c] = TRUE]
        BY <2>8, <3>1 DEF EagerUnregister, UnregisterOnce
      <3>3. QED
        BY <2>8, <3>1, <3>2 DEF EagerUnregister, Unregister, IInv, TypeOK, InHubWhileServing,
           OutboxClosedOnce, OnceInv, ServeLabels, TearingDown
    <2>9. CASE AwaitPump(c)
      BY <2>9 DEF AwaitPump, IInv, TypeOK, InHubWhileServing, OutboxClosedOnce, OnceInv, ServeLabels, TearingDown
    <2>10. CASE DeferredUnregister(c)
      <3>1. CASE once[c]
        <4>1. UNCHANGED <<rooms, closes>>
          BY <2>10, <3>1 DEF DeferredUnregister, UnregisterOnce
        <4>2. once' = once
          BY <2>10, <3>1 DEF DeferredUnregister, UnregisterOnce, IInv, TypeOK
        <4>3. QED
          BY <2>10, <3>1, <4>1, <4>2 DEF DeferredUnregister, IInv, TypeOK, InHubWhileServing,
             OutboxClosedOnce, OnceInv, ServeLabels, TearingDown
      <3>2. CASE ~once[c]
        <4>1. Unregister(c) /\ once' = [once EXCEPT ![c] = TRUE]
          BY <2>10, <3>2 DEF DeferredUnregister, UnregisterOnce
        <4>2. QED
          BY <2>10, <3>2, <4>1 DEF DeferredUnregister, Unregister, IInv, TypeOK, InHubWhileServing,
             OutboxClosedOnce, OnceInv, ServeLabels, TearingDown
      <3>3. QED
        BY <3>1, <3>2
    <2>11. QED
      BY <1>4, <2>1, <2>3, <2>4, <2>5, <2>6, <2>7, <2>8, <2>9, <2>10 DEF Proceed
  <1>5. ASSUME NEW c \in Connections, Take(c) PROVE IInv'
    <2>1. outbox' \in [Connections -> 0 .. OutboxSize]
      BY <1>5, OutboxAssumption DEF Take, IInv, TypeOK
    <2>2. TypeOK'
      BY <1>5, <2>1 DEF Take, IInv, TypeOK, PumpLabels
    <2>3. QED
      BY <1>5, <2>2, QuietStep DEF Take
  <1>6. ASSUME NEW c \in Connections, Written(c) \/ WriteFails(c) \/ Report(c) PROVE IInv'
    <2>1. TypeOK'
      BY <1>6 DEF Written, WriteFails, Report, IInv, TypeOK, PumpLabels
    <2>2. QED
      BY <1>6, <2>1, QuietStep DEF Written, WriteFails, Report
  <1>7. ASSUME NEW c \in Connections, CallCloser(c) \/ Disconnect(c) PROVE IInv'
    <2>1. TypeOK'
      BY <1>7 DEF CallCloser, Disconnect, IInv, TypeOK
    <2>2. QED
      BY <1>7, <2>1, QuietStep DEF CallCloser, Disconnect
  <1>8. ASSUME NEW s \in Senders, KickPlayer(s) PROVE IInv'
    <2>1. TypeOK'
      BY <1>8 DEF KickPlayer, IInv, TypeOK
    <2>2. QED
      BY <1>8, <2>1, QuietStep DEF KickPlayer
  <1>9. CASE SendFromElsewhere
    <2>1. outbox' \in [Connections -> 0 .. OutboxSize]
      BY <1>a, <1>9, SendBounded DEF SendFromElsewhere
    <2>2. TypeOK'
      BY <1>9, <2>1 DEF SendFromElsewhere, IInv, TypeOK
    <2>3. QED
      BY <1>9, <2>2, QuietStep DEF SendFromElsewhere
  <1>10. CASE UNCHANGED vars
    <2>1. TypeOK'
      BY <1>10 DEF vars, IInv, TypeOK
    <2>2. QED
      BY <1>10, <2>1, QuietStep DEF vars
  <1>11. ASSUME NEW c \in Connections, OwnWrite(c) PROVE IInv'
    <2>1. TypeOK'
      BY <1>11 DEF OwnWrite, RejectHandshake, SendSessionState, Reply, IInv, TypeOK, ServeLabels
    <2>2. (InHubWhileServing /\ OutboxClosedOnce /\ OnceInv)'
      BY <1>11 DEF OwnWrite, RejectHandshake, SendSessionState, Reply, IInv, TypeOK,
         InHubWhileServing, OutboxClosedOnce, OnceInv, TearingDown
    <2>3. QED
      BY <2>1, <2>2 DEF IInv
  <1>12. QED
    BY <1>1, <1>2, <1>3, <1>4, <1>5, <1>6, <1>7, <1>8, <1>9, <1>10, <1>11 DEF Next

\* The invariant the three results below are parts of.
THEOREM IInvHolds == Spec => []IInv
  BY InitIInv, NextIInv, PTL DEF Spec

\* Types of the connections' state.
THEOREM ConnectionsTypeCorrect == Spec => []TypeOK
  <1>1. IInv => TypeOK
    BY DEF IInv
  <1>2. QED
    BY <1>1, IInvHolds, PTL

\* However many tabs a player opens and however they end, a connection is in
\* the hub from Register to its own Unregister (server.go:555-604).
THEOREM RegisteredWhileServing == Spec => []InHubWhileServing
  <1>1. IInv => InHubWhileServing
    BY DEF IInv
  <1>2. QED
    BY <1>1, IInvHolds, PTL

\* The eager and the deferred unregister never close an outbox twice, and no
\* send finds a closed one (hub.go:79-95).
THEOREM NeverClosedTwice == Spec => []OutboxClosedOnce
  <1>1. IInv => OutboxClosedOnce
    BY DEF IInv
  <1>2. QED
    BY <1>1, IInvHolds, PTL

--------------------------------------------------------------------------------
(* The end of a connection: nobody waits for what does not come.           *)

Joining == {"handshake", "gate", "refusal", "sessionState", "register", "setCloser", "startPump"}

\* There is a write pump from startPump on, and it leaves one result behind
\* when it ends, which only the waiting reader takes.
PumpInv ==
  \A c \in Connections :
    /\ serve[c] \in Joining => ~once[c] /\ pump[c] = "none"
    /\ serve[c] \in {"read", "dispatch", "reply", "unregister", "awaitPump", "deferred"} => pump[c] # "none"
    /\ serve[c] \in {"return", "ended"} /\ pump[c] # "none" => once[c]
    /\ writeDone[c] = 1 => pump[c] = "done"
    /\ pump[c] = "done" => writeDone[c] = 1 \/ serve[c] \in {"deferred", "return", "ended"}

\* A reader that waits for its pump has the result or a pump that is still to
\* report; the channel has room when the pump reports; and the outbox is closed
\* by the time the reader waits or is gone, so the pump's range comes to an end.
NobodyIsForgotten ==
  \A c \in Connections :
    /\ At(c, "awaitPump") => writeDone[c] = 1 \/ pump[c] \in {"take", "write", "report"}
    /\ PumpAt(c, "report") => writeDone[c] = 0
    /\ pump[c] # "none" /\ serve[c] \in {"awaitPump", "return", "ended"} => closes[c] = 1

\* Nothing is put into an outbox that was closed.
ClosedOutboxDrains ==
  [][ \A c \in Connections : closes[c] > 0 => outbox'[c] <= outbox[c] ]_vars

LEMMA InitPumpInv == Init => PumpInv
  <1> SUFFICES ASSUME Init PROVE PumpInv
    OBVIOUS
  <1>1. \A c \in Connections : serve[c] = "handshake" /\ pump[c] = "none" /\ writeDone[c] = 0
    BY DEF Init
  <1>2. \A c \in Connections : ~once[c]
    BY DEF Init
  <1>3. ASSUME NEW c \in Connections
        PROVE  /\ serve[c] \notin {"read", "dispatch", "reply", "unregister", "awaitPump", "deferred", "return", "ended"}
               /\ writeDone[c] # 1 /\ pump[c] # "done" /\ pump[c] = "none"
    BY <1>1
  <1>4. QED
    BY <1>2, <1>3, Zenon DEF PumpInv, Joining

\* Each step leaves a result in the channel as long as somebody may wait for it.
LEMMA NextPumpInv == IInv /\ PumpInv /\ [Next]_vars => PumpInv'
  <1> SUFFICES ASSUME IInv, PumpInv, [Next]_vars PROVE PumpInv'
    OBVIOUS
  <1> USE DEF At, Goto, PumpAt, PumpGoto
  <1>a. TypeOK /\ OnceInv
    BY DEF IInv
  <1>1. ASSUME NEW c \in Connections, ReceiveHandshake(c) \/ ReadMessage(c) \/ Dispatch(c) PROVE PumpInv'
    BY <1>a, <1>1 DEF ReceiveHandshake, ReadMessage, Dispatch, TypeOK, PumpInv, Joining
  <1>2. ASSUME NEW c \in Connections, SessionGate(c) \/ OwnWrite(c) \/ Return(c) PROVE PumpInv'
    BY <1>a, <1>2 DEF SessionGate, OwnWrite, RejectHandshake, SendSessionState, Reply, Return, TypeOK, PumpInv, Joining
  <1>3. ASSUME NEW c \in Connections, Register(c) \/ SetCloser(c) \/ StartPump(c) \/ LeaveReadLoop(c) PROVE PumpInv'
    BY <1>a, <1>3 DEF Register, SetCloser, StartPump, LeaveReadLoop, TypeOK, PumpInv, Joining
  <1>4. ASSUME NEW c \in Connections, EagerUnregister(c) \/ DeferredUnregister(c) PROVE PumpInv'
    <2>1. once' = [once EXCEPT ![c] = TRUE] /\ UNCHANGED <<pump, writeDone>>
      BY <1>4 DEF EagerUnregister, DeferredUnregister, UnregisterOnce
    <2>2. \/ At(c, "unregister") /\ Goto(c, "awaitPump")
          \/ At(c, "deferred") /\ Goto(c, "return")
      BY <1>4 DEF EagerUnregister, DeferredUnregister
    <2>3. QED
      BY <1>a, <2>1, <2>2 DEF TypeOK, PumpInv, Joining
  <1>5. ASSUME NEW c \in Connections, AwaitPump(c) PROVE PumpInv'
    BY <1>a, <1>5 DEF AwaitPump, TypeOK, PumpInv, Joining
  <1>6. ASSUME NEW c \in Connections, Take(c) \/ Written(c) \/ WriteFails(c) PROVE PumpInv'
    BY <1>a, <1>6 DEF Take, Written, WriteFails, TypeOK, PumpInv, Joining
  <1>7. ASSUME NEW c \in Connections, Report(c) PROVE PumpInv'
    BY <1>a, <1>7 DEF Report, TypeOK, PumpInv, Joining
  <1>8. CASE UNCHANGED <<serve, pump, once, writeDone>>
    BY <1>8 DEF PumpInv
  <1>9. QED
    BY <1>1, <1>2, <1>3, <1>4, <1>5, <1>6, <1>7, <1>8
    DEF Next, Proceed, CallCloser, Disconnect, KickPlayer, SendFromElsewhere, vars

\* The invariant of the connections and of their pumps.
THEOREM PumpInvHolds == Spec => [](IInv /\ PumpInv)
  <1>1. IInv /\ PumpInv /\ [Next]_vars => (IInv /\ PumpInv)'
    BY NextIInv, NextPumpInv
  <1>2. Init => IInv /\ PumpInv
    BY InitIInv, InitPumpInv
  <1>3. QED
    BY <1>1, <1>2, PTL DEF Spec

\* However a connection ends, its reader never waits for a result that nobody
\* will send, its pump never waits for room in the result channel, and the pump
\* of a reader that waits or is gone has a closed outbox to run to the end of
\* (server.go:560-604).
THEOREM NobodyForgotten == Spec => []NobodyIsForgotten
  <1>1. IInv /\ PumpInv => NobodyIsForgotten
    <2> SUFFICES ASSUME IInv, PumpInv, NEW c \in Connections
                 PROVE /\ At(c, "awaitPump") => writeDone[c] = 1 \/ pump[c] \in {"take", "write", "report"}
                       /\ PumpAt(c, "report") => writeDone[c] = 0
                       /\ pump[c] # "none" /\ serve[c] \in {"awaitPump", "return", "ended"} => closes[c] = 1
      BY DEF NobodyIsForgotten
    <2>1. pump[c] \in PumpLabels /\ writeDone[c] \in 0 .. 1
      BY DEF IInv, TypeOK
    <2>2. once[c] => closes[c] = 1
      BY DEF IInv, OnceInv
    <2>3. At(c, "awaitPump") => once[c]
      BY DEF IInv, OnceInv, At
    <2>4. QED
      BY <2>1, <2>2, <2>3 DEF PumpInv, PumpLabels, At, PumpAt
  <1>2. QED
    BY <1>1, PumpInvHolds, PTL

\* A pump whose outbox was closed has ever fewer messages to write, whatever
\* the hub is asked to send meanwhile (hub.go:79-119).
THEOREM OutboxesDrain == Spec => ClosedOutboxDrains
  <1> DEFINE Drains == \A c \in Connections : closes[c] > 0 => outbox'[c] <= outbox[c]
  <1>1. IInv /\ [Next]_vars => [Drains]_vars
    <2> SUFFICES ASSUME IInv, Next, NEW c \in Connections, closes[c] > 0
                 PROVE  outbox'[c] <= outbox[c]
      OBVIOUS
    <2>1. outbox \in [Connections -> 0 .. OutboxSize] /\ outbox[c] \in Nat /\ c \notin rooms
      BY OutboxAssumption DEF IInv, TypeOK, InHubWhileServing
    <2>2. ASSUME NEW S, Push(S) PROVE outbox'[c] <= outbox[c]
      BY <2>1, <2>2 DEF Push
    <2>3. CASE UNCHANGED outbox
      BY <2>1, <2>3
    <2>4. ASSUME NEW s, HubSend(s) PROVE outbox'[c] <= outbox[c]
      BY <2>2, <2>3, <2>4 DEF HubSend
    <2>5. ASSUME NEW d \in Connections, Take(d) PROVE outbox'[c] <= outbox[c]
      <3>1. CASE outbox' = [outbox EXCEPT ![d] = @ - 1]
        BY <2>1, <3>1
      <3>2. QED
        BY <2>3, <2>5, <3>1 DEF Take
    <2>6. ASSUME NEW d \in Connections, Proceed(d) PROVE UNCHANGED outbox
      BY <2>6 DEF Proceed, SessionGate, Return, Register, SetCloser, StartPump,
                  LeaveReadLoop, EagerUnregister, AwaitPump, DeferredUnregister
    <2>7. QED
      BY <2>3, <2>4, <2>5, <2>6
      DEF Next, ReceiveHandshake, ReadMessage, Dispatch, OwnWrite, RejectHandshake, SendSessionState, Reply, Written, WriteFails, Report, CallCloser,
          Disconnect, KickPlayer, SendFromElsewhere
  <1>2. QED
    BY <1>1, IInvHolds, PTL DEF Spec, ClosedOutboxDrains
================================================================================
