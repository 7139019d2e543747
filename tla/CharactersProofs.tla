---------------------------- MODULE CharactersProofs ----------------------------
(***************************************************************************)
(* For any players, characters, campaigns and number of calls at once: the *)
(* types, OnlyVettedCharactersPlay and NoHarmWithoutPolicy.                *)
(*                                                                         *)
(* None of the three is inductive: what is wrong in a copy of a row is in  *)
(* the table as soon as the copy is saved.  The invariant says of every    *)
(* copy in hand what the properties say of the rows, and that a hit which  *)
(* is about to be saved was allowed.                                       *)
(***************************************************************************)
EXTENDS Characters, TLAPS

\* A row, or a copy of it.
RowOK(i, row) ==
  /\ row \in Row /\ i \in used
  /\ row.status = "approved" => i \in vetted
  /\ row.harmed => everPvp

HoldsTarget == {"allow", "resolve", "save", "engine", "gate", "saveBlocked", "saveActor"}
HoldsActor == {"roll", "target", "engine", "gate", "saveBlocked", "saveActor"}
HitAllowed == {"resolve", "save", "saveActor"}

\* What a call has in hand.
CallOK(c) ==
  /\ c \in Calls
  /\ c.pc \in HoldsTarget => RowOK(c.target, c.theirs)
  /\ c.pc \in HitAllowed => (c.hit => everPvp)
  /\ c.pc \in HoldsActor => RowOK(c.actor, c.mine) /\ (c.mine.owner = Master \/ c.actor \in vetted)

ReviewOK(i, r) ==
  /\ r \in Reviews
  /\ r # NoReview => i \in used
  /\ r.pc = "save" => (r.row.harmed => everPvp)

HostOK(h) ==
  /\ h \in {NoHost} \cup [pc : {"save"}, id : Ids, row : Row]
  /\ h.pc = "save" => h.id \in used /\ (h.row.harmed => everPvp)

RowsOK == rows \in [Ids -> Row \cup {NoRow}] /\ \A i \in Ids : Exists(i) => RowOK(i, rows[i])
CallsOK == call \in [Passes -> Calls] /\ \A p \in Passes : CallOK(call[p])
ReviewsOK == review \in [Ids -> Reviews] /\ \A i \in Ids : ReviewOK(i, review[i])
HistoryOK ==
  /\ used \subseteq Ids /\ vetted \subseteq used
  /\ pvp \in BOOLEAN /\ everPvp \in BOOLEAN /\ (pvp => everPvp)

IInv == RowsOK /\ CallsOK /\ ReviewsOK /\ HostOK(host) /\ HistoryOK

--------------------------------------------------------------------------------
(* The initial states, and what the invariant gives.                       *)

LEMMA Starts == Init => IInv
<1> SUFFICES ASSUME Init PROVE IInv
  OBVIOUS
<1>1. RowsOK /\ HistoryOK
  BY DEF Init, RowsOK, Exists, HistoryOK
<1>2. CallsOK
  BY DEF Init, CallsOK, CallOK, Calls, NoCall, HoldsTarget, HoldsActor, HitAllowed
<1>3. ReviewsOK /\ HostOK(host)
  BY DEF Init, ReviewsOK, ReviewOK, Reviews, NoReview, HostOK, NoHost
<1> QED
  BY <1>1, <1>2, <1>3 DEF IInv

LEMMA ActorsHoldTheirRow ==
  ASSUME NEW c \in Calls, HasActor(c) PROVE c.pc \in HoldsActor
BY DEF HasActor, RollCall, ActorCall, TwoRowCall, HoldsActor

LEMMA Suffices == IInv => TypeOK /\ OnlyVettedCharactersPlay /\ NoHarmWithoutPolicy
<1> SUFFICES ASSUME IInv PROVE TypeOK /\ OnlyVettedCharactersPlay /\ NoHarmWithoutPolicy
  OBVIOUS
<1>1. TypeOK
  BY DEF IInv, RowsOK, RowOK, CallsOK, ReviewsOK, HostOK, HistoryOK, TypeOK
<1>2. OnlyVettedCharactersPlay
  BY ActorsHoldTheirRow DEF IInv, RowsOK, RowOK, CallsOK, CallOK, OnlyVettedCharactersPlay
<1>3. NoHarmWithoutPolicy
  BY DEF IInv, RowsOK, RowOK, NoHarmWithoutPolicy
<1> QED
  BY <1>1, <1>2, <1>3

--------------------------------------------------------------------------------
(* Steps of a kind.                                                        *)

\* What is given to a character, or allowed, stays so; so do the copies.
History == used \subseteq used' /\ vetted \subseteq vetted' /\ (everPvp => everPvp')

LEMMA RowsStayOK ==
  ASSUME History, NEW i, NEW row, RowOK(i, row) PROVE RowOK(i, row)'
BY DEF History, RowOK

LEMMA CallsStayOK ==
  ASSUME History, NEW c, CallOK(c) PROVE CallOK(c)'
BY DEF History, CallOK, RowOK

LEMMA ReviewsStayOK ==
  ASSUME History, NEW i, NEW r, ReviewOK(i, r) PROVE ReviewOK(i, r)'
BY DEF History, ReviewOK

LEMMA HostStaysOK ==
  ASSUME History, NEW h, HostOK(h) PROVE HostOK(h)'
BY DEF History, HostOK

\* A call goes on with a good copy, the table as it was.
LEMMA StepKeeps ==
  ASSUME IInv, NEW p \in Passes, NEW n, CallOK(n), Step(p, n), UNCHANGED rows
  PROVE  IInv'
<1>1. History
  BY DEF Step, History
<1>2. call' = [call EXCEPT ![p] = n]
  BY DEF Step
<1>3. CallsOK'
  BY <1>1, <1>2, CallsStayOK DEF IInv, CallsOK, CallOK
<1> QED
  BY <1>3 DEF Step, IInv, RowsOK, RowOK, Exists, ReviewsOK, ReviewOK, HostOK, HistoryOK

\* A call saves a good row and goes on.
LEMMA SaveKeeps ==
  ASSUME IInv, NEW p \in Passes, NEW n, CallOK(n), Step(p, n),
         NEW i \in Ids, NEW row, RowOK(i, row), SaveCharacter(i, row)
  PROVE  IInv'
<1>1. History
  BY DEF Step, History
<1>2. call' = [call EXCEPT ![p] = n]
  BY DEF Step
<1>3. CallsOK'
  BY <1>1, <1>2, CallsStayOK DEF IInv, CallsOK, CallOK
<1>4. RowsOK'
  BY DEF Step, SaveCharacter, IInv, RowsOK, RowOK, Exists
<1> QED
  BY <1>3, <1>4 DEF Step, IInv, ReviewsOK, ReviewOK, HostOK, HistoryOK

\* A review goes on with a good copy, the table as it was.
LEMMA ReviewKeeps ==
  ASSUME IInv, NEW i \in Ids, NEW n, ReviewOK(i, n), ReviewGoto(i, n)
  PROVE  IInv'
<1>1. History
  BY DEF ReviewGoto, ReviewStep, History
<1>2. review' = [review EXCEPT ![i] = n]
  BY DEF ReviewGoto, ReviewStep
<1>3. ReviewsOK'
  BY <1>1, <1>2, ReviewsStayOK DEF IInv, ReviewsOK, ReviewOK
<1>4. CallsOK'
  BY <1>1, CallsStayOK DEF ReviewGoto, ReviewStep, IInv, CallsOK
<1>5. RowsOK' /\ HostOK(host)' /\ HistoryOK'
  BY DEF ReviewGoto, ReviewStep, IInv, RowsOK, RowOK, Exists, HostOK, HistoryOK
<1> QED
  BY <1>3, <1>4, <1>5 DEF IInv

\* The review or the Host saves a row; saved as approved, it has been vetted.
LEMMA VetKeepsRows ==
  ASSUME IInv, NEW i \in Ids, NEW row \in Row, i \in used, row.harmed => everPvp,
         Vet(i, row), UNCHANGED <<used, everPvp, pvp>>
  PROVE  History /\ RowsOK' /\ HistoryOK'
<1>1. History
  BY DEF Vet, History
<1>2. RowOK(i, row)'
  BY DEF Vet, RowOK
<1>3. RowsOK'
  BY <1>1, <1>2, RowsStayOK DEF Vet, SaveCharacter, IInv, RowsOK, Exists, RowOK
<1>4. HistoryOK'
  BY DEF Vet, IInv, HistoryOK
<1> QED
  BY <1>1, <1>3, <1>4

--------------------------------------------------------------------------------
(* The calls.                                                              *)

\* A call's place tells what it has in hand.
LEMMA Kinds ==
  ASSUME NEW c \in Calls
  PROVE  /\ c.pc = "idle" => c = NoCall
         /\ c.pc \in {"allow", "resolve", "save"} => c \in OneRowCall
         /\ c.pc = "target" => c \in ActorCall
         /\ c.pc \in {"engine", "gate", "saveBlocked", "saveActor"} => c \in TwoRowCall
BY DEF Calls, NoCall, OneRowCall, RollCall, ActorCall, TwoRowCall

LEMMA NoCallOK == CallOK(NoCall)
BY DEF CallOK, NoCall, Calls, HoldsTarget, HoldsActor, HitAllowed

LEMMA FailKeeps ==
  ASSUME IInv, NEW p \in Passes, Fail(p) PROVE IInv'
BY NoCallOK, StepKeeps DEF Fail

\* A row that was just read is as good as the table.
LEMMA ReadRow ==
  ASSUME IInv, NEW i \in Ids, CampaignCharacter(i) PROVE RowOK(i, rows[i])
BY DEF CampaignCharacter, IInv, RowsOK

LEMMA ChangeRowKeeps ==
  ASSUME IInv, NEW p \in Passes, NEW t \in Ids, NEW pc, NEW hit \in BOOLEAN,
         \/ pc = "resolve" /\ hit = FALSE
         \/ pc = "allow",
         ChangeRow(p, t, pc, hit)
  PROVE  IInv'
<1>1. PICK n : n = [pc |-> pc, target |-> t, theirs |-> rows[t], hit |-> hit]
  OBVIOUS
<1>2. RowOK(t, rows[t])
  BY ReadRow DEF ChangeRow
<1>3. n \in OneRowCall
  BY <1>1, <1>2 DEF RowOK, OneRowCall
<1>4. CallOK(n)
  BY <1>1, <1>2, <1>3 DEF CallOK, Calls, HoldsTarget, HoldsActor, HitAllowed
<1>5. Step(p, n) /\ UNCHANGED rows
  BY <1>1 DEF ChangeRow, Start
<1> QED
  BY <1>4, <1>5, StepKeeps

LEMMA OneRowToolsKeep ==
  ASSUME IInv, NEW p \in Passes, NEW by \in Senders, NEW t \in Ids, NEW b \in BOOLEAN,
         DmApplyEffect(p, by, t, b)
  PROVE  IInv'
<1>1. CASE ChangeRow(p, t, "allow", TRUE)
  BY <1>1, ChangeRowKeeps
<1>2. CASE ChangeRow(p, t, "resolve", FALSE)
  BY <1>2, ChangeRowKeeps
<1> QED
  BY <1>1, <1>2 DEF DmApplyEffect

LEMMA RollKeeps ==
  ASSUME IInv, NEW p \in Passes, NEW a \in Ids, CampaignCharacter(a),
         rows[a].owner = Master \/ rows[a].status = "approved",
         Start(p, [pc |-> "roll", actor |-> a, mine |-> rows[a]])
  PROVE  IInv'
<1>1. PICK n : n = [pc |-> "roll", actor |-> a, mine |-> rows[a]]
  OBVIOUS
<1>2. RowOK(a, rows[a])
  BY ReadRow
<1>3. n \in RollCall
  BY <1>1, <1>2 DEF RowOK, RollCall
<1>4. CallOK(n)
  BY <1>1, <1>2, <1>3 DEF CallOK, RowOK, Calls, HoldsTarget, HoldsActor, HitAllowed
<1> QED
  BY <1>1, <1>4, StepKeeps DEF Start

LEMMA ReadActorKeeps ==
  ASSUME IInv, NEW p \in Passes, NEW by \in Senders, NEW a \in Ids, NEW t \in Ids,
         ReadActor(p, by, a, t)
  PROVE  IInv'
<1>1. PICK n : n = [pc |-> "target", by |-> by, actor |-> a, mine |-> rows[a], target |-> t]
  OBVIOUS
<1>2. RowOK(a, rows[a])
  BY ReadRow DEF ReadActor
<1>3. n \in ActorCall
  BY <1>1, <1>2 DEF RowOK, ActorCall
<1>4. CallOK(n)
  BY <1>1, <1>2, <1>3 DEF ReadActor, CharacterMayAct, CallOK, RowOK, Calls, HoldsTarget, HoldsActor, HitAllowed
<1> QED
  BY <1>1, <1>4, StepKeeps DEF ReadActor, Start

LEMMA BeginKeeps ==
  ASSUME IInv, NEW p \in Passes, Begin(p) PROVE IInv'
<1>1. PICK by \in Senders, t \in Ids :
    \/ DmEquipItem(p, t) \/ DmUnequipItem(p, t) \/ DmPackItem(p, t) \/ DmDrawItem(p, t)
    \/ DmReceiveItem(p, t) \/ DmDiscardItem(p, t) \/ DmAddCurrency(p, t)
    \/ ApplyCharacterEffect(p, by, t) \/ DmResolveCheck(p, t) \/ ResolveCheck(p, by, t)
    \/ \E b \in BOOLEAN : DmApplyEffect(p, by, t, b) \/ DmSpendCurrency(p, by, t, b)
    \/ \E a \in Ids : \/ DmAttack(p, by, a, t) \/ DmCastSpell(p, by, a, t)
                      \/ DmGrapple(p, by, a, t) \/ DmShove(p, by, a, t)
  BY DEF Begin
<1>2. CASE ChangeRow(p, t, "resolve", FALSE)
  BY <1>2, ChangeRowKeeps
<1>3. CASE DmResolveCheck(p, t)
  BY <1>3, RollKeeps DEF DmResolveCheck, CharacterMayAct
<1>4. CASE ResolveCheck(p, by, t)
  BY <1>4, RollKeeps DEF ResolveCheck
<1>5. CASE \E b \in BOOLEAN : DmApplyEffect(p, by, t, b) \/ DmSpendCurrency(p, by, t, b)
  BY <1>5, OneRowToolsKeep DEF DmSpendCurrency
<1>6. CASE \E a \in Ids : DmAttack(p, by, a, t) \/ DmGrapple(p, by, a, t) \/ DmShove(p, by, a, t)
  BY <1>6, ReadActorKeeps DEF DmAttack, DmGrapple, DmShove
<1>7. CASE \E a \in Ids : DmCastSpell(p, by, a, t)
  BY <1>7, ReadActorKeeps, ChangeRowKeeps DEF DmCastSpell
<1> QED
  BY <1>1, <1>2, <1>3, <1>4, <1>5, <1>6, <1>7
  DEF DmEquipItem, DmUnequipItem, DmPackItem, DmDrawItem, DmReceiveItem, DmDiscardItem, DmAddCurrency,
      ApplyCharacterEffect

LEMMA ReadTargetKeeps ==
  ASSUME IInv, NEW p \in Passes, ReadTarget(p) PROVE IInv'
<1> DEFINE c == call[p]
<1>1. c \in ActorCall /\ RowOK(c.actor, c.mine) /\ (c.mine.owner = Master \/ c.actor \in vetted)
  BY Kinds DEF ReadTarget, At, IInv, CallsOK, CallOK, HoldsActor
<1>2. CASE CampaignCharacter(c.target)
  <2>1. PICK n : n = [pc |-> "engine", actor |-> c.actor, mine |-> c.mine, target |-> c.target,
                      theirs |-> rows[c.target], hit |-> Protected(rows[c.target], c.by)]
    OBVIOUS
  <2>2. c.target \in Ids /\ c.actor \in Ids
    BY <1>1 DEF ActorCall
  <2>3. RowOK(c.target, rows[c.target])
    BY <1>2, <2>2, ReadRow
  <2>4. Protected(rows[c.target], c.by) \in BOOLEAN
    BY DEF Protected
  <2>5. n \in TwoRowCall
    BY <1>1, <2>1, <2>2, <2>3, <2>4 DEF RowOK, TwoRowCall
  <2>6. CallOK(n)
    BY <1>1, <2>1, <2>3, <2>5 DEF CallOK, Calls, HoldsTarget, HoldsActor, HitAllowed
  <2> QED
    BY <1>2, <2>1, <2>6, StepKeeps DEF ReadTarget
<1>3. CASE Fail(p)
  BY <1>3, FailKeeps
<1> QED
  BY <1>2, <1>3 DEF ReadTarget

\* A call of one kind goes on to another place of the same kind.
LEMMA GotoKeeps ==
  ASSUME IInv, NEW p \in Passes, NEW pc, Goto(p, pc),
         \/ call[p].pc \in {"allow", "resolve", "save"} /\ pc \in {"resolve", "save"}
         \/ call[p].pc = "gate" /\ pc \in {"saveBlocked", "saveActor"},
         pc \in HitAllowed => (call[p].hit => everPvp)
  PROVE  IInv'
<1>1. PICK n : n = [call[p] EXCEPT !.pc = pc]
  OBVIOUS
<1>2. call[p] \in Calls /\ CallOK(call[p])
  BY DEF IInv, CallsOK
<1>3. CASE call[p].pc \in {"allow", "resolve", "save"} /\ pc \in {"resolve", "save"}
  <2>1. call[p] \in OneRowCall
    BY <1>2, <1>3, Kinds
  <2>2. n \in OneRowCall /\ n.pc = pc /\ n.target = call[p].target /\ n.theirs = call[p].theirs
        /\ n.hit = call[p].hit
    BY <1>1, <1>3, <2>1 DEF OneRowCall
  <2>3. CallOK(n)
    BY <1>2, <1>3, <2>2 DEF CallOK, Calls, HoldsTarget, HoldsActor, HitAllowed
  <2> QED
    BY <1>1, <2>3, StepKeeps DEF Goto
<1>4. CASE call[p].pc = "gate" /\ pc \in {"saveBlocked", "saveActor"}
  <2>1. call[p] \in TwoRowCall
    BY <1>2, <1>4, Kinds
  <2>2. n \in TwoRowCall /\ n.pc = pc /\ n.target = call[p].target /\ n.theirs = call[p].theirs
        /\ n.hit = call[p].hit /\ n.actor = call[p].actor /\ n.mine = call[p].mine
    BY <1>1, <1>4, <2>1 DEF TwoRowCall
  <2>3. CallOK(n)
    BY <1>2, <1>4, <2>2 DEF CallOK, Calls, HoldsTarget, HoldsActor, HitAllowed
  <2> QED
    BY <1>1, <2>3, StepKeeps DEF Goto
<1> QED
  BY <1>3, <1>4

\* The engine's answer, and the two that lead to the gate and from it.
LEMMA EngineKeeps ==
  ASSUME IInv, NEW p \in Passes, Engine(p) PROVE IInv'
<1>1. call[p] \in TwoRowCall /\ CallOK(call[p]) /\ call[p].pc = "engine"
  BY Kinds DEF Engine, At, IInv, CallsOK
<1>2. CASE Fail(p)
  BY <1>2, FailKeeps
<1>3. CASE Step(p, [call[p] EXCEPT !.pc = "saveActor", !.hit = FALSE]) /\ UNCHANGED rows
  <2>1. PICK n : n = [call[p] EXCEPT !.pc = "saveActor", !.hit = FALSE]
    OBVIOUS
  <2>2. n \in TwoRowCall /\ n.pc = "saveActor" /\ n.target = call[p].target /\ n.theirs = call[p].theirs
        /\ n.hit = FALSE /\ n.actor = call[p].actor /\ n.mine = call[p].mine
    BY <1>1, <2>1 DEF TwoRowCall
  <2>3. CallOK(n)
    BY <1>1, <2>2 DEF CallOK, Calls, HoldsTarget, HoldsActor, HitAllowed
  <2> QED
    BY <1>3, <2>1, <2>3, StepKeeps
<1>4. CASE Goto(p, "gate")
  <2>1. PICK n : n = [call[p] EXCEPT !.pc = "gate"]
    OBVIOUS
  <2>2. n \in TwoRowCall /\ n.pc = "gate" /\ n.target = call[p].target /\ n.theirs = call[p].theirs
        /\ n.actor = call[p].actor /\ n.mine = call[p].mine
    BY <1>1, <2>1 DEF TwoRowCall
  <2>3. CallOK(n)
    BY <1>1, <2>2 DEF CallOK, Calls, HoldsTarget, HoldsActor, HitAllowed
  <2> QED
    BY <1>4, <2>1, <2>3, StepKeeps DEF Goto
<1> QED
  BY <1>2, <1>3, <1>4 DEF Engine

LEMMA SaveActorKeeps ==
  ASSUME IInv, NEW p \in Passes, SaveActor(p) PROVE IInv'
<1>1. call[p] \in TwoRowCall /\ CallOK(call[p]) /\ call[p].pc \in {"saveActor", "saveBlocked"}
  BY Kinds DEF SaveActor, At, IInv, CallsOK
<1>2. CASE Fail(p)
  BY <1>2, FailKeeps
<1>3. CASE SaveCharacter(call[p].actor, call[p].mine) /\ Step(p, AfterActor(p))
  <2>1. PICK n : n = AfterActor(p)
    OBVIOUS
  <2>2. CallOK(n)
    <3>1. CASE call[p].pc = "saveBlocked"
      BY <2>1, <3>1, NoCallOK DEF AfterActor, At
    <3>2. CASE call[p].pc = "saveActor"
      <4>1. n = [pc |-> "save", target |-> call[p].target, theirs |-> call[p].theirs, hit |-> call[p].hit]
        BY <2>1, <3>2 DEF AfterActor, ToTarget, At
      <4>2. n \in OneRowCall
        BY <1>1, <4>1 DEF TwoRowCall, OneRowCall
      <4> QED
        BY <1>1, <3>2, <4>1, <4>2 DEF CallOK, Calls, HoldsTarget, HoldsActor, HitAllowed
    <3> QED
      BY <1>1, <3>1, <3>2
  <2>3. call[p].actor \in Ids /\ RowOK(call[p].actor, call[p].mine)
    BY <1>1 DEF TwoRowCall, CallOK, HoldsActor
  <2> QED
    BY <1>3, <2>1, <2>2, <2>3, SaveKeeps
<1> QED
  BY <1>2, <1>3 DEF SaveActor

\* The blow is saved with the copy: it was allowed.
LEMMA SaveTargetKeeps ==
  ASSUME IInv, NEW p \in Passes, SaveTarget(p) PROVE IInv'
<1>1. call[p] \in OneRowCall /\ CallOK(call[p]) /\ call[p].pc = "save"
  BY Kinds DEF SaveTarget, At, IInv, CallsOK
<1>2. CASE Fail(p)
  BY <1>2, FailKeeps
<1>3. CASE SaveCharacter(call[p].target, Struck(p)) /\ Step(p, NoCall)
  <2>1. call[p].target \in Ids /\ call[p].theirs \in Row /\ call[p].hit \in BOOLEAN
    BY <1>1 DEF OneRowCall
  <2>2. RowOK(call[p].target, call[p].theirs) /\ (call[p].hit => everPvp)
    BY <1>1 DEF CallOK, HoldsTarget, HitAllowed
  <2>3. /\ Struck(p) \in Row /\ Struck(p).status = call[p].theirs.status
        /\ Struck(p).harmed <=> call[p].theirs.harmed \/ call[p].hit
    BY <2>1 DEF Struck, Row
  <2>4. RowOK(call[p].target, Struck(p))
    BY <2>2, <2>3 DEF RowOK
  <2> QED
    BY <1>3, <2>1, <2>4, NoCallOK, SaveKeeps
<1> QED
  BY <1>2, <1>3 DEF SaveTarget

LEMMA ContinueKeeps ==
  ASSUME IInv, NEW p \in Passes, Continue(p) PROVE IInv'
<1>1. CASE ReadTarget(p) \/ Engine(p) \/ SaveActor(p) \/ SaveTarget(p)
  BY <1>1, ReadTargetKeeps, EngineKeeps, SaveActorKeeps, SaveTargetKeeps
<1>2. CASE Allow(p)
  BY <1>2, FailKeeps, GotoKeeps DEF Allow, At, IInv, HistoryOK
<1>3. CASE Resolve(p)
  <2>1. call[p].hit => everPvp
    BY <1>3 DEF Resolve, At, IInv, CallsOK, CallOK, HitAllowed
  <2> QED
    BY <1>3, <2>1, FailKeeps, GotoKeeps DEF Resolve, At
<1>4. CASE Gate(p)
  BY <1>4, GotoKeeps DEF Gate, At, IInv, HistoryOK, HitAllowed
<1>5. CASE RollEnds(p)
  BY <1>5, FailKeeps DEF RollEnds
<1> QED
  BY <1>1, <1>2, <1>3, <1>4, <1>5 DEF Continue

--------------------------------------------------------------------------------
(* Creations, reviews and the Host.                                        *)

\* A fresh id: no copy of a row and no history speaks of it.
LEMMA NewRowKeeps ==
  ASSUME IInv, NEW i \in Ids, NEW o \in Senders, NEW status \in Verdicts \cup {"pending"},
         NewRow(i, o, status), NEW r \in {NoReview, [pc |-> "level"]},
         review' = review \/ review' = [review EXCEPT ![i] = r],
         vetted \subseteq vetted', vetted' \subseteq vetted \cup {i},
         status = "approved" => i \in vetted'
  PROVE  IInv'
<1>1. History
  BY DEF NewRow, History
<1>2. RowOK(i, [campaign |-> Table, owner |-> o, status |-> status, harmed |-> FALSE])'
  BY TableAssumption DEF NewRow, RowOK, Row
<1>3. RowsOK'
  BY <1>1, <1>2, RowsStayOK DEF NewRow, SaveCharacter, IInv, RowsOK, Exists, RowOK
<1>4. CallsOK'
  BY <1>1, CallsStayOK DEF NewRow, IInv, CallsOK
<1>5. ReviewOK(i, r)'
  BY DEF NewRow, ReviewOK, Reviews, NoReview
<1>6. ReviewsOK'
  BY <1>1, <1>5, ReviewsStayOK DEF IInv, ReviewsOK, ReviewOK
<1>7. HostOK(host)' /\ HistoryOK'
  BY <1>1, HostStaysOK DEF NewRow, IInv, HistoryOK
<1> QED
  BY <1>3, <1>4, <1>6, <1>7 DEF IInv

LEMMA CreationsKeep ==
  ASSUME IInv, NEW i \in Ids, Creations(i) PROVE IInv'
<1>1. CASE DmCreateNPC(i)
  BY <1>1, NewRowKeeps DEF DmCreateNPC, Senders
<1>2. ASSUME NEW s \in Players, ImportCharacter(i, s) PROVE IInv'
  <2>1. PICK r : r = [pc |-> "level"]
    OBVIOUS
  <2>2. /\ s \in Senders /\ "pending" \in Verdicts \cup {"pending"} /\ r \in {NoReview, [pc |-> "level"]}
        /\ NewRow(i, s, "pending") /\ review' = [review EXCEPT ![i] = r] /\ vetted' = vetted
    BY <1>2, <2>1 DEF ImportCharacter, Senders
  <2> QED
    BY <2>2, NewRowKeeps
<1>3. ASSUME NEW s \in Players, MakeApproved(i, s) PROVE IInv'
  BY <1>3, NewRowKeeps DEF MakeApproved, Senders, Verdicts
<1> QED
  BY <1>1, <1>2, <1>3 DEF Creations, FinishCreationRoll, ClaimPregen

LEMMA SaveVerdictKeeps ==
  ASSUME IInv, NEW i \in Ids, SaveVerdict(i) PROVE IInv'
<1>1. ReviewOK(i, NoReview)
  BY DEF ReviewOK, Reviews, NoReview
<1>2. CASE ReviewGoto(i, NoReview)
  BY <1>1, <1>2, ReviewKeeps
<1>3. CASE Vet(i, review[i].row) /\ ReviewStep(i, NoReview)
  <2>1. review[i].row \in Row /\ i \in used /\ (review[i].row.harmed => everPvp)
    BY DEF SaveVerdict, ReviewAt, IInv, ReviewsOK, ReviewOK, Reviews, NoReview
  <2>2. History /\ RowsOK' /\ HistoryOK'
    BY <1>3, <2>1, VetKeepsRows DEF ReviewStep
  <2>3. CallsOK'
    BY <1>3, <2>2, CallsStayOK DEF ReviewStep, IInv, CallsOK
  <2>4. ReviewsOK'
    BY <1>1, <1>3, <2>2, ReviewsStayOK DEF ReviewStep, IInv, ReviewsOK, ReviewOK
  <2>5. HostOK(host)'
    BY <1>3, <2>2, HostStaysOK DEF ReviewStep, IInv
  <2> QED
    BY <2>2, <2>3, <2>4, <2>5 DEF IInv
<1> QED
  BY <1>2, <1>3 DEF SaveVerdict

LEMMA ReviewStepsKeep ==
  ASSUME IInv, NEW i \in Ids, Review(i) PROVE IInv'
<1>1. ReviewOK(i, NoReview)
  BY DEF ReviewOK, Reviews, NoReview
<1>2. ReviewOK(i, review[i])
  BY DEF IInv, ReviewsOK
<1>3. CASE CheckLevel(i)
  <2>1. i \in used
    BY <1>2, <1>3 DEF CheckLevel, ReviewAt, ReviewOK, NoReview
  <2>2. ReviewOK(i, [pc |-> "conclude", verdict |-> "rejected"]) /\ ReviewOK(i, [pc |-> "judge"])
    BY <2>1 DEF ReviewOK, Reviews, Verdicts
  <2> QED
    BY <1>1, <1>3, <2>2, ReviewKeeps DEF CheckLevel
<1>4. CASE Judge(i)
  <2>1. i \in used
    BY <1>2, <1>4 DEF Judge, ReviewAt, ReviewOK, NoReview
  <2>2. \A v \in Verdicts : ReviewOK(i, [pc |-> "conclude", verdict |-> v])
    BY <2>1 DEF ReviewOK, Reviews
  <2> QED
    BY <1>1, <1>4, <2>2, ReviewKeeps DEF Judge
<1>5. CASE Conclude(i)
  <2>1. CASE ReviewGoto(i, NoReview)
    BY <1>1, <2>1, ReviewKeeps
  <2>2. CASE Exists(i) /\ ReviewGoto(i, [pc |-> "save", row |-> [rows[i] EXCEPT !.status = review[i].verdict]])
    <3>1. PICK n : n = [pc |-> "save", row |-> [rows[i] EXCEPT !.status = review[i].verdict]]
      OBVIOUS
    <3>2. review[i].verdict \in Verdicts
      BY <1>2, <1>5 DEF Conclude, ReviewAt, ReviewOK, Reviews, NoReview
    <3>3. RowOK(i, rows[i])
      BY <2>2 DEF IInv, RowsOK
    <3>4. n.row \in Row /\ (n.row.harmed => everPvp) /\ n = [pc |-> "save", row |-> n.row]
      BY <3>1, <3>2, <3>3 DEF RowOK, Row
    <3>5. ReviewOK(i, n)
      BY <3>3, <3>4 DEF RowOK, ReviewOK, Reviews
    <3> QED
      BY <2>2, <3>1, <3>5, ReviewKeeps
  <2> QED
    BY <1>5, <2>1, <2>2 DEF Conclude
<1> QED
  BY <1>3, <1>4, <1>5, SaveVerdictKeeps DEF Review

LEMMA HostKeeps ==
  ASSUME IInv, Host PROVE IInv'
<1>1. CASE HostSaves
  <2>1. host.id \in Ids /\ host.row \in Row /\ host.id \in used /\ (host.row.harmed => everPvp)
    BY <1>1 DEF HostSaves, IInv, HostOK, NoHost
  <2>2. History /\ RowsOK' /\ HistoryOK'
    BY <1>1, <2>1, VetKeepsRows DEF HostSaves
  <2>3. CallsOK'
    BY <1>1, <2>2, CallsStayOK DEF HostSaves, IInv, CallsOK
  <2>4. ReviewsOK'
    BY <1>1, <2>2, ReviewsStayOK DEF HostSaves, IInv, ReviewsOK
  <2>5. HostOK(host)'
    BY <1>1 DEF HostSaves, HostOK, NoHost
  <2> QED
    BY <2>2, <2>3, <2>4, <2>5 DEF IInv
<1>2. CASE SetPvp
  <2>1. History
    BY <1>2 DEF SetPvp, History
  <2>2. RowsOK' /\ HistoryOK'
    BY <1>2, <2>1, RowsStayOK DEF SetPvp, IInv, RowsOK, Exists, HistoryOK
  <2>3. CallsOK' /\ ReviewsOK' /\ HostOK(host)'
    BY <1>2, <2>1, CallsStayOK, ReviewsStayOK, HostStaysOK DEF SetPvp, IInv, CallsOK, ReviewsOK
  <2> QED
    BY <2>2, <2>3 DEF IInv
<1>3. ASSUME NEW i \in Ids, DeleteCharacter(i) PROVE IInv'
  <2>1. RowsOK'
    BY <1>3 DEF DeleteCharacter, IInv, RowsOK, Exists, RowOK
  <2> QED
    BY <1>3, <2>1 DEF DeleteCharacter, IInv, CallsOK, CallOK, RowOK, ReviewsOK, ReviewOK, HostOK, HistoryOK
<1>4. ASSUME NEW i \in Ids, NEW s \in Verdicts, HostReviews(i, s) PROVE IInv'
  <2>1. RowOK(i, rows[i])
    BY <1>4 DEF HostReviews, IInv, RowsOK
  <2>2. HostOK(host)'
    BY <1>4, <2>1 DEF HostReviews, HostOK, RowOK, Row
  <2> QED
    BY <1>4, <2>2 DEF HostReviews, IInv, RowsOK, Exists, CallsOK, CallOK, RowOK, ReviewsOK, ReviewOK, HistoryOK
<1>5. ASSUME NEW i \in Ids, NEW g \in Campaigns, MoveCharacter(i, g) PROVE IInv'
  <2>1. RowOK(i, rows[i])
    BY <1>5 DEF MoveCharacter, IInv, RowsOK
  <2>2. RowOK(i, [rows[i] EXCEPT !.campaign = g])
    BY <2>1 DEF RowOK, Row
  <2>3. RowsOK'
    BY <1>5, <2>2 DEF MoveCharacter, IInv, RowsOK, Exists, RowOK
  <2> QED
    BY <1>5, <2>3 DEF MoveCharacter, IInv, CallsOK, CallOK, RowOK, ReviewsOK, ReviewOK, HostOK, HistoryOK
<1> QED
  BY <1>1, <1>2, <1>3, <1>4, <1>5, HandledAssumption DEF Host

--------------------------------------------------------------------------------
(* The theorems.                                                           *)

LEMMA Inductive == IInv /\ [Next]_vars => IInv'
<1> SUFFICES ASSUME IInv, [Next]_vars PROVE IInv'
  OBVIOUS
<1>1. CASE UNCHANGED vars
  BY <1>1 DEF vars, IInv, RowsOK, Exists, CallsOK, CallOK, RowOK, ReviewsOK, ReviewOK, HostOK, HistoryOK
<1>2. CASE Next
  BY <1>2, CreationsKeep, ReviewStepsKeep, BeginKeeps, ContinueKeeps, HostKeeps DEF Next
<1> QED
  BY <1>1, <1>2

LEMMA AlwaysIInv == Spec => []IInv
BY Starts, Inductive, PTL DEF Spec

\* The rows, the copies in hand and the reviews have their types, and a row was
\* given its id by a creation: for any number of writers at once.
THEOREM CharactersTypeCorrect == Spec => []TypeOK
BY AlwaysIInv, Suffices, PTL

\* An uploaded sheet plays only after the review or the Host approved it, for
\* any players and any number of calls, however stale the copies are that are
\* written back.
THEOREM OnlyVettedPlay == Spec => []OnlyVettedCharactersPlay
BY AlwaysIInv, Suffices, PTL

\* What one player did to another's character reaches its row only if the
\* policy allowed it at some time.
THEOREM HarmNeedsPolicy == Spec => []NoHarmWithoutPolicy
BY AlwaysIInv, Suffices, PTL
================================================================================
