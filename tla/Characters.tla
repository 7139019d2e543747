------------------------------- MODULE Characters -------------------------------
(***************************************************************************)
(* The rows of the characters table and everybody who writes them.  Every  *)
(* writer loads a whole row, works on its copy (the engine or the language *)
(* model may take its time) and saves the whole row back: the DM's tools   *)
(* of dm_tools.go, a player's own effects (server.go), the automatic       *)
(* review of an imported sheet (character_review.go) and the Host's review *)
(* (admin/server.go).  The Host also moves and deletes rows.               *)
(*                                                                         *)
(* Of a row the model keeps its campaign, owner and status, and of its     *)
(* sheet only whether another player's doing harmed it; what items and     *)
(* coins do is in Holdings.  A store or engine call may fail wherever the  *)
(* code checks for it.  The processes in Passes are the slow passes and    *)
(* connections of the campaign that is played; to the others the Host may  *)
(* move a character, and back.                                             *)
(***************************************************************************)
EXTENDS Naturals, FiniteSets

CONSTANTS
  Ids,        \* character ids: random, never given twice
  Uploads,    \* the ids uploaded sheets are given
  Handled,    \* the ids the Host reviews, moves and deletes
  Players,
  Master,     \* masterSenderID, the owner of what the DM creates
  Campaigns,
  Table,      \* the campaign that is played
  Passes,
  MaxCopies,  \* bound: how many writers may have a copy in hand at once
  NoRow

ASSUME UploadsAssumption == Uploads \subseteq Ids
ASSUME HandledAssumption == Handled \subseteq Ids
ASSUME TableAssumption == Table \in Campaigns
ASSUME MasterAssumption == Master \notin Players

VARIABLES
  rows,      \* the table
  used,      \* ids that were given to a row
  call,      \* what each pass or connection is doing
  review,    \* the automatic review of each imported character
  host,      \* the Host's review in the admin panel
  pvp,       \* the policy allows player versus player now
  \* history
  everPvp,   \* it did at some time
  vetted     \* characters somebody approved or the server itself made

vars == <<rows, used, call, review, host, pvp, everPvp, vetted>>

Senders == Players \cup {Master}
Verdicts == {"approved", "rejected"}
Row == [campaign : Campaigns, owner : Senders, status : Verdicts \cup {"pending"}, harmed : BOOLEAN]

ASSUME NoRowAssumption == NoRow \notin Row

NoCall == [pc |-> "idle"]
NoReview == [pc |-> "none"]
NoHost == [pc |-> "idle"]

Init ==
  /\ rows = [i \in Ids |-> NoRow] /\ used = {}
  /\ call = [p \in Passes |-> NoCall]
  /\ review = [i \in Ids |-> NoReview]
  /\ host = NoHost
  /\ pvp = FALSE /\ everPvp = FALSE
  /\ vetted = {}

--------------------------------------------------------------------------------
(* The store.                                                              *)

Exists(i) == rows[i] # NoRow

\* An upsert of every column: it brings a deleted row back.
SaveCharacter(i, row) == rows' = [rows EXCEPT ![i] = row]

\* SELECT by id, and the check that the row belongs to the campaign.
CampaignCharacter(i) == Exists(i) /\ rows[i].campaign = Table

\* Who has a copy in hand that is to be saved.
Writers ==
  Cardinality({p \in Passes : call[p] # NoCall}) + Cardinality({i \in Ids : review[i].pc = "save"})
    + (IF host.pc = "save" THEN 1 ELSE 0)

TakeCopy == Writers < MaxCopies

--------------------------------------------------------------------------------
(* How a character comes into being: under a fresh id.                     *)

NewRow(i, o, status) ==
  /\ i \notin used
  /\ used' = used \cup {i}
  /\ SaveCharacter(i, [campaign |-> Table, owner |-> o, status |-> status, harmed |-> FALSE])
  /\ UNCHANGED <<call, host, pvp, everPvp>>

\* character.upload: the row waits for a review, which starts at once.
ImportCharacter(i, s) ==
  /\ i \in Uploads /\ NewRow(i, s, "pending")
  /\ review' = [review EXCEPT ![i] = [pc |-> "level"]]
  /\ UNCHANGED vetted

\* The engine rolled it or the Host offered it: nothing to review.
MakeApproved(i, s) ==
  /\ NewRow(i, s, "approved")
  /\ vetted' = vetted \cup {i}
  /\ UNCHANGED review

FinishCreationRoll(i, s) == MakeApproved(i, s)
ClaimPregen(i, s) == MakeApproved(i, s)

\* create_npc.
DmCreateNPC(i) == NewRow(i, Master, "pending") /\ UNCHANGED <<review, vetted>>

--------------------------------------------------------------------------------
(* The calls.  A call works on a copy of one row, or of its actor's and    *)
(* its target's.                                                           *)

At(p, pc) == call[p].pc = pc

Step(p, next) ==
  /\ call' = [call EXCEPT ![p] = next]
  /\ UNCHANGED <<used, review, host, pvp, everPvp, vetted>>

Goto(p, pc) == Step(p, [call[p] EXCEPT !.pc = pc]) /\ UNCHANGED rows

\* An error is the call's answer; nothing more is done.
Fail(p) == Step(p, NoCall) /\ UNCHANGED rows

Start(p, next) == At(p, "idle") /\ TakeCopy /\ Step(p, next) /\ UNCHANGED rows

\* Another player's character: what harms it is up to the campaign's policy.
Protected(row, by) == row.owner \notin {Master, by}

\* Mutant: the status is not asked for.
AnyoneMayAct(row) == row \in Row

CharacterMayAct(row) == row.owner = Master \/ row.status = "approved"

\* A tool that changes one row; hit: it harms another player's character.
ChangeRow(p, t, pc, hit) ==
  /\ CampaignCharacter(t)
  /\ Start(p, [pc |-> pc, target |-> t, theirs |-> rows[t], hit |-> hit])

DmEquipItem(p, t) == ChangeRow(p, t, "resolve", FALSE)
DmUnequipItem(p, t) == ChangeRow(p, t, "resolve", FALSE)
DmPackItem(p, t) == ChangeRow(p, t, "resolve", FALSE)
DmDrawItem(p, t) == ChangeRow(p, t, "resolve", FALSE)
DmReceiveItem(p, t) == ChangeRow(p, t, "resolve", FALSE)
DmDiscardItem(p, t) == ChangeRow(p, t, "resolve", FALSE)
DmAddCurrency(p, t) == ChangeRow(p, t, "resolve", FALSE)

\* Damage to another player's character asks the policy before the engine.
DmApplyEffect(p, by, t, damage) ==
  IF damage /\ Exists(t) /\ Protected(rows[t], by)
  THEN ChangeRow(p, t, "allow", TRUE)
  ELSE ChangeRow(p, t, "resolve", FALSE)

\* pvpGateBlocked: so does spending its coins, unless the engine says it is dead.
DmSpendCurrency(p, by, t, dead) == DmApplyEffect(p, by, t, ~dead)

\* character.apply_effect: a player's own approved character.
ApplyCharacterEffect(p, by, t) ==
  /\ Exists(t) /\ rows[t].owner = by /\ rows[t].status = "approved"
  /\ ChangeRow(p, t, "resolve", FALSE)

\* resolve_check and roll.check_request: the engine rolls at once, the player
\* uncovers the dice at leisure; nothing is saved.
DmResolveCheck(p, a) ==
  /\ CampaignCharacter(a) /\ CharacterMayAct(rows[a])
  /\ Start(p, [pc |-> "roll", actor |-> a, mine |-> rows[a]])

ResolveCheck(p, by, a) ==
  /\ CampaignCharacter(a) /\ rows[a].owner = by /\ rows[a].status = "approved"
  /\ Start(p, [pc |-> "roll", actor |-> a, mine |-> rows[a]])

RollEnds(p) == At(p, "roll") /\ Fail(p)

\* attack, cast_spell, grapple and shove read who acts first.
ReadActor(p, by, a, t) ==
  /\ a # t
  /\ CampaignCharacter(a) /\ CharacterMayAct(rows[a])
  /\ Start(p, [pc |-> "target", by |-> by, actor |-> a, mine |-> rows[a], target |-> t])

DmAttack(p, by, a, t) == ReadActor(p, by, a, t)
DmGrapple(p, by, a, t) == ReadActor(p, by, a, t)
DmShove(p, by, a, t) == ReadActor(p, by, a, t)

\* A spell on the caster names no target, and one row is written.
DmCastSpell(p, by, a, t) ==
  \/ ReadActor(p, by, a, t)
  \/ /\ a = t /\ CampaignCharacter(a) /\ CharacterMayAct(rows[a])
     /\ ChangeRow(p, a, "resolve", FALSE)

ReadTarget(p) ==
  /\ At(p, "target")
  /\ LET c == call[p] IN
     IF CampaignCharacter(c.target)
     THEN /\ Step(p, [pc |-> "engine", actor |-> c.actor, mine |-> c.mine, target |-> c.target,
                      theirs |-> rows[c.target], hit |-> Protected(rows[c.target], c.by)])
          /\ UNCHANGED rows
     ELSE Fail(p)

\* The engine says whether the target was damaged, grappled or shoved; of a
\* hit on another player's character the policy has to be asked.
Engine(p) ==
  /\ At(p, "engine")
  /\ \/ Fail(p)
     \/ Step(p, [call[p] EXCEPT !.pc = "saveActor", !.hit = FALSE]) /\ UNCHANGED rows
     \/ call[p].hit /\ Goto(p, "gate")

\* The gate of a one-row tool comes before the engine ...
Allow(p) == At(p, "allow") /\ (Fail(p) \/ (pvp /\ Goto(p, "resolve")))

Resolve(p) == At(p, "resolve") /\ (Fail(p) \/ Goto(p, "save"))

\* ... the gate of an attack after it: a blocked one still costs the actor.  A
\* policy that cannot be read is the default one, without PvP.
Gate(p) == At(p, "gate") /\ (Goto(p, "saveBlocked") \/ (pvp /\ Goto(p, "saveActor")))

ToTarget(p) ==
  [pc |-> "save", target |-> call[p].target, theirs |-> call[p].theirs, hit |-> call[p].hit]

\* Mutant: the target is saved whatever the gate said.
AfterActorAlways(p) == ToTarget(p)

AfterActor(p) == IF At(p, "saveBlocked") THEN NoCall ELSE ToTarget(p)

SaveActor(p) ==
  /\ At(p, "saveActor") \/ At(p, "saveBlocked")
  /\ Fail(p) \/ (SaveCharacter(call[p].actor, call[p].mine) /\ Step(p, AfterActor(p)))

Struck(p) == [call[p].theirs EXCEPT !.harmed = @ \/ call[p].hit]

SaveTarget(p) ==
  /\ At(p, "save")
  /\ Fail(p) \/ (SaveCharacter(call[p].target, Struck(p)) /\ Step(p, NoCall))

--------------------------------------------------------------------------------
(* runCharacterReviewPass and concludeCharacterReview.                     *)

ReviewAt(i, pc) == review[i].pc = pc

ReviewStep(i, next) ==
  /\ review' = [review EXCEPT ![i] = next]
  /\ UNCHANGED <<used, call, host, pvp, everPvp>>

ReviewGoto(i, next) == ReviewStep(i, next) /\ UNCHANGED <<rows, vetted>>

\* Out of the campaign's level range: rejected without the model.  In range:
\* without a model, or if the row cannot be read, the sheet stays pending.
CheckLevel(i) ==
  /\ ReviewAt(i, "level")
  /\ \/ ReviewGoto(i, [pc |-> "conclude", verdict |-> "rejected"])
     \/ Exists(i) /\ ReviewGoto(i, [pc |-> "judge"])
     \/ ReviewGoto(i, NoReview)

\* The model's verdict, or none that can be used.
Judge(i) ==
  /\ ReviewAt(i, "judge")
  /\ \/ \E v \in Verdicts : ReviewGoto(i, [pc |-> "conclude", verdict |-> v])
     \/ ReviewGoto(i, NoReview)

\* The row is read afresh; its status is not looked at.
Conclude(i) ==
  /\ ReviewAt(i, "conclude")
  /\ \/ /\ Exists(i) /\ TakeCopy
        /\ ReviewGoto(i, [pc |-> "save", row |-> [rows[i] EXCEPT !.status = review[i].verdict]])
     \/ ReviewGoto(i, NoReview)

\* A row saved as approved has been vetted.
Vet(i, row) ==
  /\ SaveCharacter(i, row)
  /\ vetted' = IF row.status = "approved" THEN vetted \cup {i} ELSE vetted

SaveVerdict(i) ==
  /\ ReviewAt(i, "save")
  /\ \/ Vet(i, review[i].row) /\ ReviewStep(i, NoReview)
     \/ ReviewGoto(i, NoReview)

--------------------------------------------------------------------------------
(* The Host, in the admin panel.                                           *)

\* handleReviewCharacter reads the row, ...
HostReviews(i, status) ==
  /\ host = NoHost /\ Exists(i) /\ TakeCopy
  /\ host' = [pc |-> "save", id |-> i, row |-> [rows[i] EXCEPT !.status = status]]
  /\ UNCHANGED <<rows, used, call, review, pvp, everPvp, vetted>>

\* ... sets the status and saves the row.
HostSaves ==
  /\ host.pc = "save"
  /\ Vet(host.id, host.row)
  /\ host' = NoHost
  /\ UNCHANGED <<used, call, review, pvp, everPvp>>

MoveCharacter(i, g) ==
  /\ host = NoHost /\ Exists(i) /\ rows[i].campaign # g
  /\ rows' = [rows EXCEPT ![i].campaign = g]
  /\ UNCHANGED <<used, call, review, host, pvp, everPvp, vetted>>

DeleteCharacter(i) ==
  /\ host = NoHost /\ Exists(i)
  /\ rows' = [rows EXCEPT ![i] = NoRow]
  /\ UNCHANGED <<used, call, review, host, pvp, everPvp, vetted>>

\* The campaign's policy is changed in the panel.
SetPvp ==
  /\ pvp' = ~pvp /\ everPvp' = TRUE
  /\ UNCHANGED <<rows, used, call, review, host, vetted>>

--------------------------------------------------------------------------------

Creations(i) ==
  \/ DmCreateNPC(i)
  \/ \E s \in Players : ImportCharacter(i, s) \/ FinishCreationRoll(i, s) \/ ClaimPregen(i, s)

Begin(p) ==
  \E by \in Senders, t \in Ids :
    \/ DmEquipItem(p, t) \/ DmUnequipItem(p, t) \/ DmPackItem(p, t) \/ DmDrawItem(p, t)
    \/ DmReceiveItem(p, t) \/ DmDiscardItem(p, t) \/ DmAddCurrency(p, t)
    \/ ApplyCharacterEffect(p, by, t) \/ DmResolveCheck(p, t) \/ ResolveCheck(p, by, t)
    \/ \E b \in BOOLEAN : DmApplyEffect(p, by, t, b) \/ DmSpendCurrency(p, by, t, b)
    \/ \E a \in Ids : \/ DmAttack(p, by, a, t) \/ DmCastSpell(p, by, a, t)
                      \/ DmGrapple(p, by, a, t) \/ DmShove(p, by, a, t)

Continue(p) ==
  \/ ReadTarget(p) \/ Engine(p) \/ Allow(p) \/ Resolve(p) \/ Gate(p)
  \/ SaveActor(p) \/ SaveTarget(p) \/ RollEnds(p)

Review(i) == CheckLevel(i) \/ Judge(i) \/ Conclude(i) \/ SaveVerdict(i)

Host ==
  \/ HostSaves
  \/ SetPvp
  \/ \E i \in Handled : \/ DeleteCharacter(i)
                        \/ \E s \in Verdicts : HostReviews(i, s)
                        \/ \E g \in Campaigns : MoveCharacter(i, g)

Next ==
  \/ \E i \in Ids : Creations(i) \/ Review(i)
  \/ \E p \in Passes : Begin(p) \/ Continue(p)
  \/ Host

Spec == Init /\ [][Next]_vars

--------------------------------------------------------------------------------
(* Properties.                                                             *)

OneRowCall == [pc : {"allow", "resolve", "save"}, target : Ids, theirs : Row, hit : BOOLEAN]
RollCall == [pc : {"roll"}, actor : Ids, mine : Row]
ActorCall == [pc : {"target"}, by : Senders, actor : Ids, mine : Row, target : Ids]
TwoRowCall == [pc : {"engine", "gate", "saveBlocked", "saveActor"}, actor : Ids, mine : Row,
               target : Ids, theirs : Row, hit : BOOLEAN]
Calls == {NoCall} \cup OneRowCall \cup RollCall \cup ActorCall \cup TwoRowCall

Reviews == {NoReview} \cup [pc : {"level", "judge"}] \cup [pc : {"conclude"}, verdict : Verdicts]
             \cup [pc : {"save"}, row : Row]

\* Types; a row, or a copy of it, has been given its id by a creation.
TypeOK ==
  /\ rows \in [Ids -> Row \cup {NoRow}]
  /\ used \subseteq Ids /\ (\A i \in Ids : Exists(i) => i \in used)
  /\ call \in [Passes -> Calls]
  /\ review \in [Ids -> Reviews]
  /\ host \in {NoHost} \cup [pc : {"save"}, id : Ids, row : Row]
  /\ pvp \in BOOLEAN /\ everPvp \in BOOLEAN /\ (pvp => everPvp)
  /\ vetted \subseteq used

HasActor(c) == c \in RollCall \cup ActorCall \cup TwoRowCall

\* An uploaded sheet plays only after the review or the Host approved it,
\* however stale copies of its row are written back meanwhile: the gates of
\* importCharacter, ownedCharacter and characterMayAct together.  The DM's own
\* characters are exempt.
OnlyVettedCharactersPlay ==
  /\ \A i \in Ids : Exists(i) /\ rows[i].status = "approved" => i \in vetted
  /\ \A p \in Passes : HasActor(call[p]) => call[p].mine.owner = Master \/ call[p].actor \in vetted

\* A row bears the harm another player did it only if the policy has allowed
\* that; an attack is resolved before the policy is asked, and what it did must
\* then be thrown away.
NoHarmWithoutPolicy == \A i \in Ids : Exists(i) /\ rows[i].harmed => everPvp

\* "the Host is this system's final authority" (admin/server.go:1649): once a
\* character was approved or rejected, only the Host changes that.
HostHasTheLastWord ==
  [][\A i \in Ids :
       Exists(i) /\ rows[i].status # "pending" /\ rows'[i] # NoRow /\ rows'[i].status # rows[i].status
         => host.pc = "save" /\ host.id = i]_vars
================================================================================
