------------------------------- MODULE Campaigns -------------------------------
(***************************************************************************)
(* What the Host sets in the panel (master/internal/admin/server.go) and   *)
(* what decides who gets in (sessionGate): the campaigns' rows, the form   *)
(* of their policy and that of their password, which share a row, the pack *)
(* bound to them, which campaign is the running game and whether it is     *)
(* closed to new players.  Each request of the panel is a goroutine, and   *)
(* so is each connection; a statement of the store is one step.  What a    *)
(* form's fields mean and whether a password fits is left out.             *)
(***************************************************************************)
EXTENDS Naturals, FiniteSets

CONSTANTS
  Campaigns,
  Guests,       \* the players' connections
  Authenticated,\* those that signed in to an account
  Names,        \* senders
  GuestName,    \* the effective sender each connection joined as
  Master,       \* masterSenderID, who owns the NPCs
  Requests,     \* the panel's requests under way
  Entries,      \* what the Host enters in a form, which is 0 before
  Bindings,     \* pack directories
  MaxActs       \* bound: what the Host does

ASSUME MaxActsAssumption == MaxActs \in Nat
ASSUME NamesAssumption ==
  GuestName \in [Guests -> Names] /\ Master \in Names /\ Authenticated \subseteq Guests

VARIABLES
  meta,        \* campaign_meta: "none", "shown" or "archived"
  settings,    \* campaign_settings
  owners,      \* characters: who owns one in each campaign
  bound,       \* campaign_pack
  active,      \* active_campaign_id
  closed,      \* campaign_join_locked
  request,     \* what each request of the panel is doing
  guest,       \* what each connection is doing
  late,        \* a character's row somebody has read and will save
  acts,
  \* history
  entered,     \* what the Host entered last
  overlapped,  \* campaigns of which a row was overwritten with what was read before it changed
  welcome      \* who was there when the game was closed, or came by a character since

campaignVars == <<meta, settings, owners, bound, active, closed, request, guest, late, acts, entered, overlapped, welcome>>

Nothing == "none"
Blank == [policy |-> 0, password |-> 0]
NoRow == [row |-> Nothing]
NoRequest == [pc |-> "idle"]
Outside == [pc |-> "away", campaign |-> Nothing]

CampaignsInit ==
  /\ meta = [c \in Campaigns |-> Nothing]
  /\ settings = [c \in Campaigns |-> NoRow]
  /\ owners = [c \in Campaigns |-> {}]
  /\ bound = [c \in Campaigns |-> Nothing]
  /\ active = Nothing /\ closed = FALSE
  /\ request = [r \in Requests |-> NoRequest]
  /\ guest = [g \in Guests |-> Outside]
  /\ late = NoRow /\ acts = 0
  /\ entered = [c \in Campaigns |-> [policy |-> 0, password |-> 0, pack |-> Nothing]]
  /\ overlapped = {} /\ welcome = {}

Act == acts < MaxActs /\ acts' = acts + 1
RequestAt(r, pc) == request[r].pc = pc
RequestGoto(r, next) == request' = [request EXCEPT ![r] = next]

--------------------------------------------------------------------------------
(* The store.                                                              *)

GetCampaignSettings(c) == IF settings[c] = NoRow THEN Blank ELSE settings[c]

\* ListCampaignSummaries: every campaign any of its tables knows; the log, which
\* is one of them, is left out.
Listed(c) == meta[c] # Nothing \/ settings[c] # NoRow \/ owners[c] # {}

\* A campaign that exists keeps its flag.
SaveCampaignMeta(c) == meta' = [meta EXCEPT ![c] = IF @ = Nothing THEN "shown" ELSE @]

SetCampaignArchived(c, archived) == meta' = [meta EXCEPT ![c] = IF archived THEN "archived" ELSE "shown"]

\* One transaction, which leaves the pack's binding.
DeleteCampaign(c) ==
  /\ meta[c] = "archived"
  /\ meta' = [meta EXCEPT ![c] = Nothing]
  /\ settings' = [settings EXCEPT ![c] = NoRow]
  /\ owners' = [owners EXCEPT ![c] = {}]

--------------------------------------------------------------------------------
(* The panel: what takes one statement.                                    *)

HandleCreateCampaign(c) ==
  /\ Act /\ SaveCampaignMeta(c)
  /\ UNCHANGED <<settings, owners, bound, active, closed, request, guest, late, entered, overlapped, welcome>>

HandlePutCampaignArchived(c) ==
  /\ Act /\ \E archived \in BOOLEAN : SetCampaignArchived(c, archived)
  /\ UNCHANGED <<settings, owners, bound, active, closed, request, guest, late, entered, overlapped, welcome>>

\* It may be the running game, and its players may be connected.
HandleDeleteCampaign(c) ==
  /\ Act /\ DeleteCampaign(c)
  /\ entered' = [entered EXCEPT ![c] = [policy |-> 0, password |-> 0, pack |-> @.pack]]
  /\ UNCHANGED <<bound, active, closed, request, guest, late, overlapped, welcome>>

\* Those who are in a campaign, or about to be.
Present(c) == owners[c] \cup {GuestName[g] : g \in {h \in Guests : guest[h].campaign = c /\ guest[h].pc \in {"admitted", "in"}}}

\* The game is closed from now on to all but those.
Close(game, shut) ==
  welcome' = IF game = Nothing \/ ~shut THEN {}
             ELSE IF game = active /\ closed THEN welcome ELSE Present(game)

\* Somebody comes by a character in the closed game.
Welcome(c, name) == welcome' = IF c = active /\ closed THEN welcome \cup {name} ELSE welcome

HandleSetJoinLock(shut) ==
  /\ Act /\ closed' = shut /\ Close(active, shut)
  /\ UNCHANGED <<meta, settings, owners, bound, active, request, guest, late, entered, overlapped>>

\* The Host's own tools for characters.
HandleMoveCharacter(from, to, owner) ==
  /\ Act /\ owner \in owners[from] /\ from # to
  /\ \E others \in BOOLEAN : owners' = [owners EXCEPT ![from] = IF others THEN @ ELSE @ \ {owner}, ![to] = @ \cup {owner}]
  /\ Welcome(to, owner)
  /\ UNCHANGED <<meta, settings, bound, active, closed, request, guest, late, entered, overlapped>>

HandlePutCampaignPack(c, pack) ==
  /\ Act
  /\ bound' = [bound EXCEPT ![c] = pack] /\ entered' = [entered EXCEPT ![c].pack = pack]
  /\ UNCHANGED <<meta, settings, owners, active, closed, request, guest, late, overlapped, welcome>>

--------------------------------------------------------------------------------
(* The panel: what reads before it writes.                                 *)

\* handleSetActiveCampaign: none, or one that is listed.
ChooseCampaign(r, c) ==
  /\ RequestAt(r, "idle") /\ Act
  /\ c # Nothing => Listed(c)
  /\ RequestGoto(r, [pc |-> "activate", campaign |-> c])
  /\ UNCHANGED <<meta, settings, owners, bound, active, closed, guest, late, entered, overlapped, welcome>>

Activate(r) ==
  /\ RequestAt(r, "activate")
  /\ active' = request[r].campaign /\ Close(request[r].campaign, closed)
  /\ RequestGoto(r, NoRequest)
  /\ UNCHANGED <<meta, settings, owners, bound, closed, guest, late, acts, entered, overlapped>>

\* Mutant: the policy's form fills in a row of its own.
FilledBlank(c, field, entry) == [Blank EXCEPT ![field] = entry]

\* The row as it is, but for what the form is about.
Filled(c, field, entry) == [GetCampaignSettings(c) EXCEPT ![field] = entry]

\* handlePutCampaignPolicy, handlePutCampaignSecurity.
ReadForm(r, c, field, entry) ==
  /\ RequestAt(r, "idle") /\ Act
  /\ RequestGoto(r, [pc |-> "save", campaign |-> c, field |-> field, read |-> GetCampaignSettings(c), row |-> Filled(c, field, entry)])
  /\ UNCHANGED <<meta, settings, owners, bound, active, closed, guest, late, entered, overlapped, welcome>>

SaveForm(r) ==
  LET q == request[r] IN
  /\ RequestAt(r, "save")
  /\ settings' = [settings EXCEPT ![q.campaign] = q.row]
  /\ entered' = [entered EXCEPT ![q.campaign][q.field] = q.row[q.field]]
  /\ overlapped' = IF GetCampaignSettings(q.campaign) = q.read THEN overlapped ELSE overlapped \cup {q.campaign}
  /\ RequestGoto(r, NoRequest)
  /\ UNCHANGED <<meta, owners, bound, active, closed, guest, late, acts, welcome>>

\* bindInstalledPackToCampaign: a campaign that has a pack keeps it.
CheckBound(r, c, pack) ==
  /\ RequestAt(r, "idle") /\ Act
  /\ bound[c] = Nothing
  /\ RequestGoto(r, [pc |-> "name", campaign |-> c, pack |-> pack])
  /\ UNCHANGED <<meta, settings, owners, bound, active, closed, guest, late, entered, overlapped, welcome>>

NameCampaign(r) ==
  /\ RequestAt(r, "name")
  /\ SaveCampaignMeta(request[r].campaign)
  /\ RequestGoto(r, [request[r] EXCEPT !.pc = "bind"])
  /\ UNCHANGED <<settings, owners, bound, active, closed, guest, late, acts, entered, overlapped, welcome>>

BindPack(r) ==
  LET q == request[r] IN
  /\ RequestAt(r, "bind")
  /\ bound' = [bound EXCEPT ![q.campaign] = q.pack]
  /\ IF bound[q.campaign] = Nothing
       THEN entered' = [entered EXCEPT ![q.campaign].pack = q.pack] /\ UNCHANGED overlapped
       ELSE overlapped' = overlapped \cup {q.campaign} /\ UNCHANGED entered
  /\ RequestGoto(r, NoRequest)
  /\ UNCHANGED <<meta, settings, owners, active, closed, guest, late, acts, welcome>>

\* A statement that fails is answered with an error.
RequestFails(r) ==
  /\ ~RequestAt(r, "idle") /\ RequestGoto(r, NoRequest)
  /\ UNCHANGED <<meta, settings, owners, bound, active, closed, guest, late, acts, entered, overlapped, welcome>>

--------------------------------------------------------------------------------
(* The players.                                                            *)

GuestAt(g, pc) == guest[g].pc = pc
GuestGoto(g, pc, c) == guest' = [guest EXCEPT ![g] = [pc |-> pc, campaign |-> c]]

\* Mutant: of the two settings only the campaign is looked at.
BarredNever(c) == FALSE

Barred(c) == active = c /\ closed

\* The first read of sessionGate, of both settings: with no running game every
\* campaign can be joined, otherwise only the running one.
SessionGate(g, c) ==
  /\ GuestAt(g, "away")
  /\ active \in {Nothing, c}
  /\ GuestGoto(g, IF Barred(c) THEN "lookup" ELSE "admitted", c)
  /\ UNCHANGED <<meta, settings, owners, bound, active, closed, request, late, acts, entered, overlapped, welcome>>

OwnsCharacter(g, c) == GuestName[g] \in owners[c]

\* The second: the game is closed, and the characters tell who is no newcomer.
LookForCharacter(g) ==
  /\ GuestAt(g, "lookup")
  /\ IF OwnsCharacter(g, guest[g].campaign) THEN GuestGoto(g, "admitted", guest[g].campaign) ELSE GuestGoto(g, "away", Nothing)
  /\ UNCHANGED <<meta, settings, owners, bound, active, closed, request, late, acts, entered, overlapped, welcome>>

\* The session state was sent, the connection is registered.
Enter(g) ==
  /\ GuestAt(g, "admitted") /\ GuestGoto(g, "in", guest[g].campaign)
  /\ UNCHANGED <<meta, settings, owners, bound, active, closed, request, late, acts, entered, overlapped, welcome>>

Depart(g) ==
  /\ guest[g].pc # "away" /\ GuestGoto(g, "away", Nothing)
  /\ UNCHANGED <<meta, settings, owners, bound, active, closed, request, late, acts, entered, overlapped, welcome>>

\* actingSender: the account, or else whatever name the message gives.
ActingSenders(g) == IF g \in Authenticated THEN {GuestName[g]} ELSE Names

\* Whoever is in may make a character, also when the game was closed, or
\* the campaign deleted, meanwhile.
MakeCharacter(g, name) ==
  /\ GuestAt(g, "in") /\ name \in ActingSenders(g)
  /\ owners' = [owners EXCEPT ![guest[g].campaign] = @ \cup {name}]
  /\ IF g \in Authenticated THEN UNCHANGED welcome ELSE Welcome(guest[g].campaign, name)
  /\ UNCHANGED <<meta, settings, bound, active, closed, request, guest, late, acts, entered, overlapped>>

\* The DM's create_npc, in a turn whose player may be gone.
DmCreateNPC(c) ==
  /\ owners' = [owners EXCEPT ![c] = @ \cup {Master}]
  /\ Welcome(c, Master)
  /\ UNCHANGED <<meta, settings, bound, active, closed, request, guest, late, acts, entered, overlapped>>

\* A tool, a review or the Host reads a character's row, its campaign and owner
\* with it ...
GetCharacter(c, name) ==
  /\ late = NoRow /\ name \in owners[c]
  /\ late' = [campaign |-> c, owner |-> name]
  /\ UNCHANGED <<meta, settings, owners, bound, active, closed, request, guest, acts, entered, overlapped, welcome>>

\* ... and saves it whole, which undoes a move or a deletion meanwhile.  from:
\* where the row was now, if anywhere.
SaveCharacter(from) ==
  /\ late # NoRow /\ late' = NoRow
  /\ owners' = [owners EXCEPT ![from] = @ \ {late.owner}, ![late.campaign] = @ \cup {late.owner}]
  /\ Welcome(late.campaign, late.owner)
  /\ UNCHANGED <<meta, settings, bound, active, closed, request, guest, acts, entered, overlapped>>

EditStep(r) ==
  \/ \E c \in Campaigns, field \in {"policy", "password"}, entry \in Entries : ReadForm(r, c, field, entry)
  \/ \E c \in Campaigns, pack \in Bindings : CheckBound(r, c, pack)
  \/ SaveForm(r) \/ NameCampaign(r) \/ BindPack(r) \/ RequestFails(r)

GuestStep(g) ==
  \/ \E c \in Campaigns : SessionGate(g, c)
  \/ LookForCharacter(g) \/ Enter(g) \/ Depart(g)
  \/ \E name \in Names : MakeCharacter(g, name)

\* What is set of the campaigns ...
EditsNext ==
  \/ \E r \in Requests : EditStep(r)
  \/ \E c \in Campaigns :
       \/ HandleCreateCampaign(c) \/ HandlePutCampaignArchived(c) \/ HandleDeleteCampaign(c)
       \/ \E pack \in Bindings : HandlePutCampaignPack(c, pack)

\* ... and who gets into the game.
JoinsNext ==
  \/ \E r \in Requests : Activate(r) \/ \E c \in Campaigns \cup {Nothing} : ChooseCampaign(r, c)
  \/ \E g \in Guests : GuestStep(g)
  \/ \E shut \in BOOLEAN : HandleSetJoinLock(shut)
  \/ \E c \in Campaigns :
       \/ \E to \in Campaigns, owner \in Names : HandleMoveCharacter(c, to, owner)
       \/ DmCreateNPC(c) \/ SaveCharacter(c)
       \/ \E name \in Names : GetCharacter(c, name)

CampaignsNext == EditsNext \/ JoinsNext

CampaignsSpec == CampaignsInit /\ [][CampaignsNext]_campaignVars

--------------------------------------------------------------------------------
(* Properties.                                                             *)

Values == Entries \cup {0}
Row == [policy : Values, password : Values]

CampaignsTypeOK ==
  /\ meta \in [Campaigns -> {Nothing, "shown", "archived"}]
  /\ settings \in [Campaigns -> Row \cup {NoRow}]
  /\ owners \in [Campaigns -> SUBSET Names] /\ welcome \subseteq Names
  /\ overlapped \subseteq Campaigns
  /\ bound \in [Campaigns -> Bindings \cup {Nothing}]
  /\ active \in Campaigns \cup {Nothing} /\ closed \in BOOLEAN /\ acts \in 0..MaxActs
  /\ request \in [Requests ->
       {NoRequest} \cup [pc : {"activate"}, campaign : Campaigns \cup {Nothing}]
         \cup [pc : {"save"}, campaign : Campaigns, field : {"policy", "password"}, read : Row, row : Row]
         \cup [pc : {"name", "bind"}, campaign : Campaigns, pack : Bindings]]
  /\ late \in {NoRow} \cup [campaign : Campaigns, owner : Names]
  /\ guest \in [Guests -> {Outside} \cup [pc : {"lookup", "admitted", "in"}, campaign : Campaigns]]
  /\ entered \in [Campaigns -> [policy : Values, password : Values, pack : Bindings \cup {Nothing}]]

\* While the running game is closed nobody is in it, or owns a character in it,
\* who was not there when it was closed, but for those who came by a character
\* there since: from the Host, from the DM (which makes them for the Master's own
\* name only), from somebody inside who is not signed in and whose messages name
\* whom they like, or by a late save of a row.  In particular nobody comes in by
\* reconnecting, by a character of another campaign, by one he made signed in, or
\* by a join that was under way when games were switched.
ClosedToNewcomers ==
  active # Nothing /\ closed => Present(active) \subseteq welcome

\* What the Host entered last is what is stored, each form leaving the other's
\* fields alone and an install the pack that was bound; edits are lost only when
\* two requests for one campaign overlap.
EditsAreLostOnlyByOverlap ==
  \A c \in Campaigns \ overlapped :
    LET row == GetCampaignSettings(c) IN
    entered[c] = [policy |-> row.policy, password |-> row.password, pack |-> bound[c]]
================================================================================
