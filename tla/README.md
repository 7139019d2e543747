# Layforge, specified

TLA+ modules of Layforge (`master/` and `registry/`): a Go server, the *Master node*, at which
people play a tabletop role-playing game through their browsers while a language model plays the
Dungeon Master. The modules are translated from the code at this commit; TLC checks them on small
instances and TLAPS proves the most important results for every value of the constants.

- [The system](#the-system): components, state, operations, interactions, what is hard
- [Modules](#modules): what is modelled, and how state and actions correspond to the code
- [Runs](#runs): what TLC checks, with which bounds and which fairness
- [Findings](#findings): where the code and its own comments disagree
- [Proofs](#proofs): what holds for every value of the constants, and why
- [Only model-checked, and not modelled](#only-model-checked-and-not-modelled)
- [Plan](#plan)

To check: `tlc -config <run>.cfg <module>.tla`, `tlapm <module>.tla`, in this directory.

## The system

One Master process serves several campaigns. Paths are relative to `master/internal/` unless they
say otherwise. The processes are the goroutines: one reading goroutine and one write pump per
WebSocket connection, one *slow pass* per player input (the language model's turn, started with
`go` and not awaited), one goroutine per character review, per partial transcription of a
recording, per admin HTTP request, and the heartbeat's ticker. They share maps in `Server`, each
with its own mutex, and one SQLite database; a lock is held for a map access, never for a whole
operation, and no operation spans a database transaction. That is where most hazards come from.

| component | state it keeps | operations | talks to |
|---|---|---|---|
| Connections and dispatch (`server/server.go`) | per connection: reading goroutine, write pump, terms flag, identity | handshake, gate, read loop, dispatch by message type, teardown | hub, every handler |
| Hub (`session/hub.go`) | room -> set of clients, an outbox of 16 messages each, a closer each | Register, Unregister, Broadcast, SendToSender, BroadcastExceptSender, SetCloser, Kick, ConnectedSenders | called by everyone under one lock |
| Session, terms and safety gates (`server/session_info.go`, `terms.go`, `safety.go`) | settings rows; a flag per connection | check at join; check per message; safety flags | store |
| DM slow pass (`server/dm_slow_pass.go`) | none that outlives a pass | a mechanics pass of at most 10 rounds of tool calls, then a narration pass of at most 5; failure notice; thinking indicator | language model, DM tools, hub, event log |
| DM tools (`server/dm_tools.go`, `vendor.go`) | character rows | about fifty tool calls: read rows, ask the system engine, write rows | system engine, character store |
| Turn order (`server/turn_order.go`) | `turnOrders`: campaign -> shared struct (order, currentIndex, round) | start_combat, advance_turn, end_combat, the turn check before a player acts | engine, snapshot, combat map, hub |
| Combat snapshot (`server/combat_state.go`, `store/sqlite_combat_state.go`) | one row per campaign | persist, delete, restore at start-up | turn order, combat map |
| Combat map (`server/combat_map.go`, `combatmap/`) | `combatMaps`: campaign -> map, tokens, roster | generate, move a token, each player's field of view | turn order, geometry |
| Interactive dice rolls (`server/client_roll.go`) | `pendingRolls`: prompt -> dice, revealed flags, a channel | send and wait, reveal one, reveal all, time out, finish | hub, slow pass or a connection that waits |
| Prompts (`server/clientmsg.go`) | pending prompts by id | register, answer, expire | creation, dispatch |
| Character creation (`server/character_creation.go`, `character_intro.go`, `character_name.go`) | creation sessions by id | begin, answer a step, complete, claim a pregenerated character | prompts, engine, store |
| Character review (`server/character_review.go`, `admin/server.go`) | the character's status | automatic verdict of the language model, the Host's verdict | store, hub |
| Push-to-talk audio (`server/audio.go`, `transcription/`) | chunks per stream | append, partial transcription every 2 s, final transcription | transcription service, hub |
| Locations, stashes, vehicles (`server/location.go`, `item_locations.go`, `vehicles.go`, `store/sqlite_campaign_pack.go`, `sqlite_vehicle.go`) | party location, stashed items and coins | travel, stash, retrieve, claim | engine, store |
| Knowledge scoping and context (`server/knowledge_scoping.go`, `recent_conversation.go`, `spotlight.go`, `party_roster.go`) | none | which events a player may see; the text of the model's context | event log |
| Event log and history (`store/sqlite.go`) | append-only events with a sequence number | append, page forward and backward | history requests |
| Admin panel (`admin/`) | settings, campaigns, characters | Host's forms; kick, review, active campaign, join lock, restart | store, hub |
| Authentication (`auth/`, `store/sqlite_account.go`) | OAuth state tokens, account sessions | begin, callback, authorize | Discord, store |
| Campaign packs, dungeon generator, policies, maturity tiers, language-model, image and engine clients | none | sequential computation or one external call | the tools |
| Registry heartbeat (`registry/`) and lobby (`registry/internal/lobby` of the registry service) | listings with a time to live; token buckets per address | create, heartbeat, remove, sweep, rate limit | each other over HTTP |

### What is hard, and what would be correct

* **Turn order.** Slow passes are started per player input and not serialised, so two of them can
  be inside `advanceToNextActionableCharacter` with the same struct, which it changes without the
  lock; a player's connection reads that struct; each lookup inside the search can fail and leave
  the index moved; the process can die between announcing a turn and writing the row. Correct:
  the search never indexes outside the order; the announced turn, the enforced turn and the row
  are the same turn between calls; turns go forward; an ended fight stays ended; every call ends.
* **Rolls.** The last reveal, a second tab's reveal and the timeout race; each sees the roll after
  it released the lock. Correct: every die told once, one completion, one close, the caller always
  resumed, nobody but the owner or the timeout reveals.
* **Connections.** `serve` waits for a pump that only `serve`'s own unregister can end, unregister
  panics if it runs twice and is called from two places, and the other goroutines send into the
  outbox meanwhile. Correct: registered exactly while served, closed once, everything ends.
* **Tools that move things.** Give, transfer, sell, buy, stash and retrieve read two records, ask
  the engine and write two records one after the other, without a transaction. Correct: nothing is
  made or lost, and a refusal changes nothing.
* **Character rows.** Every tool, effect and review loads a whole row, works on its copy, for up to 30 s
  of model time, and saves it back, over whatever a tool, the Host's verdict, a move or a deletion made
  of the row meanwhile. Correct: nothing unreviewed ever plays, nobody is harmed against the policy, and
  the Host has the last word.
* **Creation and prompts.** An answer that comes from the wrong sender is taken out and put back;
  several sessions of one sender exist at once; a session is looked up and used after the unlock.
  Correct: a session makes one character, its starter's, and can always be answered.
* **Turns of the DM.** The model may fail, never settle or panic in any round, and what it claims at
  the end may be refuted by a call that failed rounds before. Correct: one answer per input, last.
* **Event log.** A message is recorded and sent in two steps while a player registers and pages back;
  who may see a private one is worked out when it is read. Correct: nothing is missed, nothing leaks.
* **Audio.** A partial transcription that started before the last chunk must not arrive after the
  final one; a recording that is never finished is polled for ever.
* **Login.** A callback comes twice, late or after a restart. Correct: a link makes one session.
* **Campaign packs.** Files are written and removed one by one, and the process may end in between.
  Correct: a pack of the library is there as a whole or not at all.
* **Dungeon and battle map.** Corridors, rooms and shadows are cut at edges by small arithmetic; a
  move is judged against a map or a position that may be stale. Correct: everything dug can be
  reached, combatants stand on floor, walls hide what is behind them and nothing else.
* **Panel and gate.** Two forms write one row from what they read, an install binds a pack it saw no
  binding for, and a player joins between the Host's clicks. Correct: edits are lost only when
  requests overlap, and a closed game admits no newcomer.
* **Lobby.** Master and registry keep each other's state over HTTP: an answer is lost, a request
  arrives after it was given up, either side restarts and forgets. Correct: a campaign the Host took
  off leaves the page, one that is listed is there once, and both in bounded time.

`PROJECT.json` lists every hazard at its line with the properties that cover it.

## Modules

### TurnOrder: structured combat

`TurnOrder.tla` models `turn_order.go`, `combat_state.go`, the snapshot store and the part of
`combat_map.go` that creates, persists and drops a map. A *caller* is a goroutine that makes one
call at a time. `fights` is the heap of `turnOrder` structs ever allocated (callers keep pointers
to structs that are no longer current), `turnOrders` and `combatMaps` are the two map entries,
`row` is the database row, `announced` the last `turn.state` broadcast, `condition` what the system
engine would answer about each character. `loc` is each caller's program counter and locals.

The calls are `StartCombat`, `AdvanceTurn`, `EndCombat`, `GenerateCombatMap`, `MoveToken`. The search
is one action per load or store of the shared struct, because the code does them without the lock:
`FetchIndex`/`StoreIndex` are the halves of `currentIndex++`, then `CheckWrap`, `ResetIndex`,
`LoadCharacter`, `StartTurnFor`, `CheckCanAct`, `Land`, `MakePayload`, `BroadcastTurnState`. The rest of a
call is `SnapshotTurn`, `SnapshotMap`, `SaveCombatState` (two locks, then the write) or `EndTurnOrder`,
`EndMap`, `DeleteCombatState`, `BroadcastEnd`. With `Faults`, lookups and writes fail and `Restart` ends
the process and reads the row back. `cutShort` is a history variable: a call has failed half-way
since the last announcement; properties about agreement exempt that window, because the code makes
no promise about it.

The comment at the top of `turn_order.go` (lines 21-29) still says the order lives in memory only
and is lost on a restart; `combat_state.go` persists it. The module follows the code.

### ClientRoll and RollPromise: interactive rolls

`RollPromise.tla` is the abstract specification: a die is decided, then told to the spectators, once;
the roll completes once, when every die is decided; its channel is closed once, after that; the
caller goes on once every die is decided. `ClientRoll.tla` models `client_roll.go`: a `Waiter` that sends the roll
and the ghost dice, registers it and waits with a timeout, and `Connections` whose requests look the
roll up, mark a die under the lock (`MarkRevealed`), announce it after the unlock (`AnnounceDie`) and,
if no die is left, finish (`BeginFinish`, `SelfReveal`, `AnnounceComplete`, `CloseDone`). `KeepsPromise` is the refinement:
`decided` is `revealed`, `resumed` is the waiter's return.

### Connections: connections and hub

`Connections.tla` models `handleConnection`, `serve`, `readLoop`, `writePump`, the hub and the Host's kick
for one campaign. `serve[c]` and `pump[c]` are the program counters of a connection's two goroutines,
`rooms`, `closers`, `outbox` and `closes` the hub's state (a message is not told from another, so an
outbox is its length), `once` the `sync.Once` around `Unregister`, `writeDone` the channel of capacity
one. Every hub operation is one step because it holds `h.mu`. `Dispatch` stands for any handler: it does its
work, may send through the hub, and returns, goes on to a reply, or panics (then only the deferred unregister
runs). `Reply`, `SendSessionState` and `RejectHandshake` are writes of the reading goroutine on its own socket
(`OwnWrite`), which have no deadline: a peer that stays and does not read holds that goroutine, never another,
for ever. `KickPlayer` collects the closers under the lock and `CallCloser` calls them one by one later,
as `Hub.Kick` does. The session gate may pass or refuse, since the Host changes its settings at
any time. A reconnect is a second connection of the same sender.

### Holdings and HoldingsPromise: items and coins

`Holdings.tla` models the tools that move things: `give_item`, `transfer_currency` (`dm_tools.go`),
`vendor_sell_item`, `vendor_buy_item` (`vendor.go`), `stash_*`, `retrieve_*` (`location.go`) and the store
functions behind the last four (`sqlite_campaign_pack.go`). `row` is the characters' rows as far as
they hold items and coins, `stash` what each character left at the place where the party is, `loc`
each pass's program counter and locals. A call has a side `x`, the character it names first (the
vendor of a trade), and a side `y`, the other character or the cache; `Moved` is what it moves from `x`
to `y`. One action is one access to the store: `Find` or `FindNothing`, `Delete` (a retrieval takes it out of
the stash before anything else), `ReadX`, `ReadY`, `Engine` or `Refuse`, `SaveFirst`, `SaveSecond` or `Deposit`.
`FirstSide` is the order of the two writes, which differs from tool to tool: whoever pays is written
first. `CutShort` ends a call anywhere, by an error or by the end of the process. `apply_effect` reads
one row and writes it back as far as items and coins are concerned. `began`, `refused`, `odd` and `amiss`
are history variables: the totals of the start, what the store held when a refused call began, how many
calls were odd (below), and which kinds of calls did not move what they were to move.

Two odd kinds of calls are accepted by the code and so by the model. A call may name *one character as
both sides* (`Twice`): its row is read twice and saved twice, the copy saved last winning, so whoever
gives to itself makes what it gives (an item, or coins) and whoever trades with itself sells to nobody.
And `transfer_currency`, `stash_currency` and `retrieve_currency` take *amounts less than nothing* (only
`add_currency` rejects them): a transfer then goes the other way; a
retrieval adds to the cache before the engine is asked, so one that the engine refuses makes coins
(`"minus"`); a deposit takes from the cache without looking and may leave it below zero; and where
there is no row of `stashed_currency` (`purses` says who has one) the UPDATE changes none and the
coins are lost (`Rowless`). The properties name these calls where they are exceptions, and nothing else.

The system engine is external: it is taken to move what it is asked to move, or to refuse, which it
may always do and does when whoever gives does not have it. Items are of one kind and coins of one denomination.

`HoldingsPromise.tla` is the abstract specification: each tool is one step, all or nothing. What else a
call may come to is spelled out action by action: the five `Lose` actions are what it costs to end
between the writes (what was moved, or for a trade the price, the item being there twice), `Doubled` is a call
that names one character twice, `PayNobody` a retrieval from a cache without a row. `KeepsPromise` is the
refinement: in its view a write still due counts as made, so a tool takes effect with its first write
and a call that ends there loses what it owed; one that names a character twice takes effect with its last.

### Lobby: the public directory

`Lobby.tla` models both ends: the registry's store, handlers and sweeper (`registry/internal/lobby`,
`registry/main.go`) and the heartbeat loop and client of one Master (`master/internal/registry`).
`listings` is the store's map; the age of a listing is the number of ticks since its `LastHeartbeat`.
`registrations` is the loop's map, `loop` where `RunOnce` is: `RunOnce` reads the summaries (with the archived
flags, `loop.gone`), `SyncCampaign` reads the settings and decides on a request, `Exchange` lets the
registry see it, `Fail` loses or refuses it, `Receive` acts on the answer. A request the client gave up may
be on its way (`late`) and `Arrive` later, for at most one beat. `MasterRestart` and `RegistryRestart` forget
everything either side knows; nothing is deregistered at a shutdown, although `lobby.go:181` and
`client.go:163` describe `Deregister` as what a Master that shuts down cleanly does. `ChangeSettings` is the
Host: a campaign is `unlisted`, `listed`, or `gone` (archived or deleted while its row lists it). That a
campaign can be deleted at all (`DeleteCampaign`) is news to the comment at `heartbeat.go:108-111`, and the
comment at `admin_settings.go:98` calls the archived flag purely cosmetic; the loop acts on both.

Time passes in beats of the loop's ticker, and a `RunOnce` ends before the next beat (a campaign costs
at most two requests of 10 s). A listing is current before it is `Ttl` beats old and not afterwards; at
exactly `Ttl` it depends on the time within the beat, so `Sweep` may take it and `Live` may show it. An id
stands for id and token, which are random and always travel together; a token mismatch cannot happen
between these two parties. What a listing shows is left out. `unlisted`, `missed` and `calm` are history:
beats since the Host's last word that a campaign is off, beats missed in a row, beats since a failure.

### Characters: the rows and everybody who writes them

`Characters.tla` models the table of characters with all of its writers: the DM's tools on one row
(equipment, coins, effects, checks) and on two (`attack`, `cast_spell`, `grapple`, `shove`: the actor is
saved, then, if the policy lets the blow land, the target), a player's own effects and checks
(`server.go`), imports and creations, the automatic review (`CheckLevel`, `Judge`, `Conclude`,
`SaveVerdict`), the Host's (`HostReviews`, `HostSaves`), who also moves and deletes rows and switches
player versus player on and off (`SetPvp`). Of a row it keeps campaign, owner, status and whether
another player harmed it. `call`, `review` and `host` hold the copies in hand; each load, engine call, model
call and save is a step. `everPvp` and `vetted` are history: the policy has allowed it at some time; who
was approved, or made by the server itself.

### The nine services

Nine parts that share no state with each other have a module each, with its own `...Init`, `...Next` and
`...Spec`, so that proofs and runs can take them one by one or together.

* `Creation` (`character_creation.go`, `clientmsg.go`): `sessions` is `creationSessions`, `prompts` is
  `pendingPrompts`, `tab` what a connection's handler is doing. A prompt is written, then registered
  (`WritePrompt`, `RegisterPrompt`), taken out by any answer (`DeliverPromptAnswer`), routed by stage or
  put back. `made` records which session made a character for whom.
* `EventLog` (`store/sqlite.go`, `sendHistory`, `narrate_privately`, introductions, notices): `Say`,
  `RecordEvent` and `Send` are three steps; a viewer joins, fetches the tail, pages back or forward,
  leaves and comes back. `Recalled` is what the next turn's context is made from.
* `SlowPass` (`dm_slow_pass.go`): a turn is the bubble, mechanics rounds of tool calls, narration rounds,
  and an answer or a notice. `NoteFailure` keeps what a failed `start_combat` or `advance_turn` of the mechanics
  pass leaves, `Gated` is the check on turn-order claims. Both passes run whatever tool a reply names, offered
  or not (`callDMTool`): `NarrationCall` may therefore fail at a turn order, which nothing notes
  (`lateNoTurnOrder`), and `LooseNPC` may make an NPC without its schema, which `loose` records as history.
  What the tools do is in the other modules.
* `Audio` (`audio.go`): `buffered` is `audioStreams`, `speaker` the goroutine of the connection, `poller` that
  of the partial transcriptions; a text is as long as the chunks it was made from.
* `Login` (`auth/`, `sqlite_account.go`): `link` is the map of state tokens, pruned at every use, `rows`
  the sessions. `TakeLink` is the lookup under the lock, `CreateSession` what follows Discord's answer.
* `Packs` (`campaignpack/write.go`, `library.go`): `disk` is the pack directories file by file. Saving writes in
  place and takes back what cannot be read; installing stages beside, removes and renames.
* `Dungeon` (`dungeon/`): one `grow` is one step; all that is rolled is chosen. `Corridor` and `Placeable`
  are the code's cuts at edges and at what is dug, `Enqueue` and `Crowded` the caps of the queue.
* `BattleMap` (`combatmap/`, `combat_map.go`): `GenerateRoomsAndCorridors` over any tries, `ClusterPosition`, and
  a move that is requested on one map and applied when the store has answered (`RequestMove`,
  `MoveToken`), while another map may be drawn or the fight end. `CastLight` is the recursive shadow
  casting with its slopes as fractions: `Look` is one cell, `ScanRow` a row, and `LightRow` a row with the rows
  beyond it, which are lit for every gap from the outermost row in. It has no state.
* `Campaigns` (`admin/server.go`, `session_info.go`, `sqlite_admin_settings.go`): each request of the panel
  and each join is a sequence of single statements: `ReadForm` and `SaveForm`, `CheckBound` and
  `BindPack`, `ChooseCampaign` and `Activate`, `SessionGate`, `LookForCharacter` and `Enter`.
  A connection joins as `GuestName`; whoever is inside makes characters for the `ActingSenders`, which are any
  names when he is not in `Authenticated` (`actingSender`). The DM's `DmCreateNPC` makes them for the `Master`.
  `late` is a row that a tool, a review or the Host has read and will save whole (`GetCharacter`,
  `SaveCharacter`), wherever the character is by then. `entered`, `overlapped` and `welcome` are history:
  `welcome` takes up those who come by a character in the closed game by one of these ways or from the Host,
  and nobody who makes one signed in. That the Host deletes a single character is left out: it only takes
  an owner away, and what brings the row back is `SaveCharacter`.

### MC modules

`MCTurnOrder` names the sets of tools an instance uses, `MCConnections` the sender of each connection,
`MCHoldings` the characters a call may name, `MCCharacters` a symmetry of players. `MCServices` extends the nine services:
`part` says which of them moves in a behaviour, the others stay as they began, so that their numbers
of states add up. `Campaigns` is two parts, `edits` (rows, forms and packs) and `joins` (who gets into which
game). That a campaign is deleted, under its players too, is in `edits` only; the theorems about `Campaigns` are
about all its steps together. `ClientRoll` and `Lobby` need none.

## Runs

| run | question | instance |
|---|---|---|
| `turn_serial` | one call at a time, everything may fail, the process may restart: do table, memory and row agree, do turns go forward, does the search stay inside the order? | 1 caller, 1 character listed up to 3 times, 2 fights, advances until round 1 is over |
| `turn_concurrent` | two slow passes interleave inside the search: do ended fights stay ended, does every call return? | 2 callers, orders of length 1, 2 fights |
| `turn_gate`, `turn_stale_row` | two statements of comments, each refuted | 1 or 2 callers, see the cfg |
| `roll` | does a roll keep its promise and end, who reveals? | 3 dice, two tabs of the owner, another player |
| `connections` | a player reconnects while the old connection dies, is kicked, has a full outbox, panics: registered exactly while served? closed once? everything ends? | 2 connections of 1 sender, outbox of 1 |
| `holdings` | calls one at a time, ended anywhere, of one character or two: do things only move, does a refusal move nothing, what do the exceptions cost? | 1 pass, 2 characters, 2 stash ids, 1 odd call |
| `holdings_concurrent` | a statement of a comment, refuted | 2 passes, gifts and effects |
| `lobby` | requests are lost or late, both sides restart, the Host changes its mind: does one missed beat matter, is a campaign delisted in time, do orphans expire, does the directory heal? | 1 campaign, 3 beats to live, 2 listings, 1 late request, 5 ids |
| `characters` | a call, the review and the Host hold stale copies of rows that are moved and deleted meanwhile: does anything unreviewed play, is anybody harmed against the policy? | 2 characters, 2 players and the DM, 2 copies in hand |
| `host_last_word` | a statement of a comment, refuted | 1 campaign, no calls |
| `services` | the questions of the nine services, one at a time (below) | see below |

`services` asks of `Creation`: does a session make one character, can it always be answered
(`OneCharacterPerSession`, `SessionsStayAnswerable`)? Of `EventLog`: does a secret reach somebody else, is
anything missed (`PrivateStaysPrivate`, `NothingMissed`)? Of `SlowPass`: is a turn answered once, and does
its goroutine end (`AnsweredOnce`, `GoroutinesEnd`)? Of `Audio`: does a text shrink, does a poller stop
(`TextNeverShrinks`, `GoroutinesEnd`)? Of `Login`: is a link spent once (`LoginsAreSpentOnce`)? Of `Packs`:
are packs whole (`InstallsAreWhole`)? Of `Dungeon` and `BattleMap`: can what is dug be reached, do combatants
stand where they can meet, is sight straight (`DungeonConnected`, `FightersCanMeet`, `SightIsStraight`)? Of
`Campaigns`: who gets into a closed game, which edits are lost (`ClosedToNewcomers`,
`EditsAreLostOnlyByOverlap`)? About 458,000 states in all, no two services sharing one.

The types of `TurnOrder`, `ClientRoll`, `Connections` and `Characters` are proved and in no run.

### Bounds, and why they are enough

* *Characters and orders.* The search treats characters alike, and between any two steps
  `ApplyEffect` may give a character any condition, so one character listed three times behaves like
  three. Three positions are needed for a wrap, a character passed over and one in between;
  with two callers length one already has every interleaving of load, store, wrap and reset.
* *Fights.* Two: the one that is running and the one that replaces it. `EndedFightsStayEnded` is proved
  for any number.
* *Rounds.* `advance_turn` is not called after `MaxRound`; the search itself is not cut, so the round
  after it is reached. Nothing in the code compares rounds.
* *Dice and connections of a roll.* Three dice (one revealed, one being revealed, one left), two tabs
  of the owner (the race of two reveals) and one stranger. The proofs drop the bound.
* *Outbox.* One message instead of 16: full and empty are the only states the code distinguishes.
* *Connections.* Two of the same sender are a reconnect; the safety properties are proved for any
  number.
* *Holdings.* Two characters, since a call names at most two, and either may be named twice. Each starts
  with at most one item and one coin; a call moves a coin or minus one, an item costs one, so every call
  can be covered or not. Two ids in the stash: one to select and one to leave; a third deposit finds no
  id and can only be cut short. `MaxOdd` lets one call be odd (name a character twice or minus one), before,
  between and after any others. Characters and ids are symmetric, as no property tells them apart. The
  proofs drop all of these bounds.
* *Lobby.* Three beats to live are the defaults, 90 s and 30 s. One campaign: the loop treats them one
  after the other and they share only the cap of the store; the proofs are for any number. Two listings: the
  tracked one and an orphan, which also fill the store. One late request, five ids (one more than can
  be known at a time). `MaxMissed` only caps a counter.
* *Characters.* Two, an attacker and a target; one was uploaded and is the one the Host handles. Two copies
  in hand (`MaxCopies`) are a stale one and the one that made it stale. The proofs drop all bounds.
* *Creation.* Two tabs of one player and one of another, two sessions: every wrong sender and every
  second tab. Three prompts (`MaxPrompts`) lead through every stage. *EventLog*: two messages, pages
  of one event, one loss, one viewer: a message before and after every step of a fetch.
* *SlowPass.* Limits of 3 and 2 rounds instead of 10 and 5, up to two calls in a reply: first, last and one
  in between. *Audio*: three chunks, so that a partial text can be neither first nor last.
* *Login.* Two links, two callbacks, four ticks, a link good for one and a session for two: before, at and
  after each limit. *Packs*: one directory, one that saves and two that install; a pack of one file, of two,
  a chapter, and one that cannot be read.
* *Dungeon.* Five growth steps on two levels of 12 x 6 cells, corridors of 6 cells, rooms of 1 x 1 and
  vaults of 2 x 2: corridors that are cut by the edge, by each other and by rooms. *BattleMap*: two maps
  of 7 x 5 with up to two rooms of 2 x 2 anywhere; 8 x 6 was checked once, with the same result.
* *Campaigns.* Two campaigns to switch between, two requests that overlap, three acts of the Host, two players
  who come and go, one signed in and one not; two names, an account and the Master's, which the second goes by; of a
  form's values one that is not the default.

### Fairness

* `TurnOrder.FairSpec`: weak fairness of each caller's next step inside a call. Every engine, store and
  model call has a timeout (and returns an error), so a goroutine inside a call goes on; nobody is
  obliged to make a call, and `ApplyEffect`, `Restart` and failures have no fairness.
* `ClientRoll.FairSpec`: weak fairness of the waiter and of a connection inside `finishRoll`. No fairness
  for a player's clicks: the roll must end by its timeout.
* `Holdings`, `Characters` and the other services have no fairness: everything said of them is safety.
* `TurnFairness`: a turn's goroutine goes on, since the pass has a deadline that ends a completion or a
  tool call. `AudioFairness`: a poller's ticker ticks and a transcription ends (its context has a
  timeout). No player is obliged to finish a recording: `PollersEnd` speaks of those that are over.
* `Lobby.FairSpec`: the ticker ticks, the loop goes on (every request has a timeout), the sweeper runs and
  a late request arrives or is lost. The network is never obliged to work: `Heals` assumes that
  failures and restarts stop and says what must follow.
* `Connections.FairSpec`: goroutines run; a read or a write on a *closed* socket ends (it fails or was
  buffered); a handler gets through its work. The last is an assumption: it calls the store and the engine
  without a deadline of its own, and they are taken to answer or fail. A write on an open socket, a handler's
  own replies among them, may wait for ever and a client need not send or leave, so nothing is assumed of them.
  `HandlersReturn` therefore says that a handler comes past its sends to the others, to its return or its reply,
  and out of the reply when its client is gone; it does not say that a client which never reads gets rid of its handler.

## Findings

Four runs end in a violation, each of a statement quoted from the repository.

* `turn_gate`: `currentTurnCharacterID` says it is "safe to call from any goroutine". `start_combat`
  publishes its struct with `currentIndex` -1 and searches afterwards without the lock; a player's turn
  check in between evaluates `order[-1]`, and the recovered panic ends that player's connection.
* `turn_stale_row`: `persistCombatState` "writes the current in-memory state". It writes a snapshot it
  took before releasing the locks; an `end_combat` in between deletes the row first, and the ended
  fight is stored again and resumed by the next start.
* `holdings_concurrent`: "letting the item vanish from source without landing in target would be
  strictly worse than never having called the engine at all". An `apply_effect` on the receiver that
  read its row before the gift was written writes the old inventory back: the item has left the giver
  and is nowhere. Nothing serialises the two: effects also come from a player's connection.
* `host_last_word`: "A Host decision always overrides whatever the automatic post-upload review pass
  [...] already decided — the Host is this system's final authority". The review reads
  the row (`character_review.go:169`) and saves it whole with its own verdict (line 176), and the Host decides
  in between: in the trace the level is out of the campaign's range, so the verdict needs no model.

Other disagreements between comments and code, read while modelling and without a run of their own:

* "a map is scoped to one active combat" (`turn_order.go:414-416`), but a `start_combat` that replaces a
  running fight leaves the old map and roster.
* `client.roll_complete` is sent "once every die has been revealed" (`protocol/messages.go:943-944`), but the
  last reveal is broadcast after its lock is released and the completion can overtake it.
* "one or two missed beats doesn't flicker a listing on and off": 90 s are exactly three beats; one missed
  beat is harmless, after two the listing may lapse (`TwoMissesNeedFourBeats`).
* `WriteAndValidate` removes the whole directory when the files cannot be read (`write.go:66`), with the pack
  that was there before; the comment at `write.go:75-84` takes the directory to be new. `AddFilesAndValidate`
  restores what it remembered, which is not what was there when a path is given twice or a write is torn.
* `DeleteCampaign` is said to take everything of a campaign (`admin/server.go:1105-1106`) and leaves its
  `campaign_pack`, party location, stashes and vehicles; a write that was under way brings rows back, and
  a deleted campaign can stay the running one.
* `bindInstalledPackToCampaign` never clobbers a binding it sees; one that is put between its check and its
  write is overwritten. `PutCampaignPolicy` and `PutCampaignSecurity` overwrite each other's fields when
  they overlap (`EditsAreLostOnlyByOverlap` is what remains true).
* A dungeon narrower than 5 cells carves its outer ring, a secret vault with "no other exits" may be broken
  into by a later corridor, and the "symmetric" field of view need not be: what is checked and proved is `SightIsStraight`.
* A gift, a transfer or a trade that names one character twice is not refused and makes things (`Twice`), and
  a refused retrieval of less than nothing makes coins: `dmAddCurrency` rejects negative amounts
  (`dm_tools.go:1786`), the stash and transfer tools do not. Exceptions of `ThingsOnlyMove` and `FailuresMakeNoCoins`.
* `runNarrationPass` has "no schema-fetch gate or turn-order tracking to do: neither create_npc nor
  start_combat/advance_turn are offered here" (`dm_slow_pass.go:575-577`). They are not offered, but a reply that
  names them all the same is executed (line 606): an NPC without its schema, or a narration that claims a turn
  order which failed a moment before. `AnsweredOnce` says what the mechanics pass' gate still guarantees.
* "ActiveCampaignID empty means no game is joinable" (`admin/server.go:72-73`); the gate lets everybody into
  every campaign then, and says so (`session_info.go:26-28`, `SessionGate`).
* A closed game "blocks joins by anyone who doesn't already own a character" (`admin/server.go:73-74`) and "newcomers
  are turned away until the Host unlocks" (`session_info.go:30-32`); a connection inside that is not signed in
  can give any name a character (`actingSender`), which then passes. An exception of `ClosedToNewcomers`.
* A failure notice is recorded without a scope. The thinking indicator may come after the answer. A kick
  between `Register` and `SetCloser` finds no closer and skips that connection. A second tab's move is
  judged from where the token stood before the first tab's.

## Proofs

No proof assumes more than the named `ASSUME`s on the constants (bounds are positive naturals, flags
Booleans, sets subsets of each other) and what its theorem states: a single caller or pass, a store,
a grid with room. Each of these is needed, and said below where it is used.

* `TurnOrderProofs`, any number of callers, characters and fights, with failures and restarts.
  `TypeCorrect`: the type invariant, every reference to a fight being to one that was started.
  `EndedStayEnded`: an action property. Both follow from `TInv`: besides types it says that a caller's
  position in `startTurn` and `canAct` is inside the order it belongs to (orders never change once
  allocated: `OrdersKept`), without which the lookups of the search are not even typed. `turnOrders` is
  written by three actions only, and only `StartCombat` writes a fight, a new one.
  `CallsAreShort`, `CallsGetShorter`: the safety part of `CallsFinish`. `StepsLeft` counts what a call can still
  do: seven steps a lap, a lap for each position of the order it searches, and the steps after the search. The
  search counts its laps in a local and not by the shared index, so whatever other callers do to the
  struct (move the index, end or replace the fight) leaves the count alone. `ShortInv` adds to `TInv`
  that a lap under way is one of as many as the order has positions.
* `TurnOrderSerialProofs`, one caller. `SerialSearchNeverPanics`: the search never leaves the order. The
  invariant `SInv` ties the shared index to the caller's program counter: it is one past the end only
  between the increment and the reset, -1 only before the first increment, the last incapacitated
  position is a position of the same order, and the row and every carried turn hold a position or -1.
  With two callers the statement is false (`turn_gate` is the simplest case), which is why the theorem
  has its hypothesis. `SerialTableMemoryAndRowAgree`, with a store as well (`HasStore`; without one nothing
  survives a restart): `AInv` says for each program counter which of the table, the memory, the row and
  what the caller carries are already the new turn, or that the call was cut short. From it follows
  `SerialRowHoldsNoEndedFight`: what `turn_stale_row` shows of overlapping calls needs the overlap.
  `SerialTurnsMoveForward`: `FInv` relates the shared index and round to the last announcement while the
  search is under way, in the fight that was announced last; from `payload` on they are past it.
* `ClientRollProofs`, any number of dice and connections. `PromiseKept` is the refinement of
  `RollPromise`, step by step; `OnlyOwnerReveals`, `GhostDiceAlwaysFirst`, `RollTypeCorrect`. The invariant says
  who owes an announcement: each revealed die was announced once, or exactly one goroutine still has
  it to announce; and at most one goroutine is past the `completed` guard of `finishRoll`.
  `SettledRolls` is the safety part of `RollEnds`: a roll that has come to rest is whole. `EInv` adds the other
  direction: a revealed die that was not announced has somebody who owes it, and a completed roll whose
  channel is open has somebody who is finishing it.
* `ConnectionsProofs`, any number of connections and senders. `RegisteredWhileServing`, `NeverClosedTwice`,
  `ConnectionsTypeCorrect`. The strengthening `OnceInv` relates the `sync.Once` to the number of closes and
  to where `serve` is: set only past the read loop, and always before `serve` waits for its pump.
  `NobodyForgotten`, `OutboxesDrain`: the safety part of `ConnectionsEnd`. `PumpInv` follows the pump's one result
  from the pump to the reader that waits for it: it is in the channel when the pump is done and the reader
  has not passed it.
* `HoldingsProofs`, any number of characters, calls and amounts, less than nothing or of one character
  twice too, with every failure; one hypothesis, `OnePass` (the statement is false for two, see
  `holdings_concurrent`). `StepKinds` says what each step is to the promise. `PromiseKept` is
  the refinement of `HoldingsPromise`; `RefusedCallsMoveNothing`, `HoldingsTypeCorrect`. `ToolsOnlyMove` and
  `CutCallsMakeNoCoins` follow from the refinement for finitely many characters: in its view, where a write that
  is due counts as made, each step of the promise changes the sums over the characters by what it moves
  (`Balanced`), and when no call is under way the view is the store. The invariant
  `IInv` says that what a call has read is still in the row, that what it found in a cache is still
  there until it deletes it, and that before its first write the store is what it was when the call
  began; each is needed to know that the second write adds to what is there.
* `LobbyProofs`, any number of campaigns, listings, ids and late requests, any time to live, with every
  loss and restart. `DelistedAfterTtl`: the invariant `ListedSince` says that a request which publishes,
  sent or late, is for a campaign that was listed when its beat began, so a listing is at most a beat
  younger than the Host's decision (`ListingsAge`). `OneMissHarmless` (from three beats to live) and
  `TwoMissesNeedFourBeats`: `BeatAge` says that a tracked listing is no older than the beats its campaign
  missed, plus the one that is due. `OrphansExpireInTime`: an id goes by one campaign in all it can be met
  in (`OneCampaign`), and a listing that the loop does not track is as old as the calm has lasted, to within
  a beat (`OrphanAge`). `LobbyTypeCorrect`.
* `CharactersProofs`, any number of characters, players, campaigns and calls. `OnlyVettedPlay`,
  `HarmNeedsPolicy`, `CharactersTypeCorrect`. What is wrong in a copy of a row is in the table as soon as the
  copy is saved, so `IInv` says of every copy in hand what the properties say of the rows, and that a blow
  about to be saved was allowed.
* `ServicesProofs`, any value of the services' constants. `TextsGrow` (`Audio`): while a recording goes on
  the buffer holds at least as much as any transcription of it, and a finished one has no buffer, which is what
  stops a late partial text. `TurnsAnsweredOnce` (`SlowPass`): what each stage of a turn has told the
  table, a failed turn order of the mechanics pass being noted until the end, and that an NPC has its schema
  or was made by the narration pass. `TurnsStayBounded`: what was told is accounted for by the rounds so far (`OnBudget`), no pass goes over
  its limit of rounds, so the model cannot keep a turn going. `ClosedGamesStayClosed`, `EditsAreSafeOneByOne` (`Campaigns`): whoever passed the gate of a game that
  was closed since is among the welcome, or will be looked up again, and whoever comes by a character there
  is made welcome by the step that gives it, unless he makes it signed in, when he was there; a form being saved differs from what
  it read in its own field only. `SecretsAreKept` (`EventLog`): scoped messages go to their owners, pages
  stay within the log. `LoginsAreSafe` (`Login`): a link is in the table, with one callback, or spent.
  `OneCharacterEach`, `NoSessionIsForgotten` (`Creation`): a waiting session is free, in one connection's
  hand, or pending on one prompt. `PagesAndLiveMeet` (`EventLog`): `FollowInv` says that what a viewer has
  fetched is one stretch of the log, and that whatever comes after it was sent when he was in the room.
  `WholePacks` (`Packs`): what an install has staged is a pack that can be read, and only its own
  directory's removal leaves a part of one. `DungeonsHangTogether` (`Dungeon`), on grids at least
  three wide and high (`Roomy`): every carve adds cells that are reached from cells dug before (`Leads`), the
  points of the queue start from dug cells, and stairs are never dug over (`DungeonInv`).
  On a narrower grid `Clamp` puts the arrival outside, although `Options` promises that "small values
  just yield a small dungeon" (`dungeon/generator.go`); only tests call the generator so far.
  `FightersMeet` (`BattleMap`): a room is one piece, a corridor overlaps the two rooms it joins, so a map is
  one piece (`MapIs`); in a piece as many steps as it has cells reach all of it (`WithinAll`); the ranks of the
  cells in the scan are different, so every index has a cell (`EveryRank`); and a move that is applied was
  checked on the map it is applied to (`MapInv`).
  `SightRunsStraight` (`BattleMap`), for any map and radius: an octant lies between two rays, its axis and its
  diagonal, and each is lit up to its first wall (`CastShows`). By induction from the outermost row in, over all
  gaps at once: light that ends above the axis does not get to it, light that starts below the diagonal does
  not get to it (`AxisGood`, `DiagGood`), and every wall of a row leaves only such light on its far side.
  `ServicesTypeCorrect` (`MCServices`): a step of the run is a step or none of each service (`EachStep`), so the
  nine inductive invariants hold together, and they imply the types. Two needed more: an idle writer has no
  message in hand (`IdleOK`), and the login's types are kept beside `LoginInv`, which says when a link that a
  callback holds was made. The hypothesis is again `Roomy`.

## Only model-checked, and not modelled

*Only model-checked*: the liveness properties (`CallsFinish`, `RollEnds`, `ConnectionsEnd`,
`HandlersReturn`, `Heals`, `GoroutinesEnd`), which need fairness; of the first three what needs none is proved:
what is left to do gets less (`CallsGetShorter`, `OutboxesDrain`), nobody waits for what does not come
(`NobodyForgotten`), and the end that is reached is the right one (`SettledRolls`). That a step which is left can
be taken (`ENABLED`), and is, stays with TLC. Every invariant and every action property
of the passing runs is proved.

*Not modelled*, with reasons, is every component `PROJECT.json` lists as such: stateless computation
(policies, maturity tiers, wire types), external calls (model, image, transcription and engine clients,
which appear as steps that fail or take any time) and the browsers. Of the components listed as partly
modelled what is left out is text (prompts, context, campaign packs as the model writes them and as
they are repaired), pages and pictures, and what the plan below has left.
Real time is not modelled: a timeout is a step that may happen at any moment, and `Lobby` counts beats.

## Plan

Structured combat, rolls, connections, holdings, lobby, characters and the nine services are done,
above. Left, in this order:

1. *Vehicles and travel*: vehicles stabled and taken along, and the party's moves between locations,
   which `Holdings` leaves out because it stands in one place.
2. The lobby's rate limiter (token buckets and the sweep of idle ones).
3. *Generation of campaign packs* (`campaignpack/generate.go`): the repairs of what the model wrote, as
   operators against the check of the location graph.
4. The terms gate with the message types it lets through; the delayed thinking indicator as a goroutine
   of `SlowPass`.
