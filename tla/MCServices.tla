------------------------------- MODULE MCServices -------------------------------
(* The nine services that share no state with each other, as the cases of one
   run (Campaigns as two of them, what is set and who gets in): which of them
   moves is chosen at the start, the others stay as they began.  A behaviour is
   one of a single service, so their numbers of states add up and do not
   multiply. *)
EXTENDS Creation, EventLog, SlowPass, Audio, Login, Packs, Dungeon, BattleMap, Campaigns

CONSTANTS phone, laptop, desk

VARIABLE part

vars == <<part, creationVars, logVars, turnVars, audioVars, loginVars, packVars, dungeonVars, mapVars, campaignVars>>

Parts == {"creation", "log", "turn", "audio", "login", "packs", "dungeon", "map", "edits", "joins"}

\* alice has two tabs; the other player has one.
TabUsers == [t \in {phone, laptop, desk} |-> IF t = desk THEN "bob" ELSE "alice"]

\* Alice's character and bob's; alice's input is answered, and bob's.
Owner == [c \in {"c1", "c2"} |-> IF c = "c1" THEN "alice" ELSE "bob"]
Player == [w \in {"p1", "p2"} |-> IF w = "p1" THEN "alice" ELSE "bob"]
Secrets == {{"c1"}, {"c1", "c2"}}

\* A pack, another with both files, a chapter, and one whose chapter is bad.
File(path, text) == [path |-> path, text |-> text]
Archives ==
  {<<File("campaign.md", 1)>>,
   <<File("campaign.md", 2), File("other.md", 1)>>,
   <<File("other.md", 1)>>,
   <<File("campaign.md", 1), File("other.md", Bad)>>}

\* The player of the hero moves him; the monster is the DM's.
Fighters == <<"hero", "monster">>
HeroOnly == [m \in Movers |-> "hero"]

\* One player signed in; the other goes by the Master's name.
Name == [g \in Guests |-> IF g \in Authenticated THEN "account" ELSE "master"]

Init ==
  /\ part \in Parts
  /\ CreationInit /\ LogInit /\ TurnInit /\ AudioInit /\ LoginInit /\ PacksInit /\ DungeonInit /\ MapInit /\ CampaignsInit

Moves(p, others) == part = p /\ UNCHANGED <<part, others>>

Next ==
  \/ Moves("creation", <<logVars, turnVars, audioVars, loginVars, packVars, dungeonVars, mapVars, campaignVars>>) /\ CreationNext
  \/ Moves("log", <<creationVars, turnVars, audioVars, loginVars, packVars, dungeonVars, mapVars, campaignVars>>) /\ LogNext
  \/ Moves("turn", <<creationVars, logVars, audioVars, loginVars, packVars, dungeonVars, mapVars, campaignVars>>) /\ TurnNext
  \/ Moves("audio", <<creationVars, logVars, turnVars, loginVars, packVars, dungeonVars, mapVars, campaignVars>>) /\ AudioNext
  \/ Moves("login", <<creationVars, logVars, turnVars, audioVars, packVars, dungeonVars, mapVars, campaignVars>>) /\ LoginNext
  \/ Moves("packs", <<creationVars, logVars, turnVars, audioVars, loginVars, dungeonVars, mapVars, campaignVars>>) /\ PacksNext
  \/ Moves("dungeon", <<creationVars, logVars, turnVars, audioVars, loginVars, packVars, mapVars, campaignVars>>) /\ DungeonNext
  \/ Moves("map", <<creationVars, logVars, turnVars, audioVars, loginVars, packVars, dungeonVars, campaignVars>>) /\ MapNext
  \/ Moves("edits", <<creationVars, logVars, turnVars, audioVars, loginVars, packVars, dungeonVars, mapVars>>) /\ EditsNext
  \/ Moves("joins", <<creationVars, logVars, turnVars, audioVars, loginVars, packVars, dungeonVars, mapVars>>) /\ JoinsNext

Spec == Init /\ [][Next]_vars /\ TurnFairness /\ AudioFairness

\* Every variable of the services has its type.
ServicesTypeOK ==
  /\ part \in Parts
  /\ CreationTypeOK /\ LogTypeOK /\ TurnTypeOK /\ AudioTypeOK
  /\ LoginTypeOK /\ PacksTypeOK /\ DungeonTypeOK /\ MapTypeOK /\ CampaignsTypeOK

\* The detached goroutines come to an end: that of a turn, and the poller of a
\* recording that is over.
GoroutinesEnd == TurnsEnd /\ PollersEnd
================================================================================
