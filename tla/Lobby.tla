--------------------------------- MODULE Lobby ---------------------------------
(***************************************************************************)
(* The public directory of campaigns: the registry's store of listings     *)
(* (registry/internal/lobby) and the loop of one Master that keeps its     *)
(* campaigns' listings current (master/internal/registry), over a network  *)
(* that loses and delays.                                                  *)
(*                                                                         *)
(* Time passes in beats of the loop's ticker; a RunOnce ends before the    *)
(* next beat.  A listing of age n got its last heartbeat n ticks ago: it   *)
(* is certainly current before n = Ttl and certainly not after, and at     *)
(* n = Ttl it depends on the time within the beat.  An id stands for a     *)
(* listing's id and token: both are random and are never kept apart.       *)
(***************************************************************************)
EXTENDS Integers, FiniteSets

CONSTANTS
  Campaigns,
  Ids,          \* bound: ids in use at a time
  Ttl,          \* beats after which a listing is not current any more
  MaxListings,
  MaxLate,      \* bound: requests given up and still on their way
  MaxMissed     \* bound: missed beats counted

ASSUME TtlAssumption == Ttl \in Nat \ {0}
ASSUME IdsAssumption == Ids \subseteq Nat \ {0} /\ Campaigns # {}
ASSUME BoundsAssumption == MaxListings \in Nat /\ MaxLate \in Nat /\ MaxMissed \in Nat \ 0 .. 2
\* There is always an id that nobody knows.
ASSUME EnoughIds == Cardinality(Ids) > MaxListings + Cardinality(Campaigns) + MaxLate

VARIABLES
  settings,       \* per campaign: unlisted, listed or gone
  registrations,  \* the loop's map: campaign -> id
  loop,           \* the loop's program counter and locals
  due,            \* the ticker's channel holds a tick
  listings,       \* the store's map: id -> listing
  late,           \* requests the Master has given up and the registry has not seen
  unlisted,       \* beats since the Host's last word that the campaign is off
  missed,         \* consecutive beats of the campaign that failed
  calm            \* beats since something last failed or restarted

master == <<registrations, loop, due>>
history == <<unlisted, missed, calm>>
vars == <<settings, master, listings, late, history>>

\* A campaign that is gone was archived or deleted while its row lists it; an
\* unlisted one may be archived as well.
Settings == {"unlisted", "listed", "gone"}
Request(kind, c, id) == [kind |-> kind, campaign |-> c, id |-> id]
NoRequest == [kind |-> "none", id |-> 0]
Answer(status, id) == [status |-> status, id |-> id]
NoAnswer == Answer("none", 0)
Idle == [pc |-> "wait", todo |-> {}, gone |-> {}, req |-> NoRequest, answer |-> NoAnswer]

Put(f, k, v) == [i \in DOMAIN f \cup {k} |-> IF i = k THEN v ELSE f[i]]
Without(f, K) == [i \in DOMAIN f \ K |-> f[i]]
UpTo(limit, n) == IF n < limit THEN n + 1 ELSE limit
Horizon == Ttl + 2    \* bound: further back than this no history reaches

Init ==
  /\ settings \in [Campaigns -> Settings]
  /\ registrations = [c \in {} |-> 0]
  /\ loop = Idle
  /\ due = TRUE
  /\ listings = [i \in {} |-> 0]
  /\ late = {}
  /\ unlisted = [c \in Campaigns |-> 0]
  /\ missed = [c \in Campaigns |-> 0]
  /\ calm = Horizon

--------------------------------------------------------------------------------
(* The registry.                                                           *)

Known ==
  DOMAIN listings \cup {registrations[c] : c \in DOMAIN registrations}
  \cup {r.req.id : r \in late} \cup {loop.req.id, loop.answer.id}

\* Random ids are new ones; which of them is no difference.
NewId(id) == id \in Ids \ Known /\ \A other \in Ids \ Known : id <= other

Listed(r) == [campaign |-> r.campaign, age |-> 0]

\* Listings that are no longer current and were not swept count as well.
Create(r, answer) ==
  /\ r.kind = "register"
  /\ \/ /\ Cardinality(DOMAIN listings) >= MaxListings
        /\ answer = Answer("failed", 0) /\ UNCHANGED listings
     \/ /\ Cardinality(DOMAIN listings) < MaxListings
        /\ \E id \in Ids : /\ NewId(id)
                           /\ answer = Answer("ok", id)
                           /\ listings' = Put(listings, id, Listed(r))

\* Mutant: a heartbeat applies the fields and leaves LastHeartbeat alone.
HeartbeatWithoutTime(r, answer) ==
  /\ r.kind = "heartbeat"
  /\ IF r.id \in DOMAIN listings
     THEN /\ answer = Answer("ok", 0)
          /\ listings' = Put(listings, r.id, [Listed(r) EXCEPT !.age = listings[r.id].age])
     ELSE answer = Answer("notfound", 0) /\ UNCHANGED listings

Heartbeat(r, answer) ==
  /\ r.kind = "heartbeat"
  /\ IF r.id \in DOMAIN listings
     THEN answer = Answer("ok", 0) /\ listings' = Put(listings, r.id, Listed(r))
     ELSE answer = Answer("notfound", 0) /\ UNCHANGED listings

Remove(r, answer) ==
  /\ r.kind = "deregister"
  /\ answer = Answer(IF r.id \in DOMAIN listings THEN "ok" ELSE "notfound", 0)
  /\ listings' = Without(listings, {r.id})

Answers == [status : {"ok", "notfound", "failed"}, id : Ids \cup {0}]
Handle(r, answer) == Create(r, answer) \/ Heartbeat(r, answer) \/ Remove(r, answer)

Expired(id) == listings[id].age > Ttl
Expiring(id) == listings[id].age >= Ttl

Sweep ==
  /\ \E gone \in SUBSET {id \in DOMAIN listings : Expiring(id)} :
       /\ {id \in DOMAIN listings : Expired(id)} \subseteq gone /\ gone # {}
       /\ listings' = Without(listings, gone)
  /\ UNCHANGED <<settings, master, late, history>>

RegistryRestart ==
  /\ listings' = [i \in {} |-> 0]
  /\ calm' = 0
  /\ UNCHANGED <<settings, master, late, unlisted, missed>>

--------------------------------------------------------------------------------
(* The Master's loop.                                                      *)

Tracked == DOMAIN registrations
Miss(C) == missed' = [c \in Campaigns |-> IF c \in C \cap Tracked THEN UpTo(MaxMissed, missed[c]) ELSE missed[c]]

\* A tick starts RunOnce, which lists the campaigns, and which are archived or
\* not there any more, or fails.
RunOnce ==
  /\ loop.pc = "wait" /\ due
  /\ due' = FALSE
  /\ \/ /\ \E hidden \in SUBSET {c \in Campaigns : settings[c] = "unlisted"} :
             loop' = [Idle EXCEPT !.pc = "next", !.todo = Campaigns,
                                  !.gone = hidden \cup {c \in Campaigns : settings[c] = "gone"}]
        /\ UNCHANGED <<missed, calm>>
     \/ UNCHANGED loop /\ Miss(Campaigns) /\ calm' = 0
  /\ UNCHANGED <<settings, registrations, listings, late, unlisted>>

\* r is sent for campaign c, or c is done and RunOnce goes on or ends.
Send(c, r) == [Idle EXCEPT !.pc = "sent", !.todo = loop.todo \ {c}, !.gone = loop.gone \ {c}, !.req = r]
Skip(c) ==
  IF loop.todo \subseteq {c} THEN Idle
  ELSE [Idle EXCEPT !.pc = "next", !.todo = loop.todo \ {c}, !.gone = loop.gone \ {c}]

\* What the settings' row may say; of a deleted campaign there is none.
Row(c) == IF settings[c] = "gone" THEN {"unlisted", "listed"} ELSE {settings[c]}

\* Mutant: the archived flag of the summary is not looked at.
SyncArchived ==
  /\ loop.pc = "next"
  /\ \E c \in loop.todo :
       \/ loop' = Skip(c) /\ Miss({c}) /\ calm' = 0
       \/ /\ \E row \in Row(c) :
               LET listed == row = "listed" IN
               loop' = CASE ~listed /\ c \in Tracked -> Send(c, Request("deregister", c, registrations[c]))
                         [] ~listed /\ c \notin Tracked -> Skip(c)
                         [] listed /\ c \in Tracked -> Send(c, Request("heartbeat", c, registrations[c]))
                         [] OTHER -> Send(c, Request("register", c, 0))
          /\ UNCHANGED <<missed, calm>>
  /\ UNCHANGED <<settings, registrations, due, listings, late, unlisted>>

\* syncCampaign up to its first request: loads the settings, or fails.
SyncCampaign ==
  /\ loop.pc = "next"
  /\ \E c \in loop.todo :
       \/ loop' = Skip(c) /\ Miss({c}) /\ calm' = 0
       \/ /\ \E row \in Row(c) :
               LET listed == row = "listed" /\ c \notin loop.gone IN
               loop' = CASE ~listed /\ c \in Tracked -> Send(c, Request("deregister", c, registrations[c]))
                         [] ~listed /\ c \notin Tracked -> Skip(c)
                         [] listed /\ c \in Tracked -> Send(c, Request("heartbeat", c, registrations[c]))
                         [] OTHER -> Send(c, Request("register", c, 0))
          /\ UNCHANGED <<missed, calm>>
  /\ UNCHANGED <<settings, registrations, due, listings, late, unlisted>>

\* The registry sees the request; its answer arrives or not.
Exchange ==
  /\ loop.pc = "sent"
  /\ \E answer \in Answers :
       /\ Handle(loop.req, answer)
       /\ \/ /\ loop' = [loop EXCEPT !.pc = "answered", !.answer = answer]
             /\ UNCHANGED calm
          \/ /\ loop' = [loop EXCEPT !.pc = "answered", !.answer = Answer("failed", 0)]
             /\ calm' = 0
  /\ UNCHANGED <<settings, registrations, due, late, unlisted, missed>>

\* It is refused (no connection, rate limit, another error), or given up after
\* the client's timeout while it is on its way.
Fail ==
  /\ loop.pc = "sent"
  /\ loop' = [loop EXCEPT !.pc = "answered", !.answer = Answer("failed", 0)]
  /\ calm' = 0
  /\ \/ UNCHANGED late
     \/ Cardinality(late) < MaxLate /\ late' = late \cup {[req |-> loop.req, old |-> FALSE]}
  /\ UNCHANGED <<settings, registrations, due, listings, unlisted, missed>>

\* Mutant: the id of a Register that failed is kept.
ReceiveUnchecked ==
  LET r == loop.req a == loop.answer IN
  /\ loop.pc = "answered"
  /\ registrations' =
       CASE r.kind = "deregister" -> Without(registrations, {r.campaign})
         [] r.kind = "register" -> Put(registrations, r.campaign, a.id)
         [] OTHER -> registrations
  /\ loop' = IF r.kind = "heartbeat" /\ a.status = "notfound"
             THEN [loop EXCEPT !.pc = "sent", !.req = [r EXCEPT !.kind = "register", !.id = 0],
                               !.answer = NoAnswer]
             ELSE Skip(r.campaign)
  /\ missed' = [missed EXCEPT ![r.campaign] =
       CASE a.status = "ok" -> 0
         [] a.status = "failed" /\ r.kind # "deregister" -> UpTo(MaxMissed, @)
         [] OTHER -> @]
  /\ UNCHANGED <<settings, due, listings, late, unlisted, calm>>

\* Mutant: the id of a second Register is not kept.
ReceiveForgetful ==
  LET r == loop.req a == loop.answer IN
  /\ loop.pc = "answered"
  /\ registrations' =
       CASE r.kind = "deregister" -> Without(registrations, {r.campaign})
         [] r.kind = "register" /\ a.status = "ok" /\ r.campaign \notin Tracked -> Put(registrations, r.campaign, a.id)
         [] OTHER -> registrations
  /\ loop' = IF r.kind = "heartbeat" /\ a.status = "notfound"
             THEN [loop EXCEPT !.pc = "sent", !.req = [r EXCEPT !.kind = "register", !.id = 0],
                               !.answer = NoAnswer]
             ELSE Skip(r.campaign)
  /\ missed' = [missed EXCEPT ![r.campaign] =
       CASE a.status = "ok" -> 0
         [] a.status = "failed" /\ r.kind # "deregister" -> UpTo(MaxMissed, @)
         [] OTHER -> @]
  /\ UNCHANGED <<settings, due, listings, late, unlisted, calm>>

\* Mutant: a Heartbeat's 404 is an error like any other.
ReceiveGivingUp ==
  LET r == loop.req a == loop.answer IN
  /\ loop.pc = "answered"
  /\ registrations' =
       CASE r.kind = "deregister" -> Without(registrations, {r.campaign})
         [] r.kind = "register" /\ a.status = "ok" -> Put(registrations, r.campaign, a.id)
         [] OTHER -> registrations
  /\ loop' = Skip(r.campaign)
  /\ missed' = [missed EXCEPT ![r.campaign] =
       CASE a.status = "ok" -> 0
         [] a.status = "failed" /\ r.kind # "deregister" -> UpTo(MaxMissed, @)
         [] OTHER -> @]
  /\ UNCHANGED <<settings, due, listings, late, unlisted, calm>>

\* What syncCampaign does with an answer: it drops the registration whatever
\* Deregister says, keeps the id of a Register, and registers anew at once
\* when a Heartbeat's id is not known.
Receive ==
  LET r == loop.req a == loop.answer IN
  /\ loop.pc = "answered"
  /\ registrations' =
       CASE r.kind = "deregister" -> Without(registrations, {r.campaign})
         [] r.kind = "register" /\ a.status = "ok" -> Put(registrations, r.campaign, a.id)
         [] OTHER -> registrations
  /\ loop' = IF r.kind = "heartbeat" /\ a.status = "notfound"
             THEN [loop EXCEPT !.pc = "sent", !.req = [r EXCEPT !.kind = "register", !.id = 0],
                               !.answer = NoAnswer]
             ELSE Skip(r.campaign)
  /\ missed' = [missed EXCEPT ![r.campaign] =
       CASE a.status = "ok" -> 0
         [] a.status = "failed" /\ r.kind # "deregister" -> UpTo(MaxMissed, @)
         [] OTHER -> @]
  /\ UNCHANGED <<settings, due, listings, late, unlisted, calm>>

\* The process ends, cleanly or not: nothing is deregistered.
MasterRestart ==
  /\ registrations' = [c \in {} |-> 0]
  /\ loop' = Idle
  /\ due' = TRUE
  /\ calm' = 0
  /\ missed' = [c \in Campaigns |-> 0]
  /\ \/ UNCHANGED late
     \/ /\ loop.pc = "sent" /\ Cardinality(late) < MaxLate
        /\ late' = late \cup {[req |-> loop.req, old |-> FALSE]}
  /\ UNCHANGED <<settings, listings, unlisted>>

--------------------------------------------------------------------------------
(* Host, network and time.                                                 *)

\* The Host changes, archives, restores or deletes a campaign.
ChangeSettings ==
  /\ \E c \in Campaigns, s \in Settings :
       /\ s # settings[c]
       /\ settings' = [settings EXCEPT ![c] = s]
       /\ unlisted' = IF s = "unlisted" THEN unlisted ELSE [unlisted EXCEPT ![c] = 0]
  /\ UNCHANGED <<master, listings, late, missed, calm>>

\* A request given up arrives after all, or never.
Arrive ==
  \E r \in late :
    /\ late' = late \ {r}
    /\ (\E answer \in Answers : Handle(r.req, answer)) \/ UNCHANGED listings
    /\ UNCHANGED <<settings, master, history>>

\* No request is on its way for a whole beat.
Tick ==
  /\ loop.pc = "wait" /\ ~due
  /\ \A r \in late : ~r.old
  /\ due' = TRUE
  /\ late' = {[req |-> r.req, old |-> TRUE] : r \in late}
  /\ listings' = [id \in DOMAIN listings |->
       [listings[id] EXCEPT !.age = UpTo(Ttl + 1, @)]]
  /\ unlisted' = [c \in Campaigns |->
       IF settings[c] = "listed" THEN 0 ELSE UpTo(Horizon, unlisted[c])]
  /\ calm' = UpTo(Horizon, calm)
  /\ UNCHANGED <<settings, registrations, loop, missed>>

Loop == RunOnce \/ SyncCampaign \/ Exchange \/ Fail \/ Receive

Next ==
  \/ Loop \/ MasterRestart
  \/ Sweep \/ RegistryRestart
  \/ ChangeSettings \/ Arrive \/ Tick

Spec == Init /\ [][Next]_vars

\* Time passes, the sweeper runs and a request ends within its timeout.
FairSpec == Spec /\ WF_vars(Loop) /\ WF_vars(Sweep) /\ WF_vars(Arrive) /\ WF_vars(Tick)

--------------------------------------------------------------------------------
(* Properties.                                                             *)

Listing == [campaign : Campaigns, age : 0 .. Ttl + 1]
Requests ==
  [kind : {"register"}, campaign : Campaigns, id : {0}]
  \cup [kind : {"heartbeat", "deregister"}, campaign : Campaigns, id : Ids]

TypeOK ==
  /\ settings \in [Campaigns -> Settings]
  /\ DOMAIN registrations \subseteq Campaigns /\ registrations \in [DOMAIN registrations -> Ids]
  /\ loop \in [pc : {"wait", "next", "sent", "answered"}, todo : SUBSET Campaigns, gone : SUBSET Campaigns,
               req : Requests \cup {NoRequest}, answer : Answers \cup {NoAnswer}]
  /\ loop.pc \in {"sent", "answered"} => loop.req # NoRequest
  /\ loop.pc = "answered" => loop.answer # NoAnswer
  /\ due \in BOOLEAN
  /\ DOMAIN listings \subseteq Ids /\ listings \in [DOMAIN listings -> Listing]
  /\ late \subseteq [req : Requests, old : BOOLEAN]
  /\ unlisted \in [Campaigns -> 0 .. Horizon]
  /\ missed \in [Campaigns -> 0 .. MaxMissed]
  /\ calm \in 0 .. Horizon

\* What the public page may show.
Live == {id \in DOMAIN listings : listings[id].age <= Ttl}

\* A tracked listing that missed n beats in a row is still current.
SurvivesMisses(n) ==
  \A c \in Tracked :
    registrations[c] \in DOMAIN listings /\ missed[c] <= n => listings[registrations[c]].age < Ttl

\* "so a slow tick or two doesn't make a listing flicker" (master/main.go:120):
\* one missed beat does not take a campaign off the page.
OneMissedBeatIsHarmless == SurvivesMisses(1)

\* "so one or two missed beats doesn't flicker a listing on and off"
\* (registry/main.go:34).
TwoMissedBeatsAreHarmless == SurvivesMisses(2)

\* A campaign the Host took off is off the page a time to live later, whatever
\* was lost, late or restarted (heartbeat.go:25-33, 153-161; lobby.go:113-120).
DelistedInTime ==
  \A id \in Live : unlisted[listings[id].campaign] <= Ttl + 1

\* "it just becomes an orphaned entry that expires on its own" (lobby.go:113-120):
\* once nothing has failed for a time to live, what the page shows is what the
\* Master tracks, so no campaign is there twice.
OrphansExpire ==
  calm > Ttl + 1 =>
    \A id \in Live :
      \/ listings[id].campaign \in Tracked /\ registrations[listings[id].campaign] = id
      \/ loop.pc = "answered" /\ loop.answer.id = id

\* The directory heals itself (lobby.go:10-14, heartbeat.go:163-171): when
\* failures stop and the Host leaves a campaign alone, it is there once, or not
\* at all if the Host does not list it.
ShownAs(c, s) ==
  Cardinality({id \in Live : listings[id].campaign = c}) = IF s = "listed" THEN 1 ELSE 0

Heals ==
  \A c \in Campaigns, s \in Settings :
    <>[](calm # 0 /\ settings[c] = s) => <>[]ShownAs(c, s)
================================================================================
