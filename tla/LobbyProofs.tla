------------------------------ MODULE LobbyProofs ------------------------------
(***************************************************************************)
(* For any campaigns, time to live and bounds: types; a campaign the Host  *)
(* took off leaves the public page in time, whatever is lost, late or      *)
(* restarted; missed beats that are harmless; and an orphaned listing that *)
(* expires on its own.                                                     *)
(***************************************************************************)
EXTENDS Lobby, TLAPS

\* An id that was given out is one.
AnswerOK ==
  loop.pc = "answered" /\ loop.req.kind = "register" /\ loop.answer.status = "ok" =>
    loop.answer.id \in Ids

\* Only a campaign that is listed, or was when this beat began, is published
\* by a request the loop waits for; one given up is at most a beat older.  What
\* is gone and was there when the beat began has gone since.
Publishes(r) == r.kind \in {"register", "heartbeat"}
SeenSince ==
  /\ loop.pc = "wait" => loop.todo = {}
  /\ \A c \in loop.todo \ loop.gone : settings[c] = "gone" => unlisted[c] = 0
ListedSince ==
  /\ \A c \in Campaigns : settings[c] = "listed" => unlisted[c] = 0
  /\ loop.pc \in {"sent", "answered"} /\ Publishes(loop.req) =>
       unlisted[loop.req.campaign] = 0
  /\ \A r \in late : Publishes(r.req) => unlisted[r.req.campaign] <= IF r.old THEN 1 ELSE 0
  /\ SeenSince

\* A listing is at most a beat younger than the Host's decision.
ListingsAge ==
  \A id \in DOMAIN listings : unlisted[listings[id].campaign] <= listings[id].age + 1

TInv == TypeOK /\ AnswerOK
IInv == TInv /\ ListedSince /\ ListingsAge

USE TtlAssumption, IdsAssumption, BoundsAssumption

--------------------------------------------------------------------------------
(* Requests and counters.                                                  *)

LEMMA RequestFields ==
  ASSUME NEW r \in Requests
  PROVE  /\ r.campaign \in Campaigns
         /\ r.kind \in {"register", "heartbeat", "deregister"}
         /\ r.kind # "register" => r.id \in Ids
         /\ r # NoRequest
BY DEF Requests, NoRequest

LEMMA UpToBounds ==
  ASSUME NEW limit \in Nat, NEW n \in 0 .. limit
  PROVE  /\ UpTo(limit, n) \in 0 .. limit
         /\ n <= UpTo(limit, n) /\ UpTo(limit, n) <= n + 1
         /\ n < limit => UpTo(limit, n) = n + 1
         /\ n = limit => UpTo(limit, n) = n
BY DEF UpTo

\* The two maps after an entry was put or some were taken out.
LEMMA PutListing ==
  ASSUME DOMAIN listings \subseteq Ids, listings \in [DOMAIN listings -> Listing],
         NEW id \in Ids, NEW v \in Listing, listings' = Put(listings, id, v)
  PROVE  /\ DOMAIN listings' = DOMAIN listings \cup {id}
         /\ listings' \in [DOMAIN listings' -> Listing]
         /\ listings'[id] = v
         /\ \A i \in DOMAIN listings \ {id} : listings'[i] = listings[i]
BY DEF Put

LEMMA WithoutListings ==
  ASSUME DOMAIN listings \subseteq Ids, listings \in [DOMAIN listings -> Listing],
         NEW gone, listings' = Without(listings, gone)
  PROVE  /\ DOMAIN listings' = DOMAIN listings \ gone
         /\ listings' \in [DOMAIN listings' -> Listing]
         /\ \A i \in DOMAIN listings' : listings'[i] = listings[i]
BY DEF Without

LEMMA PutRegistration ==
  ASSUME DOMAIN registrations \subseteq Campaigns, registrations \in [DOMAIN registrations -> Ids],
         NEW c \in Campaigns, NEW id \in Ids, registrations' = Put(registrations, c, id)
  PROVE  DOMAIN registrations' \subseteq Campaigns /\ registrations' \in [DOMAIN registrations' -> Ids]
BY DEF Put

LEMMA WithoutRegistration ==
  ASSUME DOMAIN registrations \subseteq Campaigns, registrations \in [DOMAIN registrations -> Ids],
         NEW gone, registrations' = Without(registrations, gone)
  PROVE  DOMAIN registrations' \subseteq Campaigns /\ registrations' \in [DOMAIN registrations' -> Ids]
BY DEF Without

LEMMA ListedType ==
  ASSUME NEW r \in Requests, Publishes(r)
  PROVE  Listed(r) \in Listing /\ Listed(r).campaign = r.campaign /\ Listed(r).age = 0
BY DEF Requests, Publishes, Listed, Listing

\* What the registry does with a request: types are kept, a new id is one, and
\* only a request that publishes makes a listing, of its campaign and of age 0.
LEMMA HandleKeeps ==
  ASSUME TypeOK, NEW r \in Requests, NEW answer \in Answers, Handle(r, answer)
  PROVE  /\ DOMAIN listings' \subseteq Ids /\ listings' \in [DOMAIN listings' -> Listing]
         /\ r.kind = "register" /\ answer.status = "ok" =>
              answer.id \in DOMAIN listings' /\ listings'[answer.id].age = 0
         /\ r.kind = "heartbeat" /\ answer.status = "ok" =>
              r.id \in DOMAIN listings' /\ listings'[r.id].age = 0
         /\ \A id \in DOMAIN listings' :
              \/ id \in DOMAIN listings /\ listings'[id] = listings[id]
              \/ Publishes(r) /\ listings'[id].campaign = r.campaign /\ listings'[id].age = 0
<1>t. DOMAIN listings \subseteq Ids /\ listings \in [DOMAIN listings -> Listing]
  BY DEF TypeOK
<1>1. CASE Create(r, answer)
  <2>1. CASE answer = Answer("failed", 0) /\ UNCHANGED listings
    BY <1>t, <2>1 DEF Answer
  <2>2. CASE \E id \in Ids : answer = Answer("ok", id) /\ listings' = Put(listings, id, Listed(r))
    <3>1. PICK id \in Ids : answer = Answer("ok", id) /\ listings' = Put(listings, id, Listed(r))
      BY <2>2
    <3>2. Publishes(r)
      BY <1>1 DEF Create, Publishes
    <3>3. Listed(r) \in Listing /\ Listed(r).campaign = r.campaign /\ Listed(r).age = 0
      BY <3>2, ListedType
    <3>4. /\ DOMAIN listings' = DOMAIN listings \cup {id}
          /\ listings' \in [DOMAIN listings' -> Listing]
          /\ listings'[id] = Listed(r)
          /\ \A i \in DOMAIN listings \ {id} : listings'[i] = listings[i]
      BY <1>t, <3>1, <3>3, PutListing
    <3>5. \A i \in DOMAIN listings' :
            \/ i \in DOMAIN listings /\ listings'[i] = listings[i]
            \/ Publishes(r) /\ listings'[i].campaign = r.campaign /\ listings'[i].age = 0
      BY <3>2, <3>3, <3>4
    <3>6. r.kind = "register" /\ answer.status = "ok" /\ answer.id = id
      BY <1>1, <3>1 DEF Create, Answer
    <3>7. QED
      BY <1>t, <3>1, <3>3, <3>4, <3>5, <3>6
  <2>3. QED
    BY <1>1, <2>1, <2>2 DEF Create
<1>2. CASE Heartbeat(r, answer)
  <2>1. CASE r.id \in DOMAIN listings
    <3>1. r.id \in Ids /\ listings' = Put(listings, r.id, Listed(r)) /\ r.kind = "heartbeat"
      BY <1>2, <1>t, <2>1 DEF Heartbeat
    <3>2. Publishes(r)
      BY <3>1 DEF Publishes
    <3>3. Listed(r) \in Listing /\ Listed(r).campaign = r.campaign /\ Listed(r).age = 0
      BY <3>2, ListedType
    <3>4. /\ DOMAIN listings' = DOMAIN listings \cup {r.id}
          /\ listings' \in [DOMAIN listings' -> Listing]
          /\ listings'[r.id] = Listed(r)
          /\ \A i \in DOMAIN listings \ {r.id} : listings'[i] = listings[i]
      BY <1>t, <3>1, <3>3, PutListing
    <3>5. \A i \in DOMAIN listings' :
            \/ i \in DOMAIN listings /\ listings'[i] = listings[i]
            \/ Publishes(r) /\ listings'[i].campaign = r.campaign /\ listings'[i].age = 0
      BY <3>2, <3>3, <3>4
    <3>6. QED
      BY <1>t, <3>1, <3>3, <3>4, <3>5
  <2>2. CASE r.id \notin DOMAIN listings
    BY <1>2, <1>t, <2>2 DEF Heartbeat, Answer
  <2>3. QED
    BY <2>1, <2>2
<1>3. CASE Remove(r, answer)
  <2>1. r.kind = "deregister" /\ listings' = Without(listings, {r.id})
    BY <1>3 DEF Remove
  <2>2. QED
    BY <1>t, <2>1, WithoutListings
<1>4. QED
  BY <1>1, <1>2, <1>3 DEF Handle

LEMMA MissType ==
  ASSUME TypeOK, NEW C, Miss(C)
  PROVE  missed' \in [Campaigns -> 0 .. MaxMissed]
<1>1. \A c \in Campaigns : UpTo(MaxMissed, missed[c]) \in 0 .. MaxMissed
  BY UpToBounds DEF TypeOK
<1>2. QED
  BY <1>1 DEF TypeOK, Miss

LEMMA SkipType ==
  ASSUME TypeOK, NEW c
  PROVE  /\ Skip(c) \in [pc : {"wait", "next"}, todo : SUBSET Campaigns, gone : SUBSET Campaigns,
                         req : {NoRequest}, answer : {NoAnswer}]
         /\ Skip(c).todo \ Skip(c).gone \subseteq loop.todo \ loop.gone
         /\ Skip(c).pc = "wait" => Skip(c).todo = {}
BY DEF TypeOK, Skip, Idle

LEMMA SendType ==
  ASSUME TypeOK, NEW c, NEW r \in Requests
  PROVE  /\ Send(c, r) \in [pc : {"sent"}, todo : SUBSET Campaigns, gone : SUBSET Campaigns,
                            req : {r}, answer : {NoAnswer}]
         /\ Send(c, r).todo \ Send(c, r).gone \subseteq loop.todo \ loop.gone
BY DEF TypeOK, Send, Idle

LEMMA IdleType ==
  Idle \in [pc : {"wait"}, todo : SUBSET Campaigns, gone : SUBSET Campaigns, req : {NoRequest}, answer : {NoAnswer}]
BY DEF Idle

--------------------------------------------------------------------------------
(* The invariant.                                                          *)

LEMMA InitInv == Init => IInv
<1> SUFFICES ASSUME Init PROVE IInv
  OBVIOUS
<1>1. TypeOK
  BY IdleType DEF Init, TypeOK, Horizon, Idle
<1>2. AnswerOK /\ ListedSince /\ ListingsAge
  BY DEF Init, AnswerOK, ListedSince, SeenSince, ListingsAge, Idle
<1>3. QED
  BY <1>1, <1>2 DEF IInv, TInv

LEMMA RunOnceInv == IInv /\ RunOnce => IInv'
<1> SUFFICES ASSUME IInv, RunOnce PROVE IInv'
  OBVIOUS
<1> USE DEF IInv, TInv
<1>1. ASSUME NEW hidden \in SUBSET {c \in Campaigns : settings[c] = "unlisted"},
             loop' = [Idle EXCEPT !.pc = "next", !.todo = Campaigns,
                                  !.gone = hidden \cup {c \in Campaigns : settings[c] = "gone"}],
             UNCHANGED <<missed, calm>>
      PROVE  IInv'
  <2>1. /\ loop' \in [pc : {"next"}, todo : SUBSET Campaigns, gone : SUBSET Campaigns,
                      req : {NoRequest}, answer : {NoAnswer}]
        /\ \A c \in loop'.todo \ loop'.gone : settings[c] # "gone"
    BY <1>1 DEF Idle
  <2>2. TypeOK'
    BY <1>1, <2>1 DEF RunOnce, TypeOK
  <2>3. (AnswerOK /\ ListedSince /\ ListingsAge)'
    BY <1>1, <2>1 DEF RunOnce, AnswerOK, ListedSince, SeenSince, ListingsAge
  <2>4. QED
    BY <2>2, <2>3
<1>2. CASE UNCHANGED loop /\ Miss(Campaigns) /\ calm' = 0
  <2>1. missed' \in [Campaigns -> 0 .. MaxMissed]
    BY <1>2, MissType
  <2>0. calm' \in 0 .. Horizon
    BY <1>2 DEF Horizon
  <2>2. due' \in BOOLEAN
    BY DEF RunOnce
  <2>4. TypeOK'
    BY <1>2, <2>0, <2>1, <2>2 DEF RunOnce, TypeOK
  <2>3. (AnswerOK /\ ListedSince /\ ListingsAge)'
    BY <1>2 DEF RunOnce, AnswerOK, ListedSince, SeenSince, ListingsAge
  <2>5. QED
    BY <2>3, <2>4
<1>3. QED
  BY <1>1, <1>2 DEF RunOnce

\* A register or a heartbeat is sent for a campaign that is listed.
LEMMA SyncCampaignInv == IInv /\ SyncCampaign => IInv'
<1> SUFFICES ASSUME IInv, SyncCampaign PROVE IInv'
  OBVIOUS
<1> USE DEF IInv, TInv
<1>1. PICK c \in loop.todo :
        \/ loop' = Skip(c) /\ Miss({c}) /\ calm' = 0
        \/ loop' = Skip(c) /\ UNCHANGED <<missed, calm>>
        \/ /\ c \in Tracked
           /\ loop' = Send(c, Request("deregister", c, registrations[c]))
           /\ UNCHANGED <<missed, calm>>
        \/ /\ settings[c] # "unlisted" /\ c \notin loop.gone /\ c \in Tracked
           /\ loop' = Send(c, Request("heartbeat", c, registrations[c]))
           /\ UNCHANGED <<missed, calm>>
        \/ /\ settings[c] # "unlisted" /\ c \notin loop.gone
           /\ loop' = Send(c, Request("register", c, 0))
           /\ UNCHANGED <<missed, calm>>
  BY DEF SyncCampaign, Row
<1>u. UNCHANGED <<settings, registrations, due, listings, late, unlisted>>
  BY DEF SyncCampaign
<1>c. c \in Campaigns
  BY <1>1 DEF TypeOK
<1>2. CASE loop' = Skip(c)
  <2>1. /\ loop' \in [pc : {"wait", "next"}, todo : SUBSET Campaigns, gone : SUBSET Campaigns,
                   req : {NoRequest}, answer : {NoAnswer}]
        /\ loop'.todo \ loop'.gone \subseteq loop.todo \ loop.gone
        /\ loop'.pc = "wait" => loop'.todo = {}
    BY <1>2, SkipType
  <2>2. missed' \in [Campaigns -> 0 .. MaxMissed] /\ calm' \in 0 .. Horizon
    BY <1>1, MissType DEF TypeOK, Horizon
  <2>3. TypeOK'
    BY <1>u, <2>1, <2>2 DEF TypeOK
  <2>4. (AnswerOK /\ ListedSince /\ ListingsAge)'
    BY <1>u, <2>1 DEF AnswerOK, ListedSince, SeenSince, ListingsAge
  <2>5. QED
    BY <2>3, <2>4
<1>3. ASSUME NEW r \in Requests, r.campaign = c, loop' = Send(c, r), UNCHANGED <<missed, calm>>,
             Publishes(r) => settings[c] # "unlisted" /\ c \notin loop.gone
      PROVE  IInv'
  <2>1. /\ loop' \in [pc : {"sent"}, todo : SUBSET Campaigns, gone : SUBSET Campaigns,
                      req : {r}, answer : {NoAnswer}]
        /\ loop'.todo \ loop'.gone \subseteq loop.todo \ loop.gone
    BY <1>3, SendType
  <2>2. r # NoRequest
    BY RequestFields
  <2>3. TypeOK'
    BY <1>3, <1>u, <2>1, <2>2 DEF TypeOK
  <2>4. (AnswerOK /\ ListingsAge)'
    BY <1>u, <2>1 DEF AnswerOK, ListingsAge
  <2>c. Publishes(r) => unlisted[c] = 0
    BY <1>1, <1>3, <1>c DEF ListedSince, SeenSince, TypeOK, Settings
  <2>5. ListedSince'
    BY <1>3, <1>u, <1>c, <2>1, <2>c DEF ListedSince, SeenSince
  <2>6. QED
    BY <2>3, <2>4, <2>5
<1>4. CASE /\ c \in Tracked
           /\ loop' = Send(c, Request("deregister", c, registrations[c]))
           /\ UNCHANGED <<missed, calm>>
  <2> DEFINE r == Request("deregister", c, registrations[c])
  <2>1. r \in Requests /\ r.campaign = c /\ ~Publishes(r)
    BY <1>4, <1>c DEF Request, Requests, Publishes, TypeOK, Tracked
  <2>2. QED
    BY <1>3, <1>4, <2>1
<1>5. CASE /\ settings[c] # "unlisted" /\ c \notin loop.gone /\ c \in Tracked
           /\ loop' = Send(c, Request("heartbeat", c, registrations[c]))
           /\ UNCHANGED <<missed, calm>>
  <2> DEFINE r == Request("heartbeat", c, registrations[c])
  <2>1. r \in Requests /\ r.campaign = c
    BY <1>5, <1>c DEF Request, Requests, TypeOK, Tracked
  <2>2. QED
    BY <1>3, <1>5, <2>1
<1>6. CASE /\ settings[c] # "unlisted" /\ c \notin loop.gone
           /\ loop' = Send(c, Request("register", c, 0))
           /\ UNCHANGED <<missed, calm>>
  <2> DEFINE r == Request("register", c, 0)
  <2>1. r \in Requests /\ r.campaign = c
    BY <1>6, <1>c DEF Request, Requests
  <2>2. QED
    BY <1>3, <1>6, <2>1
<1>7. QED
  BY <1>1, <1>2, <1>4, <1>5, <1>6

LEMMA ExchangeInv == IInv /\ Exchange => IInv'
<1> SUFFICES ASSUME IInv, Exchange PROVE IInv'
  OBVIOUS
<1> USE DEF IInv, TInv
<1>r. loop.pc = "sent" /\ loop.req \in Requests
  BY DEF Exchange, TypeOK
<1>1. PICK answer \in Answers :
        /\ Handle(loop.req, answer)
        /\ \/ loop' = [loop EXCEPT !.pc = "answered", !.answer = answer] /\ calm' = calm
           \/ /\ loop' = [loop EXCEPT !.pc = "answered", !.answer = Answer("failed", 0)]
              /\ calm' = 0
  BY DEF Exchange
<1>u. UNCHANGED <<settings, registrations, due, late, unlisted, missed>>
  BY DEF Exchange
<1>2. /\ DOMAIN listings' \subseteq Ids /\ listings' \in [DOMAIN listings' -> Listing]
      /\ loop.req.kind = "register" /\ answer.status = "ok" => answer.id \in Ids
      /\ \A id \in DOMAIN listings' :
           \/ id \in DOMAIN listings /\ listings'[id] = listings[id]
           \/ /\ Publishes(loop.req) /\ listings'[id].campaign = loop.req.campaign
              /\ listings'[id].age = 0
  BY <1>r, <1>1, HandleKeeps
<1>3. Answer("failed", 0) \in Answers /\ Answer("failed", 0).status = "failed"
  BY DEF Answer, Answers
<1>4. PICK a \in Answers :
        /\ loop' = [loop EXCEPT !.pc = "answered", !.answer = a]
        /\ loop.req.kind = "register" /\ a.status = "ok" => a.id \in Ids
  BY <1>1, <1>2, <1>3
<1>5. /\ loop'.pc = "answered" /\ loop'.req = loop.req /\ loop'.answer = a
      /\ loop'.todo = loop.todo /\ loop'.gone = loop.gone
      /\ loop' \in [pc : {"answered"}, todo : SUBSET Campaigns, gone : SUBSET Campaigns, req : Requests, answer : Answers]
  BY <1>r, <1>4 DEF TypeOK
<1>6. a # NoAnswer /\ loop.req # NoRequest
  BY <1>r, RequestFields DEF Answers, Answer, NoAnswer
<1>7. calm' \in 0 .. Horizon
  BY <1>1 DEF TypeOK, Horizon
<1>8. TypeOK'
  BY <1>u, <1>2, <1>5, <1>6, <1>7 DEF TypeOK
<1>9. AnswerOK'
  BY <1>4, <1>5 DEF AnswerOK
<1>10. ListedSince'
  BY <1>r, <1>u, <1>5 DEF ListedSince, SeenSince
<1>11. ListingsAge'
  <2> SUFFICES ASSUME NEW id \in DOMAIN listings'
               PROVE  unlisted[listings'[id].campaign] <= listings'[id].age + 1
    BY <1>u DEF ListingsAge
  <2>1. CASE id \in DOMAIN listings /\ listings'[id] = listings[id]
    BY <2>1 DEF ListingsAge
  <2>2. CASE /\ Publishes(loop.req) /\ listings'[id].campaign = loop.req.campaign
             /\ listings'[id].age = 0
    BY <1>r, <2>2 DEF ListedSince
  <2>3. QED
    BY <1>2, <2>1, <2>2
<1>12. QED
  BY <1>8, <1>9, <1>10, <1>11

\* A request the Master gives up while it waits for it is on its way.
LEMMA GiveUpLate ==
  ASSUME IInv, loop.pc = "sent", late' = late \cup {[req |-> loop.req, old |-> FALSE]}
  PROVE  /\ late' \subseteq [req : Requests, old : BOOLEAN]
         /\ \A r \in late' : Publishes(r.req) => unlisted[r.req.campaign] <= IF r.old THEN 1 ELSE 0
<1>1. loop.req \in Requests
  BY DEF IInv, TInv, TypeOK
<1>2. loop.req.campaign \in Campaigns
  BY <1>1, RequestFields
<1>3. late \subseteq [req : Requests, old : BOOLEAN]
  BY DEF IInv, TInv, TypeOK
<1>4. [req |-> loop.req, old |-> FALSE] \in [req : Requests, old : BOOLEAN]
  BY <1>1
<1>5. Publishes(loop.req) => unlisted[loop.req.campaign] <= 0
  BY <1>2 DEF IInv, TInv, TypeOK, ListedSince, Horizon
<1>6. \A r \in late' : Publishes(r.req) => unlisted[r.req.campaign] <= IF r.old THEN 1 ELSE 0
  BY <1>5 DEF IInv, ListedSince
<1>7. QED
  BY <1>3, <1>4, <1>6

LEMMA FailInv == IInv /\ Fail => IInv'
<1> SUFFICES ASSUME IInv, Fail PROVE IInv'
  OBVIOUS
<1> USE DEF IInv, TInv
<1>r. loop.pc = "sent" /\ loop.req \in Requests
  BY DEF Fail, TypeOK
<1>u. UNCHANGED <<settings, registrations, due, listings, unlisted, missed>>
  BY DEF Fail
<1>1. Answer("failed", 0) \in Answers /\ Answer("failed", 0).status = "failed"
      /\ Answer("failed", 0) # NoAnswer
  BY DEF Answer, Answers, NoAnswer
<1>2. /\ loop'.pc = "answered" /\ loop'.req = loop.req /\ loop'.answer = Answer("failed", 0)
      /\ loop'.todo = loop.todo /\ loop'.gone = loop.gone
      /\ loop' \in [pc : {"answered"}, todo : SUBSET Campaigns, gone : SUBSET Campaigns, req : Requests, answer : Answers]
  BY <1>r, <1>1 DEF Fail, TypeOK
<1>3. calm' \in 0 .. Horizon
  BY DEF Fail, Horizon
<1>4. /\ late' \subseteq [req : Requests, old : BOOLEAN]
      /\ \A r \in late' : Publishes(r.req) => unlisted[r.req.campaign] <= IF r.old THEN 1 ELSE 0
  <2>1. CASE UNCHANGED late
    BY <2>1 DEF TypeOK, ListedSince
  <2>2. CASE late' = late \cup {[req |-> loop.req, old |-> FALSE]}
    BY <1>r, <2>2, GiveUpLate
  <2>3. QED
    BY <2>1, <2>2 DEF Fail
<1>5. loop.req # NoRequest
  BY <1>r, RequestFields
<1>6. TypeOK'
  BY <1>u, <1>1, <1>2, <1>3, <1>4, <1>5 DEF TypeOK
<1>7. (AnswerOK /\ ListingsAge)'
  BY <1>u, <1>1, <1>2 DEF AnswerOK, ListingsAge
<1>8. ListedSince'
  BY <1>r, <1>u, <1>2, <1>4 DEF ListedSince, SeenSince
<1>9. QED
  BY <1>6, <1>7, <1>8

LEMMA ReceiveInv == IInv /\ Receive => IInv'
<1> SUFFICES ASSUME IInv, Receive PROVE IInv'
  OBVIOUS
<1> USE DEF IInv, TInv
<1> DEFINE r == loop.req
           a == loop.answer
<1>r. /\ loop.pc = "answered" /\ r \in Requests /\ a \in Answers
      /\ r.kind = "register" /\ a.status = "ok" => a.id \in Ids
  BY DEF Receive, TypeOK, AnswerOK
<1>f. r.campaign \in Campaigns
  BY <1>r, RequestFields
<1>u. UNCHANGED <<settings, due, listings, late, unlisted, calm>>
  BY DEF Receive
<1>1. DOMAIN registrations' \subseteq Campaigns /\ registrations' \in [DOMAIN registrations' -> Ids]
  <2>1. CASE registrations' = Without(registrations, {r.campaign})
    BY <2>1, WithoutRegistration DEF TypeOK
  <2>2. CASE r.kind = "register" /\ a.status = "ok" /\ registrations' = Put(registrations, r.campaign, a.id)
    BY <1>r, <1>f, <2>2, PutRegistration DEF TypeOK
  <2>3. CASE registrations' = registrations
    BY <2>3 DEF TypeOK
  <2>4. QED
    BY <2>1, <2>2, <2>3 DEF Receive
<1>2. missed' \in [Campaigns -> 0 .. MaxMissed]
  <2>1. UpTo(MaxMissed, missed[r.campaign]) \in 0 .. MaxMissed
    BY <1>f, UpToBounds DEF TypeOK
  <2>2. QED
    BY <1>f, <2>1 DEF Receive, TypeOK
<1>3. CASE r.kind = "heartbeat" /\ a.status = "notfound"
  <2> DEFINE again == [r EXCEPT !.kind = "register", !.id = 0]
  <2>1. again \in Requests /\ again.campaign = r.campaign /\ Publishes(r)
    BY <1>r, <1>3 DEF Requests, Publishes
  <2>2. loop' = [loop EXCEPT !.pc = "sent", !.req = again, !.answer = NoAnswer]
    BY <1>3 DEF Receive
  <2>3. /\ loop'.pc = "sent" /\ loop'.req = again
        /\ loop'.todo = loop.todo /\ loop'.gone = loop.gone
        /\ loop' \in [pc : {"sent"}, todo : SUBSET Campaigns, gone : SUBSET Campaigns, req : Requests, answer : {NoAnswer}]
    BY <2>1, <2>2 DEF TypeOK
  <2>4. again # NoRequest
    BY <2>1, RequestFields
  <2>5. TypeOK'
    BY <1>u, <1>1, <1>2, <2>3, <2>4 DEF TypeOK
  <2>6. (AnswerOK /\ ListingsAge)'
    BY <1>u, <2>3 DEF AnswerOK, ListingsAge
  <2>7. unlisted[again.campaign] = 0
    BY <1>r, <2>1 DEF ListedSince
  <2>8. ListedSince'
    BY <1>u, <2>3, <2>7 DEF ListedSince, SeenSince
  <2>9. QED
    BY <2>5, <2>6, <2>8
<1>4. CASE ~(r.kind = "heartbeat" /\ a.status = "notfound")
  <2>1. /\ loop' \in [pc : {"wait", "next"}, todo : SUBSET Campaigns, gone : SUBSET Campaigns,
                   req : {NoRequest}, answer : {NoAnswer}]
        /\ loop'.todo \ loop'.gone \subseteq loop.todo \ loop.gone
        /\ loop'.pc = "wait" => loop'.todo = {}
    BY <1>4, SkipType DEF Receive
  <2>2. TypeOK'
    BY <1>u, <1>1, <1>2, <2>1 DEF TypeOK
  <2>3. (AnswerOK /\ ListedSince /\ ListingsAge)'
    BY <1>u, <2>1 DEF AnswerOK, ListedSince, SeenSince, ListingsAge
  <2>4. QED
    BY <2>2, <2>3
<1>5. QED
  BY <1>3, <1>4

LEMMA MasterRestartInv == IInv /\ MasterRestart => IInv'
<1> SUFFICES ASSUME IInv, MasterRestart PROVE IInv'
  OBVIOUS
<1> USE DEF IInv, TInv
<1>u. UNCHANGED <<settings, listings, unlisted>>
  BY DEF MasterRestart
<1>1. DOMAIN registrations' \subseteq Campaigns /\ registrations' \in [DOMAIN registrations' -> Ids]
  BY DEF MasterRestart
<1>2. /\ loop' \in [pc : {"wait"}, todo : SUBSET Campaigns, gone : SUBSET Campaigns,
                    req : {NoRequest}, answer : {NoAnswer}]
      /\ loop'.todo = {}
  BY IdleType DEF MasterRestart, Idle
<1>3. due' \in BOOLEAN /\ missed' \in [Campaigns -> 0 .. MaxMissed]
  BY DEF MasterRestart
<1>4. calm' \in 0 .. Horizon
  BY DEF MasterRestart, Horizon
<1>5. /\ late' \subseteq [req : Requests, old : BOOLEAN]
      /\ \A r \in late' : Publishes(r.req) => unlisted[r.req.campaign] <= IF r.old THEN 1 ELSE 0
  <2>1. CASE UNCHANGED late
    BY <2>1 DEF TypeOK, ListedSince
  <2>2. CASE loop.pc = "sent" /\ late' = late \cup {[req |-> loop.req, old |-> FALSE]}
    BY <2>2, GiveUpLate
  <2>3. QED
    BY <2>1, <2>2 DEF MasterRestart
<1>6. TypeOK'
  BY <1>u, <1>1, <1>2, <1>3, <1>4, <1>5 DEF TypeOK
<1>7. (AnswerOK /\ ListingsAge)'
  BY <1>u, <1>2 DEF AnswerOK, ListingsAge
<1>8. ListedSince'
  BY <1>u, <1>2, <1>5 DEF ListedSince, SeenSince
<1>9. QED
  BY <1>6, <1>7, <1>8

\* A sweep and a restart of the registry only take listings out.
LEMMA RegistryInv == IInv /\ (Sweep \/ RegistryRestart) => IInv'
<1> SUFFICES ASSUME IInv, Sweep \/ RegistryRestart PROVE IInv'
  OBVIOUS
<1> USE DEF IInv, TInv
<1>u. UNCHANGED <<settings, registrations, loop, due, late, unlisted, missed>>
  BY DEF Sweep, RegistryRestart, master, history
<1>1. /\ DOMAIN listings' \subseteq DOMAIN listings
      /\ listings' \in [DOMAIN listings' -> Listing]
      /\ \A id \in DOMAIN listings' : listings'[id] = listings[id]
  <2>1. CASE Sweep
    <3>1. PICK gone : listings' = Without(listings, gone)
      BY <2>1 DEF Sweep
    <3>2. QED
      BY <3>1, WithoutListings DEF TypeOK
  <2>2. CASE RegistryRestart
    BY <2>2 DEF RegistryRestart
  <2>3. QED
    BY <2>1, <2>2
<1>2. calm' \in 0 .. Horizon
  BY DEF Sweep, RegistryRestart, history, TypeOK, Horizon
<1>3. TypeOK'
  BY <1>u, <1>1, <1>2 DEF TypeOK
<1>4. (AnswerOK /\ ListedSince)'
  BY <1>u DEF AnswerOK, ListedSince, SeenSince
<1>5. ListingsAge'
  BY <1>u, <1>1 DEF ListingsAge
<1>6. QED
  BY <1>3, <1>4, <1>5

LEMMA ChangeSettingsInv == IInv /\ ChangeSettings => IInv'
<1> SUFFICES ASSUME IInv, ChangeSettings PROVE IInv'
  OBVIOUS
<1> USE DEF IInv, TInv
<1>u. UNCHANGED <<registrations, loop, due, listings, late, missed, calm>>
  BY DEF ChangeSettings, master
<1>1. PICK c \in Campaigns, s \in Settings :
        /\ settings' = [settings EXCEPT ![c] = s]
        /\ unlisted' = IF s = "unlisted" THEN unlisted ELSE [unlisted EXCEPT ![c] = 0]
  BY DEF ChangeSettings
<1>2. /\ unlisted' \in [Campaigns -> 0 .. Horizon]
      /\ \A d \in Campaigns : unlisted'[d] <= unlisted[d]
  BY <1>1 DEF TypeOK, Horizon
<1>3. TypeOK'
  BY <1>u, <1>1, <1>2 DEF TypeOK
<1>4. AnswerOK'
  BY <1>u DEF AnswerOK
<1>5. ListedSince'
  <2>1. \A d \in Campaigns : settings'[d] = "listed" => unlisted'[d] = 0
    BY <1>1 DEF TypeOK, ListedSince
  <2>s. \A d \in loop.todo \ loop.gone : settings'[d] = "gone" => unlisted'[d] = 0
    BY <1>1 DEF TypeOK, ListedSince, SeenSince
  <2>2. loop.pc \in {"sent", "answered"} /\ Publishes(loop.req) => unlisted'[loop.req.campaign] = 0
    <3>1. CASE loop.pc \in {"sent", "answered"} /\ Publishes(loop.req)
      <4>1. loop.req \in Requests
        BY <3>1 DEF TypeOK
      <4>2. loop.req.campaign \in Campaigns
        BY <4>1, RequestFields
      <4>3. QED
        BY <1>2, <3>1, <4>2 DEF ListedSince, TypeOK, Horizon
    <3>2. QED
      BY <3>1
  <2>3. \A r \in late : Publishes(r.req) => unlisted'[r.req.campaign] <= IF r.old THEN 1 ELSE 0
    <3> SUFFICES ASSUME NEW r \in late, Publishes(r.req)
                 PROVE  unlisted'[r.req.campaign] <= IF r.old THEN 1 ELSE 0
      OBVIOUS
    <3>1. r.req \in Requests
      BY DEF TypeOK
    <3>2. r.req.campaign \in Campaigns
      BY <3>1, RequestFields
    <3>3. unlisted[r.req.campaign] <= IF r.old THEN 1 ELSE 0
      BY DEF ListedSince
    <3>4. QED
      BY <1>2, <3>2, <3>3 DEF TypeOK, Horizon
  <2>4. QED
    BY <1>u, <2>1, <2>2, <2>3, <2>s DEF ListedSince, SeenSince
<1>6. ListingsAge'
  <2> SUFFICES ASSUME NEW id \in DOMAIN listings
               PROVE  unlisted'[listings[id].campaign] <= listings[id].age + 1
    BY <1>u DEF ListingsAge
  <2>1. listings[id].campaign \in Campaigns /\ listings[id].age \in 0 .. Ttl + 1
    BY DEF TypeOK, Listing
  <2>2. unlisted[listings[id].campaign] <= listings[id].age + 1
    BY DEF ListingsAge
  <2>3. QED
    BY <1>2, <2>1, <2>2 DEF TypeOK, Horizon
<1>7. QED
  BY <1>3, <1>4, <1>5, <1>6

LEMMA ArriveInv == IInv /\ Arrive => IInv'
<1> SUFFICES ASSUME IInv, Arrive PROVE IInv'
  OBVIOUS
<1> USE DEF IInv, TInv
<1>1. PICK r \in late :
        /\ late' = late \ {r}
        /\ (\E answer \in Answers : Handle(r.req, answer)) \/ UNCHANGED listings
        /\ UNCHANGED <<settings, master, history>>
  BY DEF Arrive
<1>u. UNCHANGED <<settings, registrations, loop, due, unlisted, missed, calm>>
  BY <1>1 DEF master, history
<1>2. r \in [req : Requests, old : BOOLEAN] /\ r.req \in Requests
  BY DEF TypeOK
<1>c. r.req.campaign \in Campaigns
  BY <1>2, RequestFields
<1>3. /\ DOMAIN listings' \subseteq Ids /\ listings' \in [DOMAIN listings' -> Listing]
      /\ \A id \in DOMAIN listings' :
           \/ id \in DOMAIN listings /\ listings'[id] = listings[id]
           \/ /\ Publishes(r.req) /\ listings'[id].campaign = r.req.campaign
              /\ listings'[id].age = 0
  <2>1. CASE UNCHANGED listings
    BY <2>1 DEF TypeOK
  <2>2. CASE \E answer \in Answers : Handle(r.req, answer)
    BY <1>2, <2>2, HandleKeeps
  <2>3. QED
    BY <1>1, <2>1, <2>2
<1>4. TypeOK'
  BY <1>1, <1>u, <1>3 DEF TypeOK
<1>5. (AnswerOK /\ ListedSince)'
  BY <1>1, <1>u DEF AnswerOK, ListedSince, SeenSince
<1>6. ListingsAge'
  <2> SUFFICES ASSUME NEW id \in DOMAIN listings'
               PROVE  unlisted[listings'[id].campaign] <= listings'[id].age + 1
    BY <1>u DEF ListingsAge
  <2>1. CASE id \in DOMAIN listings /\ listings'[id] = listings[id]
    BY <2>1 DEF ListingsAge
  <2>2. CASE /\ Publishes(r.req) /\ listings'[id].campaign = r.req.campaign
             /\ listings'[id].age = 0
    <3>1. unlisted[r.req.campaign] <= IF r.old THEN 1 ELSE 0
      BY <2>2 DEF ListedSince
    <3>2. unlisted[r.req.campaign] \in 0 .. Horizon
      BY <1>c DEF TypeOK
    <3>3. QED
      BY <2>2, <3>1, <3>2 DEF Horizon
  <2>3. QED
    BY <1>3, <2>1, <2>2
<1>7. QED
  BY <1>4, <1>5, <1>6

\* A beat: every counter goes up by one, as far as it goes.
LEMMA TickInv == IInv /\ Tick => IInv'
<1> SUFFICES ASSUME IInv, Tick PROVE IInv'
  OBVIOUS
<1> USE DEF IInv, TInv
<1>u. UNCHANGED <<settings, registrations, loop, missed>> /\ loop.pc = "wait"
  BY DEF Tick
<1>1. Horizon \in Nat /\ Ttl + 1 \in Nat
  BY DEF Horizon
<1>2. due' \in BOOLEAN /\ calm' \in 0 .. Horizon
  BY <1>1, UpToBounds DEF Tick, TypeOK
<1>3. late' \subseteq [req : Requests, old : BOOLEAN] /\ \A r \in late' : r.old
  <2> SUFFICES ASSUME NEW r \in late' PROVE r \in [req : Requests, old : BOOLEAN] /\ r.old
    OBVIOUS
  <2>1. PICK s \in late : r = [req |-> s.req, old |-> TRUE]
    BY DEF Tick
  <2>2. s.req \in Requests
    BY DEF TypeOK
  <2>3. QED
    BY <2>1, <2>2
<1>4. \A r \in late' : \E s \in late : ~s.old /\ r.req = s.req
  BY DEF Tick
<1>5. \A c \in Campaigns :
        /\ unlisted[c] \in 0 .. Horizon
        /\ unlisted'[c] = IF settings[c] = "listed" THEN 0 ELSE UpTo(Horizon, unlisted[c])
        /\ unlisted'[c] \in 0 .. Horizon /\ unlisted'[c] <= unlisted[c] + 1
  <2> SUFFICES ASSUME NEW c \in Campaigns
               PROVE  /\ unlisted[c] \in 0 .. Horizon
                      /\ unlisted'[c] = IF settings[c] = "listed" THEN 0 ELSE UpTo(Horizon, unlisted[c])
                      /\ unlisted'[c] \in 0 .. Horizon /\ unlisted'[c] <= unlisted[c] + 1
    OBVIOUS
  <2>1. unlisted[c] \in 0 .. Horizon
    BY DEF TypeOK
  <2>2. UpTo(Horizon, unlisted[c]) \in 0 .. Horizon /\ UpTo(Horizon, unlisted[c]) <= unlisted[c] + 1
    BY <1>1, <2>1, UpToBounds
  <2>3. unlisted'[c] = IF settings[c] = "listed" THEN 0 ELSE UpTo(Horizon, unlisted[c])
    BY DEF Tick
  <2>4. QED
    BY <1>1, <2>1, <2>2, <2>3
<1>6. unlisted' \in [Campaigns -> 0 .. Horizon]
  <2>1. unlisted' = [c \in Campaigns |->
          IF settings[c] = "listed" THEN 0 ELSE UpTo(Horizon, unlisted[c])]
    BY DEF Tick
  <2>2. QED
    BY <1>5, <2>1
<1>7. /\ DOMAIN listings' = DOMAIN listings
      /\ \A id \in DOMAIN listings :
           /\ listings[id] \in Listing
           /\ listings'[id] = [listings[id] EXCEPT !.age = UpTo(Ttl + 1, @)]
           /\ listings'[id].campaign = listings[id].campaign
           /\ listings'[id].age = UpTo(Ttl + 1, listings[id].age)
           /\ listings'[id].age \in 0 .. Ttl + 1
  <2>1. /\ DOMAIN listings' = DOMAIN listings
        /\ \A id \in DOMAIN listings :
             /\ listings[id] \in Listing
             /\ listings'[id] = [listings[id] EXCEPT !.age = UpTo(Ttl + 1, @)]
    BY DEF Tick, TypeOK
  <2>2. \A id \in DOMAIN listings : UpTo(Ttl + 1, listings[id].age) \in 0 .. Ttl + 1
    BY <1>1, <2>1, UpToBounds DEF Listing
  <2>3. QED
    BY <2>1, <2>2 DEF Listing
<1>8. listings' \in [DOMAIN listings' -> Listing]
  <2>1. listings' = [id \in DOMAIN listings |-> [listings[id] EXCEPT !.age = UpTo(Ttl + 1, @)]]
    BY DEF Tick
  <2>2. \A id \in DOMAIN listings : [listings[id] EXCEPT !.age = UpTo(Ttl + 1, @)] \in Listing
    BY <1>7 DEF Listing
  <2>3. QED
    BY <2>1, <2>2
<1>9. TypeOK'
  BY <1>u, <1>2, <1>3, <1>6, <1>7, <1>8 DEF TypeOK
<1>10. AnswerOK'
  BY <1>u DEF AnswerOK
<1>11. ListedSince'
  <2>1. \A c \in Campaigns : settings[c] = "listed" => unlisted'[c] = 0
    BY <1>5
  <2>2. \A r \in late' : Publishes(r.req) => unlisted'[r.req.campaign] <= 1
    <3> SUFFICES ASSUME NEW r \in late', Publishes(r.req)
                 PROVE  unlisted'[r.req.campaign] <= 1
      OBVIOUS
    <3>1. PICK s \in late : ~s.old /\ r.req = s.req
      BY <1>4
    <3>2. s.req \in Requests
      BY DEF TypeOK
    <3>3. s.req.campaign \in Campaigns
      BY <3>2, RequestFields
    <3>4. unlisted[s.req.campaign] <= 0
      BY <3>1 DEF ListedSince
    <3>5. QED
      BY <1>1, <1>5, <3>1, <3>3, <3>4
  <2>3. QED
    BY <1>u, <1>3, <2>1, <2>2 DEF ListedSince, SeenSince
<1>12. ListingsAge'
  <2> SUFFICES ASSUME NEW id \in DOMAIN listings
               PROVE  unlisted'[listings[id].campaign] <= listings'[id].age + 1
    BY <1>7 DEF ListingsAge
  <2>1. listings[id].campaign \in Campaigns /\ listings[id].age \in 0 .. Ttl + 1
    BY <1>7 DEF Listing
  <2>2. unlisted[listings[id].campaign] <= listings[id].age + 1
    BY DEF ListingsAge
  <2>3. CASE listings[id].age < Ttl + 1
    <3>1. listings'[id].age = listings[id].age + 1
      BY <1>1, <1>7, <2>1, <2>3, UpToBounds
    <3>2. QED
      BY <1>1, <1>5, <2>1, <2>2, <3>1
  <2>4. CASE listings[id].age = Ttl + 1
    <3>1. listings'[id].age = Ttl + 1
      BY <1>1, <1>7, <2>1, <2>4, UpToBounds
    <3>2. QED
      BY <1>5, <2>1, <3>1 DEF Horizon
  <2>5. QED
    BY <2>1, <2>3, <2>4
<1>13. QED
  BY <1>9, <1>10, <1>11, <1>12

LEMMA StutterInv == IInv /\ UNCHANGED vars => IInv'
<1> SUFFICES ASSUME IInv, UNCHANGED vars PROVE IInv'
  OBVIOUS
<1>1. UNCHANGED <<settings, registrations, loop, due, listings, late, unlisted, missed, calm>>
  BY DEF vars, master, history
<1>2. QED
  BY <1>1 DEF IInv, TInv, TypeOK, AnswerOK, ListedSince, SeenSince, ListingsAge, Publishes

LEMMA StepInv == IInv /\ [Next]_vars => IInv'
BY RunOnceInv, SyncCampaignInv, ExchangeInv, FailInv, ReceiveInv, MasterRestartInv, RegistryInv,
   ChangeSettingsInv, ArriveInv, TickInv, StutterInv DEF Next, Loop

\* The invariant makes a live listing young enough.
LEMMA InvDelists == IInv => DelistedInTime
<1> SUFFICES ASSUME IInv, NEW id \in Live PROVE unlisted[listings[id].campaign] <= Ttl + 1
  BY DEF DelistedInTime
<1>1. id \in DOMAIN listings /\ listings[id].age <= Ttl
  BY DEF Live
<1>2. listings[id].campaign \in Campaigns /\ listings[id].age \in 0 .. Ttl + 1
  BY <1>1 DEF IInv, TInv, TypeOK, Listing
<1>3. unlisted[listings[id].campaign] \in 0 .. Horizon
  BY <1>2 DEF IInv, TInv, TypeOK
<1>4. unlisted[listings[id].campaign] <= listings[id].age + 1
  BY <1>1 DEF IInv, ListingsAge
<1>5. QED
  BY <1>1, <1>2, <1>3, <1>4 DEF Horizon

\* Every value has its type: what is tracked, sent, given up and listed are
\* campaigns and ids (heartbeat.go:45-50, lobby.go:95-98).
THEOREM LobbyTypeCorrect == Spec => []TypeOK
<1>1. Spec => []IInv
  BY InitInv, StepInv, PTL DEF Spec
<1>2. IInv => TypeOK
  BY DEF IInv, TInv
<1>3. QED
  BY <1>1, <1>2, PTL

\* A campaign the Host took off is off the page a time to live and a beat
\* later, whatever was lost, late or restarted, for any time to live
\* (heartbeat.go:25-33, 153-161).
THEOREM DelistedAfterTtl == Spec => []DelistedInTime
<1>1. Spec => []IInv
  BY InitInv, StepInv, PTL DEF Spec
<1>2. QED
  BY <1>1, InvDelists, PTL

--------------------------------------------------------------------------------
(* Missed beats.                                                           *)

\* A beat of campaign c is due or under way.
Pending(c) ==
  \/ loop.pc = "wait" /\ due
  \/ c \in loop.todo
  \/ loop.pc \in {"sent", "answered"} /\ loop.req.campaign = c

\* A tracked listing is as old as the beats its campaign missed.
BeatAgeOf(c) ==
  registrations[c] \in DOMAIN listings /\ missed[c] < MaxMissed =>
    listings[registrations[c]].age <= missed[c] + (IF Pending(c) THEN 1 ELSE 0)
BeatAge == \A c \in DOMAIN registrations : BeatAgeOf(c)

\* A loop that waits has nothing to do; a heartbeat is for the id that is
\* tracked; what was answered "ok" is as young as it can be.
LoopOK ==
  /\ loop.pc = "wait" => loop.todo = {}
  /\ loop.pc \in {"sent", "answered"} /\ loop.req.kind = "heartbeat" =>
       loop.req.campaign \in DOMAIN registrations /\ registrations[loop.req.campaign] = loop.req.id
AnswerYoung ==
  loop.pc = "answered" =>
    /\ loop.req.kind = "register" => loop.answer.status \in {"ok", "failed"}
    /\ loop.req.kind = "register" /\ loop.answer.status = "ok" /\ loop.answer.id \in DOMAIN listings =>
         listings[loop.answer.id].age = 0
    /\ loop.req.kind = "heartbeat" /\ loop.answer.status = "ok" /\ loop.req.id \in DOMAIN listings =>
         listings[loop.req.id].age = 0

BInv == IInv /\ BeatAge /\ LoopOK /\ AnswerYoung

\* What steps without a tick do to listings.
AgesKept ==
  \A id \in DOMAIN listings' :
    (id \in DOMAIN listings /\ listings'[id] = listings[id]) \/ listings'[id].age = 0

LEMMA CountsType ==
  ASSUME TypeOK
  PROVE  /\ \A id \in DOMAIN listings : listings[id].age \in 0 .. Ttl + 1
         /\ \A c \in DOMAIN registrations : c \in Campaigns /\ missed[c] \in 0 .. MaxMissed
BY DEF TypeOK, Listing

\* A campaign nothing happened to, but maybe its listing.
LEMMA SameAge ==
  ASSUME TypeOK, TypeOK', BeatAge, AgesKept, NEW c \in DOMAIN registrations,
         registrations'[c] = registrations[c], missed'[c] = missed[c], Pending(c) => Pending(c)'
  PROVE  BeatAgeOf(c)'
<1> SUFFICES ASSUME registrations[c] \in DOMAIN listings', missed[c] < MaxMissed
             PROVE  listings'[registrations[c]].age <= missed[c] + (IF Pending(c)' THEN 1 ELSE 0)
  BY DEF BeatAgeOf
<1>1. missed[c] \in 0 .. MaxMissed
  BY CountsType
<1>2. CASE registrations[c] \in DOMAIN listings /\ listings'[registrations[c]] = listings[registrations[c]]
  <2>1. listings[registrations[c]].age \in 0 .. Ttl + 1
    BY <1>2, CountsType
  <2>2. listings[registrations[c]].age <= missed[c] + (IF Pending(c) THEN 1 ELSE 0)
    BY <1>2 DEF BeatAge, BeatAgeOf
  <2>3. QED
    BY <1>1, <1>2, <2>1, <2>2
<1>3. CASE listings'[registrations[c]].age = 0
  BY <1>1, <1>3
<1>4. QED
  BY <1>2, <1>3 DEF AgesKept

\* A campaign that missed the beat.
LEMMA MissedAge ==
  ASSUME TypeOK, BeatAge, UNCHANGED listings, NEW c \in DOMAIN registrations,
         registrations'[c] = registrations[c], missed'[c] = UpTo(MaxMissed, missed[c])
  PROVE  BeatAgeOf(c)'
<1>1. missed[c] \in 0 .. MaxMissed
  BY CountsType
<1>2. missed'[c] < MaxMissed => missed[c] < MaxMissed /\ missed'[c] = missed[c] + 1
  BY <1>1 DEF UpTo
<1> SUFFICES ASSUME registrations[c] \in DOMAIN listings, missed'[c] < MaxMissed
             PROVE  listings[registrations[c]].age <= missed'[c] + (IF Pending(c)' THEN 1 ELSE 0)
  BY DEF BeatAgeOf
<1>3. listings[registrations[c]].age \in 0 .. Ttl + 1
  BY CountsType
<1>4. listings[registrations[c]].age <= missed[c] + (IF Pending(c) THEN 1 ELSE 0)
  BY <1>2 DEF BeatAge, BeatAgeOf
<1>5. QED
  BY <1>1, <1>2, <1>3, <1>4

LEMMA InitAges == Init => BInv
<1> SUFFICES ASSUME Init PROVE BInv
  OBVIOUS
<1>1. IInv
  BY InitInv
<1>2. BeatAge /\ LoopOK /\ AnswerYoung
  BY DEF Init, BeatAge, LoopOK, AnswerYoung, Idle
<1>3. QED
  BY <1>1, <1>2 DEF BInv

LEMMA RunOnceAges == BInv /\ RunOnce => BInv'
<1> SUFFICES ASSUME BInv, RunOnce PROVE BInv'
  OBVIOUS
<1>i. IInv' /\ TypeOK /\ TypeOK' /\ BeatAge /\ LoopOK
  BY RunOnceInv DEF BInv, IInv, TInv
<1>u. /\ UNCHANGED <<registrations, listings>> /\ loop.pc = "wait"
      /\ \A c \in DOMAIN registrations : c \in Campaigns
  BY <1>i DEF RunOnce, TypeOK
<1>1. CASE loop'.pc = "next" /\ loop'.todo = Campaigns /\ UNCHANGED missed
  <2>1. loop'.pc = "next" /\ loop'.todo = Campaigns
    BY <1>1
  <2>2. AgesKept
    BY <1>u DEF AgesKept
  <2>3. \A c \in DOMAIN registrations : Pending(c)'
    BY <1>u, <2>1 DEF Pending
  <2>4. BeatAge'
    BY <1>i, <1>u, <1>1, <2>2, <2>3, SameAge DEF BeatAge
  <2>5. (LoopOK /\ AnswerYoung)'
    BY <2>1 DEF LoopOK, AnswerYoung
  <2>6. QED
    BY <1>i, <2>4, <2>5 DEF BInv
<1>2. CASE UNCHANGED loop /\ Miss(Campaigns)
  <2>1. \A c \in DOMAIN registrations : missed'[c] = UpTo(MaxMissed, missed[c])
    BY <1>u, <1>2 DEF Miss, Tracked
  <2>2. BeatAge'
    BY <1>i, <1>u, <2>1, MissedAge DEF BeatAge
  <2>3. (LoopOK /\ AnswerYoung)'
    BY <1>i, <1>u, <1>2 DEF LoopOK, AnswerYoung
  <2>4. QED
    BY <1>i, <2>2, <2>3 DEF BInv
<1>3. QED
  BY <1>1, <1>2 DEF RunOnce, Idle

LEMMA SyncCampaignAges == BInv /\ SyncCampaign => BInv'
<1> SUFFICES ASSUME BInv, SyncCampaign PROVE BInv'
  OBVIOUS
<1>i. IInv' /\ TypeOK /\ TypeOK' /\ BeatAge /\ LoopOK
  BY SyncCampaignInv DEF BInv, IInv, TInv
<1>u. UNCHANGED <<registrations, listings, due>> /\ loop.pc = "next"
  BY DEF SyncCampaign
<1>1. PICK c \in loop.todo :
        \/ loop' = Skip(c) /\ Miss({c})
        \/ c \notin Tracked /\ loop' = Skip(c) /\ UNCHANGED missed
        \/ /\ c \in Tracked /\ UNCHANGED missed
           /\ \/ loop' = Send(c, Request("deregister", c, registrations[c]))
              \/ loop' = Send(c, Request("heartbeat", c, registrations[c]))
        \/ /\ c \notin Tracked /\ UNCHANGED missed
           /\ loop' = Send(c, Request("register", c, 0))
  BY DEF SyncCampaign
<1>c. c \in Campaigns
  BY <1>1, <1>i DEF TypeOK
<1>2. AgesKept
  BY <1>u DEF AgesKept
<1>3. CASE loop' = Skip(c)
  <2>1. loop'.pc \in {"wait", "next"} /\ loop'.todo = loop.todo \ {c} /\ (loop'.pc = "wait" => loop'.todo = {})
    BY <1>3, <1>i DEF Skip, Idle, TypeOK
  <2>2. \A d \in DOMAIN registrations \ {c} : Pending(d) => Pending(d)'
    BY <1>u, <2>1 DEF Pending
  <2>3. \A d \in DOMAIN registrations \ {c} : missed'[d] = missed[d]
    BY <1>1, <1>3, CountsType, <1>i DEF Miss
  <2>4. \A d \in DOMAIN registrations \ {c} : BeatAgeOf(d)'
    BY <1>i, <1>u, <1>2, <2>2, <2>3, SameAge
  <2>5. c \in DOMAIN registrations => BeatAgeOf(c)'
    <3> SUFFICES ASSUME c \in DOMAIN registrations PROVE BeatAgeOf(c)'
      OBVIOUS
    <3>1. loop' # Send(c, Request("deregister", c, registrations[c]))
          /\ loop' # Send(c, Request("heartbeat", c, registrations[c]))
      BY <2>1 DEF Send, Idle
    <3>2. missed'[c] = UpTo(MaxMissed, missed[c])
      BY <1>1, <1>c, <3>1 DEF Miss, Tracked
    <3>3. QED
      BY <1>i, <1>u, <3>2, MissedAge
  <2>6. BeatAge'
    BY <1>u, <2>4, <2>5 DEF BeatAge
  <2>7. (LoopOK /\ AnswerYoung)'
    BY <2>1 DEF LoopOK, AnswerYoung
  <2>8. QED
    BY <1>i, <2>6, <2>7 DEF BInv
<1>4. ASSUME NEW r, loop' = Send(c, r), r.campaign = c, UNCHANGED missed,
             r.kind = "heartbeat" => c \in DOMAIN registrations /\ r.id = registrations[c]
      PROVE  BInv'
  <2>1. loop'.pc = "sent" /\ loop'.req = r /\ loop'.todo = loop.todo \ {c}
    BY <1>4 DEF Send, Idle
  <2>2. \A d \in DOMAIN registrations : Pending(d) => Pending(d)'
    BY <1>u, <1>4, <2>1 DEF Pending
  <2>3. BeatAge'
    BY <1>i, <1>u, <1>2, <1>4, <2>2, SameAge DEF BeatAge
  <2>4. (LoopOK /\ AnswerYoung)'
    BY <1>u, <1>4, <2>1 DEF LoopOK, AnswerYoung
  <2>5. QED
    BY <1>i, <2>3, <2>4 DEF BInv
<1>5. CASE c \in Tracked /\ UNCHANGED missed /\ loop' = Send(c, Request("deregister", c, registrations[c]))
  BY <1>4, <1>5 DEF Request
<1>6. CASE c \in Tracked /\ UNCHANGED missed /\ loop' = Send(c, Request("heartbeat", c, registrations[c]))
  BY <1>4, <1>6 DEF Request, Tracked
<1>7. CASE UNCHANGED missed /\ loop' = Send(c, Request("register", c, 0))
  BY <1>4, <1>7 DEF Request
<1>8. QED
  BY <1>1, <1>3, <1>5, <1>6, <1>7

LEMMA ExchangeAges == BInv /\ Exchange => BInv'
<1> SUFFICES ASSUME BInv, Exchange PROVE BInv'
  OBVIOUS
<1>i. IInv' /\ TypeOK /\ TypeOK' /\ BeatAge /\ LoopOK
  BY ExchangeInv DEF BInv, IInv, TInv
<1>u. UNCHANGED <<registrations, due, missed>> /\ loop.pc = "sent" /\ loop.req \in Requests
  BY <1>i DEF Exchange, TypeOK
<1>1. PICK answer \in Answers :
        /\ Handle(loop.req, answer)
        /\ \/ loop' = [loop EXCEPT !.pc = "answered", !.answer = answer]
           \/ loop' = [loop EXCEPT !.pc = "answered", !.answer = Answer("failed", 0)]
  BY DEF Exchange
<1>f. Answer("failed", 0) \in Answers /\ Answer("failed", 0).status = "failed"
  BY DEF Answer, Answers
<1>2. PICK a \in Answers :
        /\ loop' = [loop EXCEPT !.pc = "answered", !.answer = a]
        /\ a = answer \/ a.status = "failed"
  BY <1>1, <1>f
<1>3. loop'.pc = "answered" /\ loop'.req = loop.req /\ loop'.answer = a /\ loop'.todo = loop.todo
  BY <1>2, <1>i DEF TypeOK
<1>4. /\ AgesKept
      /\ loop.req.kind = "register" /\ answer.status = "ok" =>
           answer.id \in DOMAIN listings' /\ listings'[answer.id].age = 0
      /\ loop.req.kind = "heartbeat" /\ answer.status = "ok" =>
           loop.req.id \in DOMAIN listings' /\ listings'[loop.req.id].age = 0
  BY <1>i, <1>u, <1>1, HandleKeeps DEF AgesKept
<1>5. loop.req.kind = "register" => answer.status \in {"ok", "failed"}
  BY <1>1 DEF Handle, Create, Heartbeat, Remove, Answer
<1>6. \A c \in DOMAIN registrations : Pending(c) => Pending(c)'
  BY <1>u, <1>3 DEF Pending
<1>7. BeatAge'
  BY <1>i, <1>u, <1>4, <1>6, SameAge DEF BeatAge
<1>8. LoopOK'
  BY <1>i, <1>u, <1>3 DEF LoopOK
<1>9. AnswerYoung'
  BY <1>2, <1>3, <1>4, <1>5 DEF AnswerYoung
<1>10. QED
  BY <1>i, <1>7, <1>8, <1>9 DEF BInv

LEMMA FailAges == BInv /\ Fail => BInv'
<1> SUFFICES ASSUME BInv, Fail PROVE BInv'
  OBVIOUS
<1>i. IInv' /\ TypeOK /\ TypeOK' /\ BeatAge /\ LoopOK
  BY FailInv DEF BInv, IInv, TInv
<1>u. UNCHANGED <<registrations, listings, due, missed>> /\ loop.pc = "sent"
  BY DEF Fail
<1>1. /\ loop'.pc = "answered" /\ loop'.req = loop.req /\ loop'.todo = loop.todo
      /\ loop'.answer.status = "failed"
  BY <1>i DEF Fail, TypeOK, Answer
<1>2. AgesKept /\ \A c \in DOMAIN registrations : Pending(c) => Pending(c)'
  BY <1>u, <1>1 DEF AgesKept, Pending
<1>3. BeatAge'
  BY <1>i, <1>u, <1>2, SameAge DEF BeatAge
<1>4. (LoopOK /\ AnswerYoung)'
  BY <1>i, <1>u, <1>1 DEF LoopOK, AnswerYoung
<1>5. QED
  BY <1>i, <1>3, <1>4 DEF BInv

\* What the loop heard is kept: a heartbeat or a register that worked left the
\* listing young, one that failed is a missed beat.
LEMMA ReceiveAges == BInv /\ Receive => BInv'
<1> SUFFICES ASSUME BInv, Receive PROVE BInv'
  OBVIOUS
<1> DEFINE r == loop.req
           a == loop.answer
<1>i. IInv' /\ TypeOK /\ TypeOK' /\ BeatAge /\ LoopOK /\ AnswerYoung
  BY ReceiveInv DEF BInv, IInv, TInv
<1>u. UNCHANGED <<listings, due>> /\ loop.pc = "answered"
  BY DEF Receive
<1>t. r \in Requests /\ a \in Answers
  BY <1>i, <1>u DEF TypeOK
<1>d. PICK d \in Campaigns : d = r.campaign /\ r.kind \in {"register", "heartbeat", "deregister"}
  BY <1>t, RequestFields
<1>a. a.status \in {"ok", "notfound", "failed"}
  BY <1>t DEF Answers
<1>k. AgesKept
  BY <1>u DEF AgesKept
<1>1. /\ registrations' =
           CASE r.kind = "deregister" -> Without(registrations, {d})
             [] r.kind = "register" /\ a.status = "ok" -> Put(registrations, d, a.id)
             [] OTHER -> registrations
      /\ loop' = IF r.kind = "heartbeat" /\ a.status = "notfound"
                 THEN [loop EXCEPT !.pc = "sent", !.req = [r EXCEPT !.kind = "register", !.id = 0],
                                   !.answer = NoAnswer]
                 ELSE Skip(d)
      /\ missed' = [missed EXCEPT ![d] =
           CASE a.status = "ok" -> 0
             [] a.status = "failed" /\ r.kind # "deregister" -> UpTo(MaxMissed, @)
             [] OTHER -> @]
  BY <1>d DEF Receive
<1>m. missed \in [Campaigns -> 0 .. MaxMissed]
  BY <1>i DEF TypeOK
<1>2. CASE r.kind = "heartbeat" /\ a.status = "notfound"
  <2>1. registrations' = registrations /\ missed' = missed
    BY <1>1, <1>2, <1>m
  <2>2. loop'.pc = "sent" /\ loop'.todo = loop.todo /\ loop'.req.campaign = d /\ loop'.req.kind = "register"
    BY <1>1, <1>2, <1>d, <1>i, <1>t DEF TypeOK, Requests
  <2>3. \A c \in DOMAIN registrations : Pending(c) => Pending(c)'
    BY <1>d, <1>u, <2>2 DEF Pending
  <2>4. BeatAge'
    BY <1>i, <1>k, <2>1, <2>3, SameAge DEF BeatAge
  <2>5. (LoopOK /\ AnswerYoung)'
    BY <2>2 DEF LoopOK, AnswerYoung
  <2>6. QED
    BY <1>i, <2>4, <2>5 DEF BInv
<1>3. CASE ~(r.kind = "heartbeat" /\ a.status = "notfound")
  <2>1. /\ loop'.pc \in {"wait", "next"} /\ loop'.todo = loop.todo \ {d}
        /\ loop'.pc = "wait" => loop'.todo = {}
    BY <1>1, <1>3, <1>i DEF Skip, Idle, TypeOK
  <2>2. \A c \in DOMAIN registrations' \ {d} :
          c \in DOMAIN registrations /\ registrations'[c] = registrations[c]
    BY <1>1, <1>d, <1>a DEF Put, Without
  <2>3. \A c \in DOMAIN registrations \ {d} : missed'[c] = missed[c]
    BY <1>1, <1>m, <1>i DEF TypeOK
  <2>4. \A c \in DOMAIN registrations \ {d} : Pending(c) => Pending(c)'
    BY <1>d, <1>u, <2>1 DEF Pending
  <2>5. \A c \in DOMAIN registrations' \ {d} : BeatAgeOf(c)'
    BY <1>i, <1>k, <2>2, <2>3, <2>4, SameAge
  <2>6. d \in DOMAIN registrations' => BeatAgeOf(d)'
    <3>1. CASE r.kind = "deregister"
      <4>1. registrations' = Without(registrations, {d})
        BY <1>1, <3>1
      <4>2. d \notin DOMAIN registrations'
        BY <4>1 DEF Without
      <4>3. QED
        BY <4>2
    <3>2. CASE r.kind = "register" /\ a.status = "ok"
      <4>1. registrations' = Put(registrations, d, a.id) /\ missed'[d] = 0
        BY <1>1, <1>d, <1>m, <3>2
      <4>2. registrations'[d] = a.id
        BY <4>1 DEF Put
      <4>3. a.id \in DOMAIN listings => listings[a.id].age = 0
        BY <1>i, <1>u, <3>2 DEF AnswerYoung
      <4>4. QED
        BY <1>u, <4>1, <4>2, <4>3 DEF BeatAgeOf
    <3>3. CASE r.kind = "heartbeat" /\ a.status = "ok"
      <4>1. registrations' = registrations /\ missed'[d] = 0
        BY <1>1, <1>d, <1>m, <3>3
      <4>2. registrations[d] = r.id
        BY <1>d, <1>i, <1>u, <3>3 DEF LoopOK
      <4>3. r.id \in DOMAIN listings => listings[r.id].age = 0
        BY <1>i, <1>u, <3>3 DEF AnswerYoung
      <4>4. QED
        BY <1>u, <4>1, <4>2, <4>3 DEF BeatAgeOf
    <3>4. CASE r.kind # "deregister" /\ a.status = "failed"
      <4>1. registrations' = registrations /\ missed'[d] = UpTo(MaxMissed, missed[d])
        BY <1>1, <1>d, <1>m, <3>4
      <4>2. QED
        BY <1>i, <1>u, <4>1, MissedAge
    <3>5. r.kind = "register" => a.status \in {"ok", "failed"}
      BY <1>i, <1>u DEF AnswerYoung
    <3>6. QED
      BY <1>3, <1>a, <1>d, <3>1, <3>2, <3>3, <3>4, <3>5
  <2>7. BeatAge'
    BY <2>5, <2>6 DEF BeatAge
  <2>8. (LoopOK /\ AnswerYoung)'
    BY <2>1 DEF LoopOK, AnswerYoung
  <2>9. QED
    BY <1>i, <2>7, <2>8 DEF BInv
<1>4. QED
  BY <1>2, <1>3

LEMMA MasterRestartAges == BInv /\ MasterRestart => BInv'
<1> SUFFICES ASSUME BInv, MasterRestart PROVE BInv'
  OBVIOUS
<1>i. IInv'
  BY MasterRestartInv DEF BInv
<1>1. DOMAIN registrations' = {} /\ loop'.pc = "wait" /\ loop'.todo = {}
  BY DEF MasterRestart, Idle
<1>2. (BeatAge /\ LoopOK /\ AnswerYoung)'
  BY <1>1 DEF BeatAge, LoopOK, AnswerYoung
<1>3. QED
  BY <1>i, <1>2 DEF BInv

\* A step of the registry, the Host or the network.
LEMMA ListingsOnlyAges ==
  ASSUME BInv, IInv', UNCHANGED <<registrations, loop, due, missed>>, AgesKept
  PROVE  BInv'
<1>i. TypeOK /\ TypeOK' /\ BeatAge /\ LoopOK /\ AnswerYoung
  BY DEF BInv, IInv, TInv
<1>1. \A c \in DOMAIN registrations : Pending(c) => Pending(c)'
  BY DEF Pending
<1>2. BeatAge'
  BY <1>i, <1>1, SameAge DEF BeatAge
<1>3. LoopOK'
  BY <1>i DEF LoopOK
<1>4. AnswerYoung'
  BY <1>i DEF AnswerYoung, AgesKept
<1>5. QED
  BY <1>2, <1>3, <1>4 DEF BInv

LEMMA OthersAges ==
  BInv /\ (Sweep \/ RegistryRestart \/ ChangeSettings \/ Arrive \/ UNCHANGED vars) => BInv'
<1>t. BInv => IInv /\ TypeOK
  BY DEF BInv, IInv, TInv
<1>1. ASSUME BInv, Sweep PROVE BInv'
  <2>1. PICK gone : listings' = Without(listings, gone)
    BY <1>1 DEF Sweep
  <2>2. AgesKept
    BY <1>1, <1>t, <2>1, WithoutListings DEF AgesKept, TypeOK
  <2>3. IInv' /\ UNCHANGED <<registrations, loop, due, missed>>
    BY <1>1, <1>t, RegistryInv DEF Sweep, master, history
  <2>4. QED
    BY <1>1, <2>2, <2>3, ListingsOnlyAges
<1>2. ASSUME BInv, RegistryRestart PROVE BInv'
  <2>1. AgesKept
    BY <1>2 DEF AgesKept, RegistryRestart
  <2>2. IInv' /\ UNCHANGED <<registrations, loop, due, missed>>
    BY <1>2, <1>t, RegistryInv DEF RegistryRestart, master
  <2>3. QED
    BY <1>2, <2>1, <2>2, ListingsOnlyAges
<1>3. ASSUME BInv, ChangeSettings PROVE BInv'
  <2>1. IInv' /\ AgesKept /\ UNCHANGED <<registrations, loop, due, missed>>
    BY <1>3, <1>t, ChangeSettingsInv DEF ChangeSettings, AgesKept, master
  <2>2. QED
    BY <1>3, <2>1, ListingsOnlyAges
<1>4. ASSUME BInv, Arrive PROVE BInv'
  <2>1. PICK r \in late : (\E answer \in Answers : Handle(r.req, answer)) \/ UNCHANGED listings
    BY <1>4 DEF Arrive
  <2>2. r.req \in Requests
    BY <1>4, <1>t DEF TypeOK
  <2>3. AgesKept
    BY <1>4, <1>t, <2>1, <2>2, HandleKeeps DEF AgesKept
  <2>4. IInv' /\ UNCHANGED <<registrations, loop, due, missed>>
    BY <1>4, <1>t, ArriveInv DEF Arrive, master, history
  <2>5. QED
    BY <1>4, <2>3, <2>4, ListingsOnlyAges
<1>5. ASSUME BInv, UNCHANGED vars PROVE BInv'
  <2>1. IInv' /\ AgesKept /\ UNCHANGED <<registrations, loop, due, missed>>
    BY <1>5, <1>t, StutterInv DEF vars, AgesKept, master, history
  <2>2. QED
    BY <1>5, <2>1, ListingsOnlyAges
<1>6. QED
  BY <1>1, <1>2, <1>3, <1>4, <1>5

\* A tick finds no beat under way, makes one due and every listing a beat older.
LEMMA TickAges == BInv /\ Tick => BInv'
<1> SUFFICES ASSUME BInv, Tick PROVE BInv'
  OBVIOUS
<1>i. IInv' /\ TypeOK /\ BeatAge /\ LoopOK
  BY TickInv DEF BInv, IInv, TInv
<1>u. UNCHANGED <<registrations, loop, missed>> /\ loop.pc = "wait" /\ ~due /\ due'
  BY DEF Tick
<1>1. \A c : ~Pending(c) /\ Pending(c)'
  BY <1>i, <1>u DEF Pending, LoopOK
<1>2. DOMAIN listings' = DOMAIN listings
  BY DEF Tick
<1>3. \A id \in DOMAIN listings : listings'[id].age \in Nat /\ listings'[id].age <= listings[id].age + 1
  <2> SUFFICES ASSUME NEW id \in DOMAIN listings
               PROVE  listings'[id].age \in Nat /\ listings'[id].age <= listings[id].age + 1
    OBVIOUS
  <2>1. listings[id] \in Listing
    BY <1>i DEF TypeOK
  <2>2. listings'[id] = [listings[id] EXCEPT !.age = UpTo(Ttl + 1, @)]
    BY DEF Tick
  <2>3. listings'[id].age = UpTo(Ttl + 1, listings[id].age)
    BY <2>1, <2>2 DEF Listing
  <2>4. listings[id].age \in 0 .. Ttl + 1
    BY <2>1 DEF Listing
  <2>5. QED
    BY <2>3, <2>4, UpToBounds
<1>4. BeatAge'
  <2> SUFFICES ASSUME NEW c \in DOMAIN registrations, registrations[c] \in DOMAIN listings, missed[c] < MaxMissed
               PROVE  listings'[registrations[c]].age <= missed[c] + 1
    BY <1>u, <1>1, <1>2 DEF BeatAge, BeatAgeOf
  <2>1. missed[c] \in 0 .. MaxMissed /\ listings[registrations[c]].age \in 0 .. Ttl + 1
    BY <1>i, CountsType
  <2>2. listings[registrations[c]].age <= missed[c]
    BY <1>i, <1>1, <2>1 DEF BeatAge, BeatAgeOf
  <2>3. QED
    BY <1>3, <2>1, <2>2
<1>5. (LoopOK /\ AnswerYoung)'
  BY <1>i, <1>u DEF LoopOK, AnswerYoung
<1>6. QED
  BY <1>i, <1>4, <1>5 DEF BInv

LEMMA StepAges == BInv /\ [Next]_vars => BInv'
BY RunOnceAges, SyncCampaignAges, ExchangeAges, FailAges, ReceiveAges, MasterRestartAges,
   OthersAges, TickAges DEF Next, Loop

LEMMA AgesSurvive ==
  ASSUME BInv, NEW n \in 0 .. MaxMissed - 1, n + 2 <= Ttl
  PROVE  SurvivesMisses(n)
<1> SUFFICES ASSUME NEW c \in Tracked, registrations[c] \in DOMAIN listings, missed[c] <= n
             PROVE  listings[registrations[c]].age < Ttl
  BY DEF SurvivesMisses
<1>1. TypeOK /\ BeatAge /\ c \in DOMAIN registrations
  BY DEF BInv, IInv, TInv, Tracked
<1>2. missed[c] \in 0 .. MaxMissed /\ listings[registrations[c]].age \in 0 .. Ttl + 1
  BY <1>1, CountsType
<1>3. listings[registrations[c]].age <= missed[c] + 1
  BY <1>1, <1>2 DEF BeatAge, BeatAgeOf
<1>4. QED
  BY <1>2, <1>3

\* A listing is a beat older than its misses, until its beat is over: one
\* missed beat is harmless with the time to live of three beats that
\* registry/main.go:34 sets, or with a longer one.
THEOREM OneMissHarmless == ASSUME Ttl >= 3 PROVE Spec => []OneMissedBeatIsHarmless
<1>1. Spec => []BInv
  BY InitAges, StepAges, PTL DEF Spec
<1>2. BInv => OneMissedBeatIsHarmless
  BY AgesSurvive DEF OneMissedBeatIsHarmless
<1>3. QED
  BY <1>1, <1>2, PTL

\* What registry/main.go:34 says of two missed beats would hold with one beat
\* more to live.
THEOREM TwoMissesNeedFourBeats == ASSUME Ttl >= 4 PROVE Spec => []TwoMissedBeatsAreHarmless
<1>1. Spec => []BInv
  BY InitAges, StepAges, PTL DEF Spec
<1>2. BInv => TwoMissedBeatsAreHarmless
  BY AgesSurvive DEF TwoMissedBeatsAreHarmless
<1>3. QED
  BY <1>1, <1>2, PTL

--------------------------------------------------------------------------------
(* Orphans.  A listing the Master does not track was left behind by a         *)
(* failure, and nothing that is not on its way since makes it younger.       *)

\* The loop waits for an answer to a request, or has it.
Busy == loop.pc \in {"sent", "answered"}

\* Somebody knows campaign c by id.
GoesBy(c, id) ==
  \/ id \in DOMAIN listings /\ listings[id].campaign = c
  \/ c \in DOMAIN registrations /\ registrations[c] = id
  \/ \E r \in late : r.req.campaign = c /\ r.req.id = id
  \/ Busy /\ loop.req.campaign = c /\ id \in {loop.req.id, loop.answer.id}
OneCampaign ==
  \A id \in Ids, c, d \in Campaigns : GoesBy(c, id) /\ GoesBy(d, id) => c = d

\* What the loop asks for, and has heard, fits what it tracks and what the
\* registry holds.
Asked ==
  Busy =>
    /\ loop.req.kind # "register" =>
         loop.req.campaign \in DOMAIN registrations /\ registrations[loop.req.campaign] = loop.req.id
    /\ loop.req.kind = "register" /\ loop.req.campaign \in DOMAIN registrations =>
         registrations[loop.req.campaign] \notin DOMAIN listings
Heard ==
  loop.pc = "answered" =>
    /\ loop.req.kind = "deregister" =>
         IF loop.answer.status = "failed" THEN calm = 0 ELSE loop.req.id \notin DOMAIN listings
    /\ loop.req.kind = "heartbeat" /\ loop.answer.status = "notfound" =>
         loop.req.id \notin DOMAIN listings
    /\ loop.req.kind # "register" \/ loop.answer.status # "ok" => loop.answer.id = 0

\* A request that was given up was given up at most a beat ago.
LateCalm == \A r \in late : calm <= IF r.old THEN 1 ELSE 0

Tied(id) ==
  \/ listings[id].campaign \in DOMAIN registrations /\ registrations[listings[id].campaign] = id
  \/ loop.pc = "answered" /\ loop.answer.id = id
OrphanAge == \A id \in DOMAIN listings : Tied(id) \/ calm <= listings[id].age + 1

OInv == IInv /\ OneCampaign /\ Asked /\ Heard /\ LateCalm /\ OrphanAge

LEMMA OrphanTypes ==
  ASSUME IInv
  PROVE  /\ calm \in 0 .. Horizon /\ Horizon \in Nat
         /\ \A id \in DOMAIN listings : /\ id \in Ids /\ listings[id].campaign \in Campaigns
                                        /\ listings[id].age \in 0 .. Ttl + 1
         /\ \A c \in DOMAIN registrations : c \in Campaigns /\ registrations[c] \in Ids
         /\ 0 \notin Ids
         /\ loop.pc \in {"sent", "answered"} => loop.req \in Requests
         /\ \A r \in late : r.req \in Requests
BY DEF IInv, TInv, TypeOK, Listing, Horizon

\* A new id is nobody's.
LEMMA FreshId ==
  ASSUME NEW id, id \notin Known, NEW c
  PROVE  ~GoesBy(c, id)
BY DEF Known, GoesBy

\* If every new name is a fresh id for one campaign, an id still means one.
LEMMA NamesStep ==
  ASSUME OneCampaign, NEW owner,
         \A id \in Ids, c \in Campaigns :
           GoesBy(c, id)' => GoesBy(c, id) \/ (id \notin Known /\ c = owner)
  PROVE  OneCampaign'
<1> SUFFICES ASSUME NEW id \in Ids, NEW c \in Campaigns, NEW d \in Campaigns,
                    GoesBy(c, id)', GoesBy(d, id)'
             PROVE  c = d
  BY DEF OneCampaign
<1>1. CASE id \notin Known
  BY <1>1, FreshId
<1>2. CASE id \in Known
  BY <1>2 DEF OneCampaign
<1>3. QED
  BY <1>1, <1>2

\* What the registry does with a request, to each listing and in its answer.
LEMMA HandleNames ==
  ASSUME TypeOK, NEW r \in Requests, NEW answer \in Answers, Handle(r, answer)
  PROVE  /\ \A id \in DOMAIN listings' :
              \/ id \in DOMAIN listings /\ listings'[id] = listings[id]
              \/ /\ r.kind = "heartbeat" /\ id = r.id /\ id \in DOMAIN listings
                 /\ listings'[id].campaign = r.campaign /\ listings'[id].age = 0
              \/ /\ r.kind = "register" /\ answer = Answer("ok", id) /\ id \notin Known
                 /\ listings'[id].campaign = r.campaign /\ listings'[id].age = 0
         /\ r.kind = "register" => answer.id \in Ids \ Known \/ answer.id = 0
         /\ r.kind # "register" \/ answer.status # "ok" => answer.id = 0
         /\ r.kind = "deregister" => answer.status # "failed" /\ r.id \notin DOMAIN listings'
         /\ r.kind = "heartbeat" /\ answer.status = "notfound" => r.id \notin DOMAIN listings'
<1>t. DOMAIN listings \subseteq Ids /\ listings \in [DOMAIN listings -> Listing]
  BY DEF TypeOK
<1>1. CASE Create(r, answer)
  <2>0. r.kind = "register" /\ Publishes(r)
    BY <1>1 DEF Create, Publishes
  <2>1. CASE answer = Answer("failed", 0) /\ UNCHANGED listings
    BY <2>0, <2>1 DEF Answer
  <2>2. CASE \E id \in Ids : NewId(id) /\ answer = Answer("ok", id) /\ listings' = Put(listings, id, Listed(r))
    <3>1. PICK id \in Ids : /\ id \notin Known /\ answer = Answer("ok", id)
                            /\ listings' = Put(listings, id, Listed(r))
      BY <2>2 DEF NewId
    <3>2. Listed(r) \in Listing /\ Listed(r).campaign = r.campaign /\ Listed(r).age = 0
      BY <2>0, ListedType
    <3>3. /\ DOMAIN listings' = DOMAIN listings \cup {id} /\ listings'[id] = Listed(r)
          /\ \A i \in DOMAIN listings \ {id} : listings'[i] = listings[i]
      BY <1>t, <3>1, <3>2, PutListing
    <3>4. answer.id = id /\ answer.status = "ok"
      BY <3>1 DEF Answer
    <3>5. QED
      BY <2>0, <3>1, <3>2, <3>3, <3>4
  <2>3. QED
    BY <1>1, <2>1, <2>2 DEF Create
<1>2. CASE Heartbeat(r, answer)
  <2>0. r.kind = "heartbeat" /\ Publishes(r)
    BY <1>2 DEF Heartbeat, Publishes
  <2>1. CASE r.id \in DOMAIN listings
    <3>1. answer = Answer("ok", 0) /\ listings' = Put(listings, r.id, Listed(r)) /\ r.id \in Ids
      BY <1>2, <1>t, <2>1 DEF Heartbeat
    <3>2. Listed(r) \in Listing /\ Listed(r).campaign = r.campaign /\ Listed(r).age = 0
      BY <2>0, ListedType
    <3>3. /\ DOMAIN listings' = DOMAIN listings \cup {r.id} /\ listings'[r.id] = Listed(r)
          /\ \A i \in DOMAIN listings \ {r.id} : listings'[i] = listings[i]
      BY <1>t, <3>1, <3>2, PutListing
    <3>4. answer.id = 0 /\ answer.status = "ok"
      BY <3>1 DEF Answer
    <3>5. QED
      BY <2>0, <2>1, <3>2, <3>3, <3>4
  <2>2. CASE r.id \notin DOMAIN listings
    BY <1>2, <2>0, <2>2 DEF Heartbeat, Answer
  <2>3. QED
    BY <2>1, <2>2
<1>3. CASE Remove(r, answer)
  <2>1. /\ r.kind = "deregister" /\ listings' = Without(listings, {r.id})
        /\ answer.id = 0 /\ answer.status # "failed"
    BY <1>3 DEF Remove, Answer
  <2>2. /\ DOMAIN listings' = DOMAIN listings \ {r.id}
        /\ \A i \in DOMAIN listings' : listings'[i] = listings[i]
    BY <1>t, <2>1, WithoutListings
  <2>3. QED
    BY <2>1, <2>2
<1>4. QED
  BY <1>1, <1>2, <1>3 DEF Handle

LEMMA InitOrphans == Init => OInv
<1> SUFFICES ASSUME Init PROVE OInv
  OBVIOUS
<1>1. loop.pc = "wait" /\ DOMAIN listings = {} /\ DOMAIN registrations = {} /\ late = {}
  BY DEF Init, Idle
<1>2. QED
  BY <1>1, InitInv DEF OInv, OneCampaign, GoesBy, Asked, Heard, LateCalm, OrphanAge, Busy

\* A step between two requests, in which something may have failed.
LEMMA BetweenRequests ==
  ASSUME OInv, IInv', UNCHANGED <<registrations, listings, late>>, calm' \in {calm, 0},
         loop.pc \in {"wait", "next"}, loop'.pc # "answered",
         ~Busy' \/ \E c \in Campaigns : 
                     /\ loop'.req.campaign = c /\ loop'.answer.id = 0
                     /\ \/ loop'.req.kind = "register" /\ loop'.req.id = 0 /\ c \notin DOMAIN registrations
                        \/ /\ loop'.req.kind # "register" /\ c \in DOMAIN registrations
                           /\ loop'.req.id = registrations[c]
  PROVE  OInv'
<1>t. calm \in 0 .. Horizon /\ 0 \notin Ids
      /\ \A id \in DOMAIN listings : listings[id].age \in 0 .. Ttl + 1
  BY OrphanTypes DEF OInv
<1>1. OneCampaign'
  <2>1. \A id \in Ids, c \in Campaigns : GoesBy(c, id)' => GoesBy(c, id)
    BY <1>t DEF GoesBy
  <2>2. QED
    BY <2>1, NamesStep DEF OInv
<1>2. (Asked /\ Heard)'
  BY DEF Asked, Heard, Busy
<1>3. LateCalm'
  BY <1>t DEF OInv, LateCalm
<1>4. OrphanAge'
  BY <1>t DEF OInv, OrphanAge, Tied
<1>5. QED
  BY <1>1, <1>2, <1>3, <1>4 DEF OInv

LEMMA RunOnceOrphans == OInv /\ RunOnce => OInv'
<1> SUFFICES ASSUME OInv, RunOnce PROVE OInv'
  OBVIOUS
<1>1. IInv'
  BY RunOnceInv DEF OInv
<1>2. /\ loop.pc = "wait" /\ UNCHANGED <<registrations, listings, late>> /\ calm' \in {calm, 0}
      /\ loop'.pc \in {"wait", "next"}
  BY DEF RunOnce, Idle
<1>3. QED
  BY <1>1, <1>2, BetweenRequests DEF Busy

LEMMA SyncCampaignOrphans == OInv /\ SyncCampaign => OInv'
<1> SUFFICES ASSUME OInv, SyncCampaign PROVE OInv'
  OBVIOUS
<1>1. IInv' /\ TypeOK
  BY SyncCampaignInv DEF OInv, IInv, TInv
<1>2. /\ loop.pc = "next" /\ UNCHANGED <<registrations, listings, late>> /\ calm' \in {calm, 0}
  BY DEF SyncCampaign
<1>3. PICK c \in loop.todo :
        \/ loop' = Skip(c)
        \/ /\ c \in DOMAIN registrations
           /\ \/ loop' = Send(c, Request("deregister", c, registrations[c]))
              \/ loop' = Send(c, Request("heartbeat", c, registrations[c]))
        \/ c \notin DOMAIN registrations /\ loop' = Send(c, Request("register", c, 0))
  BY DEF SyncCampaign, Tracked
<1>4. c \in Campaigns
  BY <1>1 DEF TypeOK
<1>5. CASE loop' = Skip(c)
  <2>1. loop'.pc \in {"wait", "next"}
    BY <1>1, <1>5, SkipType
  <2>2. QED
    BY <1>1, <1>2, <2>1, BetweenRequests DEF Busy
<1>6. ASSUME NEW kind \in {"deregister", "heartbeat", "register"}, NEW id,
             loop' = Send(c, Request(kind, c, id)),
             IF kind = "register" THEN id = 0 /\ c \notin DOMAIN registrations
             ELSE c \in DOMAIN registrations /\ id = registrations[c]
      PROVE  OInv'
  <2>1. /\ loop'.pc = "sent" /\ loop'.answer.id = 0
        /\ loop'.req.kind = kind /\ loop'.req.campaign = c /\ loop'.req.id = id
    BY <1>6 DEF Send, Idle, NoAnswer, Answer, Request
  <2>2. QED
    BY <1>1, <1>2, <1>4, <1>6, <2>1, BetweenRequests
<1>7. QED
  BY <1>3, <1>5, <1>6

LEMMA ExchangeOrphans == OInv /\ Exchange => OInv'
<1> SUFFICES ASSUME OInv, Exchange PROVE OInv'
  OBVIOUS
<1>i. IInv' /\ TypeOK
  BY ExchangeInv DEF OInv, IInv, TInv
<1>t. /\ loop.pc = "sent" /\ loop.req \in Requests /\ loop.req.campaign \in Campaigns /\ 0 \notin Ids
      /\ \A id \in DOMAIN listings' : listings'[id].age \in 0 .. Ttl + 1
  BY <1>i, RequestFields, OrphanTypes DEF OInv, Exchange, IInv, TInv, TypeOK, Listing
<1>1. PICK answer \in Answers :
        /\ Handle(loop.req, answer)
        /\ \/ loop' = [loop EXCEPT !.pc = "answered", !.answer = answer] /\ calm' = calm
           \/ /\ loop' = [loop EXCEPT !.pc = "answered", !.answer = Answer("failed", 0)]
              /\ calm' = 0
  BY DEF Exchange
<1>u. UNCHANGED <<registrations, late>>
  BY DEF Exchange
<1>n. /\ \A id \in DOMAIN listings' :
           \/ id \in DOMAIN listings /\ listings'[id] = listings[id]
           \/ /\ loop.req.kind = "heartbeat" /\ id = loop.req.id /\ id \in DOMAIN listings
              /\ listings'[id].campaign = loop.req.campaign /\ listings'[id].age = 0
           \/ /\ loop.req.kind = "register" /\ answer = Answer("ok", id) /\ id \notin Known
              /\ listings'[id].campaign = loop.req.campaign /\ listings'[id].age = 0
      /\ loop.req.kind = "register" => answer.id \in Ids \ Known \/ answer.id = 0
      /\ loop.req.kind # "register" \/ answer.status # "ok" => answer.id = 0
      /\ loop.req.kind = "deregister" =>
           answer.status # "failed" /\ loop.req.id \notin DOMAIN listings'
      /\ loop.req.kind = "heartbeat" /\ answer.status = "notfound" =>
           loop.req.id \notin DOMAIN listings'
  BY <1>i, <1>t, <1>1, HandleNames
<1>a. PICK a : /\ loop'.pc = "answered" /\ loop'.req = loop.req /\ loop'.answer = a
               /\ \/ a = answer /\ calm' = calm
                  \/ a.id = 0 /\ a.status = "failed" /\ calm' = 0
  <2>1. loop' = [loop EXCEPT !.pc = "answered", !.answer = loop'.answer]
        /\ (loop'.answer = answer \/ loop'.answer = Answer("failed", 0))
    BY <1>1, <1>i DEF TypeOK
  <2>2. loop'.pc = "answered" /\ loop'.req = loop.req
    BY <1>i, <2>1 DEF TypeOK
  <2>3. \/ loop'.answer = answer /\ calm' = calm
        \/ loop'.answer = Answer("failed", 0) /\ calm' = 0
    BY <1>1, <1>i DEF TypeOK
  <2>4. QED
    BY <2>2, <2>3 DEF Answer
<1>b. Busy /\ Busy'
  BY <1>t, <1>a DEF Busy
<1>2. OneCampaign'
  <2>1. ASSUME NEW id \in Ids, NEW c \in Campaigns, GoesBy(c, id)'
        PROVE  GoesBy(c, id) \/ (id \notin Known /\ c = loop.req.campaign)
    <3>1. CASE id \in DOMAIN listings' /\ listings'[id].campaign = c
      BY <3>1, <1>n, <1>b DEF GoesBy
    <3>2. CASE \/ c \in DOMAIN registrations' /\ registrations'[c] = id
               \/ \E r \in late' : r.req.campaign = c /\ r.req.id = id
      BY <3>2, <1>u DEF GoesBy
    <3>3. CASE loop'.req.campaign = c /\ id = loop'.req.id
      BY <3>3, <1>a, <1>b DEF GoesBy
    <3>4. CASE loop'.req.campaign = c /\ id = loop'.answer.id
      <4>1. id = a.id /\ a = answer /\ c = loop.req.campaign
        BY <3>4, <1>a, <1>t
      <4>2. QED
        BY <4>1, <1>n, <1>t
    <3>5. QED
      BY <2>1, <3>1, <3>2, <3>3, <3>4 DEF GoesBy
  <2>2. QED
    BY <2>1, NamesStep DEF OInv
<1>3. Asked'
  <2>1. loop.req.kind # "register" =>
          loop.req.campaign \in DOMAIN registrations /\ registrations[loop.req.campaign] = loop.req.id
    BY <1>b DEF OInv, Asked
  <2>2. loop.req.kind = "register" /\ loop.req.campaign \in DOMAIN registrations =>
          registrations[loop.req.campaign] \notin DOMAIN listings'
    BY <1>b, <1>n DEF OInv, Asked, Known
  <2>3. QED
    BY <1>a, <1>u, <2>1, <2>2 DEF Asked
<1>4. Heard'
  BY <1>a, <1>n DEF Heard
<1>5. LateCalm'
  BY <1>a, <1>u, OrphanTypes DEF OInv, LateCalm
<1>6. OrphanAge'
  <2> SUFFICES ASSUME NEW id \in DOMAIN listings'
               PROVE  Tied(id)' \/ calm' <= listings'[id].age + 1
    BY DEF OrphanAge
  <2>1. CASE calm' = 0
    BY <2>1, <1>t
  <2>2. CASE a = answer /\ calm' = calm
    <3>1. CASE id \in DOMAIN listings /\ listings'[id] = listings[id]
      <4>1. \/ /\ listings[id].campaign \in DOMAIN registrations
               /\ registrations[listings[id].campaign] = id
            \/ calm <= listings[id].age + 1
        BY <3>1, <1>t DEF OInv, OrphanAge, Tied
      <4>2. QED
        BY <4>1, <3>1, <2>2, <1>u DEF Tied
    <3>2. CASE loop.req.kind = "heartbeat" /\ id = loop.req.id
               /\ listings'[id].campaign = loop.req.campaign
      BY <3>2, <1>b, <1>u DEF OInv, Asked, Tied
    <3>3. CASE answer = Answer("ok", id)
      BY <3>3, <2>2, <1>a DEF Tied, Answer
    <3>4. QED
      BY <3>1, <3>2, <3>3, <1>n
  <2>3. QED
    BY <2>1, <2>2, <1>a
<1>7. QED
  BY <1>i, <1>2, <1>3, <1>4, <1>5, <1>6 DEF OInv

\* A request is given up, and the loop is left with no answer or starts anew.
LEMMA GivenUp ==
  ASSUME OInv, IInv', UNCHANGED listings, calm' = 0,
         \/ late' = late
         \/ loop.pc = "sent" /\ late' = late \cup {[req |-> loop.req, old |-> FALSE]},
         \/ ~Busy' /\ DOMAIN registrations' = {}
         \/ /\ Busy /\ loop'.pc = "answered" /\ loop'.req = loop.req /\ UNCHANGED registrations
            /\ loop'.answer.id = 0 /\ loop'.answer.status = "failed"
  PROVE  OInv'
<1>t. 0 \notin Ids /\ \A id \in DOMAIN listings' : listings'[id].age \in 0 .. Ttl + 1
  BY OrphanTypes DEF OInv
<1>1. OneCampaign'
  <2>1. ASSUME NEW id \in Ids, NEW c \in Campaigns, GoesBy(c, id)'
        PROVE  GoesBy(c, id)
    <3>1. CASE id \in DOMAIN listings' /\ listings'[id].campaign = c
      BY <3>1 DEF GoesBy
    <3>2. CASE c \in DOMAIN registrations' /\ registrations'[c] = id
      BY <3>2 DEF GoesBy
    <3>3. CASE \E r \in late' : r.req.campaign = c /\ r.req.id = id
      BY <3>3 DEF GoesBy, Busy
    <3>4. CASE Busy' /\ loop'.req.campaign = c /\ id \in {loop'.req.id, loop'.answer.id}
      BY <3>4, <1>t DEF GoesBy
    <3>5. QED
      BY <2>1, <3>1, <3>2, <3>3, <3>4 DEF GoesBy
  <2>2. QED
    BY <2>1, NamesStep DEF OInv
<1>2. (Asked /\ Heard)'
  BY DEF OInv, Asked, Heard, Busy
<1>3. (LateCalm /\ OrphanAge)'
  BY <1>t DEF OInv, LateCalm, OrphanAge
<1>4. QED
  BY <1>1, <1>2, <1>3 DEF OInv

LEMMA FailOrphans == OInv /\ Fail => OInv'
<1> SUFFICES ASSUME OInv, Fail PROVE OInv'
  OBVIOUS
<1>1. IInv' /\ TypeOK
  BY FailInv DEF OInv, IInv, TInv
<1>2. /\ loop.pc = "sent" /\ calm' = 0 /\ UNCHANGED <<registrations, listings>>
      /\ loop' = [loop EXCEPT !.pc = "answered", !.answer = Answer("failed", 0)]
      /\ late' = late \/ late' = late \cup {[req |-> loop.req, old |-> FALSE]}
  BY DEF Fail
<1>3. /\ Busy /\ loop'.pc = "answered" /\ loop'.req = loop.req
      /\ loop'.answer.id = 0 /\ loop'.answer.status = "failed"
  BY <1>1, <1>2 DEF TypeOK, Busy, Answer
<1>4. QED
  BY <1>1, <1>2, <1>3, GivenUp

LEMMA MasterRestartOrphans == OInv /\ MasterRestart => OInv'
<1> SUFFICES ASSUME OInv, MasterRestart PROVE OInv'
  OBVIOUS
<1>1. IInv'
  BY MasterRestartInv DEF OInv
<1>2. /\ ~Busy' /\ DOMAIN registrations' = {} /\ calm' = 0 /\ UNCHANGED listings
      /\ \/ late' = late
         \/ loop.pc = "sent" /\ late' = late \cup {[req |-> loop.req, old |-> FALSE]}
  BY DEF MasterRestart, Busy, Idle
<1>3. QED
  BY <1>1, <1>2, GivenUp

\* What the loop does with an answer leaves no listing behind.
LEMMA ReceiveOrphans == OInv /\ Receive => OInv'
<1> SUFFICES ASSUME OInv, Receive PROVE OInv'
  OBVIOUS
<1> DEFINE r == loop.req
           a == loop.answer
<1>i. IInv' /\ TypeOK /\ IInv
  BY ReceiveInv DEF OInv, IInv, TInv
<1>t. /\ loop.pc = "answered" /\ r.campaign \in Campaigns /\ 0 \notin Ids
      /\ \A id \in DOMAIN listings : id \in Ids /\ listings[id].campaign \in Campaigns
  BY <1>i, RequestFields, OrphanTypes DEF Receive
<1>u. UNCHANGED <<listings, late, calm>>
  BY DEF Receive
<1>1. registrations' =
        CASE r.kind = "deregister" -> Without(registrations, {r.campaign})
          [] r.kind = "register" /\ a.status = "ok" -> Put(registrations, r.campaign, a.id)
          [] OTHER -> registrations
  BY DEF Receive
<1>2. \/ loop'.pc \in {"wait", "next"}
      \/ /\ r.kind = "heartbeat" /\ a.status = "notfound" /\ loop'.pc = "sent"
         /\ loop'.req.kind = "register" /\ loop'.req.campaign = r.campaign
         /\ loop'.req.id = 0 /\ loop'.answer.id = 0
  <2>1. CASE r.kind = "heartbeat" /\ a.status = "notfound"
    <3>1. loop' = [loop EXCEPT !.pc = "sent", !.req = [r EXCEPT !.kind = "register", !.id = 0],
                               !.answer = NoAnswer]
      BY <2>1 DEF Receive
    <3>2. r \in Requests
      BY <1>i, <1>t, OrphanTypes
    <3>3. /\ loop'.pc = "sent" /\ loop'.req = [r EXCEPT !.kind = "register", !.id = 0]
          /\ loop'.answer = NoAnswer
      BY <1>i, <3>1 DEF TypeOK
    <3>4. QED
      BY <2>1, <3>2, <3>3 DEF Requests, NoAnswer, Answer
  <2>2. CASE ~(r.kind = "heartbeat" /\ a.status = "notfound")
    <3>1. loop' = Skip(r.campaign)
      BY <2>2 DEF Receive
    <3>2. QED
      BY <1>i, <3>1, SkipType
  <2>3. QED
    BY <2>1, <2>2
<1>b. Busy
  BY <1>t DEF Busy
<1>3. OneCampaign'
  <2>1. ASSUME NEW id \in Ids, NEW c \in Campaigns, GoesBy(c, id)'
        PROVE  GoesBy(c, id)
    <3>1. CASE c \in DOMAIN registrations' /\ registrations'[c] = id
      <4>1. \/ c \in DOMAIN registrations /\ registrations[c] = id
            \/ c = r.campaign /\ id = a.id
        BY <3>1, <1>1 DEF Put, Without
      <4>2. QED
        BY <4>1, <1>b DEF GoesBy
    <3>2. CASE Busy' /\ id \in {loop'.req.id, loop'.answer.id}
      BY <3>2, <1>2, <1>t DEF Busy
    <3>3. QED
      BY <2>1, <3>1, <3>2, <1>u DEF GoesBy
  <2>2. QED
    BY <2>1, NamesStep DEF OInv
<1>4. Asked'
  <2>1. CASE loop'.pc \in {"wait", "next"}
    BY <2>1 DEF Asked, Busy
  <2>2. CASE /\ r.kind = "heartbeat" /\ a.status = "notfound"
             /\ loop'.req.kind = "register" /\ loop'.req.campaign = r.campaign
    <3>1. UNCHANGED registrations
      BY <1>1, <2>2
    <3>2. registrations[r.campaign] = r.id /\ r.id \notin DOMAIN listings
      BY <1>b, <1>t, <2>2 DEF OInv, Asked, Heard
    <3>3. QED
      BY <2>2, <3>1, <3>2, <1>u DEF Asked
  <2>3. QED
    BY <1>2, <2>1, <2>2
<1>5. (Heard /\ LateCalm)'
  BY <1>2, <1>u DEF OInv, Heard, LateCalm
<1>6. OrphanAge'
  <2> SUFFICES ASSUME NEW id \in DOMAIN listings, ~(calm <= listings[id].age + 1)
               PROVE  Tied(id)'
    BY <1>u DEF OrphanAge
  <2> DEFINE c == listings[id].campaign
  <2>0. Tied(id) /\ id \in Ids /\ c \in Campaigns /\ calm # 0
    BY <1>t, <1>i, OrphanTypes DEF OInv, OrphanAge
  <2>1. CASE c \in DOMAIN registrations /\ registrations[c] = id
    <3>1. CASE c # r.campaign
      <4>1. c \in DOMAIN registrations' /\ registrations'[c] = id
        BY <1>1, <2>1, <3>1 DEF Put, Without
      <4>2. QED
        BY <4>1, <1>u DEF Tied
    <3>2. CASE c = r.campaign
      <4>1. r.kind # "register"
        BY <1>b, <2>1, <3>2 DEF OInv, Asked
      <4>2. id = r.id
        BY <1>b, <2>1, <3>2, <4>1 DEF OInv, Asked
      <4>3. r.kind # "deregister"
        BY <1>t, <2>0, <4>2 DEF OInv, Heard
      <4>4. registrations' = registrations
        BY <1>1, <4>1, <4>3
      <4>5. QED
        BY <2>1, <4>4, <1>u DEF Tied
    <3>3. QED
      BY <3>1, <3>2
  <2>2. CASE a.id = id
    <3>1. r.kind = "register" /\ a.status = "ok"
      BY <1>t, <2>0, <2>2 DEF OInv, Heard
    <3>2. GoesBy(c, id) /\ GoesBy(r.campaign, id)
      BY <1>b, <2>2 DEF GoesBy
    <3>3. c = r.campaign
      BY <3>2, <2>0, <1>t DEF OInv, OneCampaign
    <3>4. registrations' = Put(registrations, c, id)
      BY <1>1, <3>1, <3>3, <2>2
    <3>5. c \in DOMAIN registrations' /\ registrations'[c] = id
      BY <3>4 DEF Put
    <3>6. QED
      BY <3>5, <1>u DEF Tied
  <2>3. QED
    BY <2>0, <2>1, <2>2 DEF Tied
<1>7. QED
  BY <1>i, <1>3, <1>4, <1>5, <1>6 DEF OInv

\* A step that makes no listing, and none younger.
LEMMA FewerListings ==
  ASSUME OInv, IInv', UNCHANGED <<registrations, loop, late>>, calm' \in {calm, 0},
         DOMAIN listings' \subseteq DOMAIN listings,
         \A id \in DOMAIN listings' : listings'[id] = listings[id]
  PROVE  OInv'
<1>t. calm \in 0 .. Horizon /\ \A id \in DOMAIN listings : listings[id].age \in 0 .. Ttl + 1
  BY OrphanTypes DEF OInv
<1>1. OneCampaign'
  <2>1. \A id \in Ids, c \in Campaigns : GoesBy(c, id)' => GoesBy(c, id)
    BY DEF GoesBy, Busy
  <2>2. QED
    BY <2>1, NamesStep DEF OInv
<1>2. (Asked /\ Heard)'
  BY DEF OInv, Asked, Heard, Busy
<1>3. (LateCalm /\ OrphanAge)'
  BY <1>t DEF OInv, LateCalm, OrphanAge, Tied
<1>4. QED
  BY <1>1, <1>2, <1>3 DEF OInv

LEMMA OthersOrphans ==
  /\ OInv /\ Sweep => OInv'
  /\ OInv /\ RegistryRestart => OInv'
  /\ OInv /\ ChangeSettings => OInv'
  /\ OInv /\ UNCHANGED vars => OInv'
<1>1. ASSUME OInv, Sweep PROVE OInv'
  <2>1. IInv' /\ IInv /\ TypeOK
    BY <1>1, RegistryInv DEF OInv, IInv, TInv
  <2>2. PICK gone : listings' = Without(listings, gone)
    BY <1>1 DEF Sweep
  <2>3. /\ DOMAIN listings' \subseteq DOMAIN listings
        /\ \A id \in DOMAIN listings' : listings'[id] = listings[id]
    BY <2>2 DEF Without
  <2>4. UNCHANGED <<registrations, loop, late, calm>>
    BY <1>1 DEF Sweep, master, history
  <2>5. QED
    BY <1>1, <2>1, <2>3, <2>4, FewerListings
<1>2. ASSUME OInv, RegistryRestart PROVE OInv'
  BY <1>2, RegistryInv, FewerListings DEF OInv, RegistryRestart, master
<1>3. ASSUME OInv, ChangeSettings PROVE OInv'
  BY <1>3, ChangeSettingsInv, FewerListings DEF OInv, ChangeSettings, master
<1>4. ASSUME OInv, UNCHANGED vars PROVE OInv'
  BY <1>4, StutterInv, FewerListings DEF OInv, vars, master, history
<1>5. QED
  BY <1>1, <1>2, <1>3, <1>4

\* What a late request publishes is younger than the failure that made it late.
LEMMA ArriveOrphans == OInv /\ Arrive => OInv'
<1> SUFFICES ASSUME OInv, Arrive PROVE OInv'
  OBVIOUS
<1>i. IInv' /\ IInv /\ TypeOK
  BY ArriveInv DEF OInv, IInv, TInv
<1>1. PICK r \in late :
        /\ late' = late \ {r}
        /\ (\E answer \in Answers : Handle(r.req, answer)) \/ UNCHANGED listings
  BY DEF Arrive
<1>u. UNCHANGED <<registrations, loop, calm>>
  BY DEF Arrive, master, history
<1>t. /\ r.req \in Requests /\ calm \in 0 .. 1
  BY <1>i, <1>1, OrphanTypes DEF OInv, LateCalm
<1>2. CASE UNCHANGED listings
  <2>1. OneCampaign'
    <3>1. \A id \in Ids, c \in Campaigns : GoesBy(c, id)' => GoesBy(c, id)
      BY <1>1, <1>2, <1>u DEF GoesBy, Busy
    <3>2. QED
      BY <3>1, NamesStep DEF OInv
  <2>2. (Asked /\ Heard)'
    BY <1>2, <1>u DEF OInv, Asked, Heard, Busy
  <2>3. (LateCalm /\ OrphanAge)'
    BY <1>1, <1>2, <1>u DEF OInv, LateCalm, OrphanAge, Tied
  <2>4. QED
    BY <1>i, <2>1, <2>2, <2>3 DEF OInv
<1>3. ASSUME NEW answer \in Answers, Handle(r.req, answer)
      PROVE  OInv'
  <2>n. \A id \in DOMAIN listings' :
          \/ id \in DOMAIN listings /\ listings'[id] = listings[id]
          \/ /\ id = r.req.id /\ id \in DOMAIN listings
             /\ listings'[id].campaign = r.req.campaign /\ listings'[id].age = 0
          \/ id \notin Known /\ listings'[id].campaign = r.req.campaign /\ listings'[id].age = 0
    BY <1>i, <1>t, <1>3, HandleNames
  <2>1. OneCampaign'
    <3>1. ASSUME NEW id \in Ids, NEW c \in Campaigns, GoesBy(c, id)'
          PROVE  GoesBy(c, id) \/ (id \notin Known /\ c = r.req.campaign)
      <4>1. CASE id \in DOMAIN listings' /\ listings'[id].campaign = c
        BY <4>1, <2>n DEF GoesBy
      <4>2. CASE ~(id \in DOMAIN listings' /\ listings'[id].campaign = c)
        BY <3>1, <4>2, <1>1, <1>u DEF GoesBy, Busy
      <4>3. QED
        BY <4>1, <4>2
    <3>2. QED
      BY <3>1, NamesStep DEF OInv
  <2>2. \A id \in Known : id \in DOMAIN listings' => id \in DOMAIN listings
    BY <2>n
  <2>3. Asked'
    <3>1. \A c \in DOMAIN registrations : registrations[c] \in Known
      BY DEF Known
    <3>2. QED
      BY <2>2, <3>1, <1>u DEF OInv, Asked, Busy
  <2>4. Heard'
    <3>1. loop.req.id \in Known
      BY DEF Known
    <3>2. QED
      BY <2>2, <3>1, <1>u DEF OInv, Heard
  <2>5. LateCalm'
    BY <1>1, <1>u DEF OInv, LateCalm
  <2>6. OrphanAge'
    BY <2>n, <1>t, <1>u DEF OInv, OrphanAge, Tied
  <2>7. QED
    BY <1>i, <2>1, <2>3, <2>4, <2>5, <2>6 DEF OInv
<1>4. QED
  BY <1>1, <1>2, <1>3

\* A beat makes the failure and the listings older alike.
LEMMA TickOrphans == OInv /\ Tick => OInv'
<1> SUFFICES ASSUME OInv, Tick PROVE OInv'
  OBVIOUS
<1>i. IInv' /\ IInv /\ TypeOK
  BY TickInv DEF OInv, IInv, TInv
<1>t. /\ calm \in 0 .. Horizon /\ Horizon \in Nat /\ Horizon = Ttl + 2
      /\ \A id \in DOMAIN listings : listings[id].age \in 0 .. Ttl + 1
  BY <1>i, OrphanTypes DEF Horizon
<1>u. UNCHANGED <<registrations, loop>> /\ loop.pc = "wait"
  BY DEF Tick
<1>1. DOMAIN listings' = DOMAIN listings
      /\ \A id \in DOMAIN listings : listings'[id] = [listings[id] EXCEPT !.age = UpTo(Ttl + 1, @)]
  BY DEF Tick
<1>2. \A id \in DOMAIN listings :
        /\ listings'[id].campaign = listings[id].campaign
        /\ listings'[id].age = UpTo(Ttl + 1, listings[id].age)
  <2>1. \A id \in DOMAIN listings : listings[id] \in Listing
    BY <1>i DEF TypeOK
  <2>2. QED
    BY <1>1, <2>1 DEF Listing
<1>3. calm' = UpTo(Horizon, calm) /\ calm' <= calm + 1 /\ calm' <= Horizon
  BY <1>t, UpToBounds DEF Tick
<1>4. late' = {[req |-> r.req, old |-> TRUE] : r \in late} /\ \A r \in late : ~r.old
  BY DEF Tick
<1>5. OneCampaign'
  <2>1. ASSUME NEW id \in Ids, NEW c \in Campaigns, GoesBy(c, id)'
        PROVE  GoesBy(c, id)
    <3>1. CASE id \in DOMAIN listings' /\ listings'[id].campaign = c
      BY <3>1, <1>1, <1>2 DEF GoesBy
    <3>2. CASE \E r \in late' : r.req.campaign = c /\ r.req.id = id
      BY <3>2, <1>4 DEF GoesBy
    <3>3. QED
      BY <2>1, <3>1, <3>2, <1>u DEF GoesBy, Busy
  <2>2. QED
    BY <2>1, NamesStep DEF OInv
<1>6. (Asked /\ Heard)'
  BY <1>u DEF Asked, Heard, Busy
<1>7. LateCalm'
  <2> SUFFICES ASSUME NEW s \in late' PROVE s.old /\ calm' <= 1
    BY DEF LateCalm
  <2>1. PICK r \in late : s = [req |-> r.req, old |-> TRUE] /\ ~r.old
    BY <1>4
  <2>2. calm <= 0
    BY <2>1 DEF OInv, LateCalm
  <2>3. QED
    BY <1>t, <1>3, <2>1, <2>2
<1>8. OrphanAge'
  <2> SUFFICES ASSUME NEW id \in DOMAIN listings
               PROVE  Tied(id)' \/ calm' <= listings'[id].age + 1
    BY <1>1 DEF OrphanAge
  <2>1. CASE Tied(id)
    BY <2>1, <1>2, <1>u DEF Tied
  <2>2. CASE calm <= listings[id].age + 1
    <3>1. listings[id].age \in 0 .. Ttl + 1 /\ listings'[id].age = UpTo(Ttl + 1, listings[id].age)
      BY <1>t, <1>2
    <3>2. \/ listings[id].age < Ttl + 1 /\ listings'[id].age = listings[id].age + 1
          \/ listings'[id].age = Ttl + 1
      BY <3>1, UpToBounds
    <3>3. calm \in Int /\ calm' \in Int
      BY <1>t, <1>3, UpToBounds
    <3>4. QED
      BY <2>2, <3>1, <3>2, <3>3, <1>3, <1>t
  <2>3. QED
    BY <2>1, <2>2 DEF OInv, OrphanAge
<1>9. QED
  BY <1>i, <1>5, <1>6, <1>7, <1>8 DEF OInv

LEMMA StepOrphans == OInv /\ [Next]_vars => OInv'
BY RunOnceOrphans, SyncCampaignOrphans, ExchangeOrphans, FailOrphans, ReceiveOrphans,
   MasterRestartOrphans, OthersOrphans, ArriveOrphans, TickOrphans DEF Next, Loop

\* Nothing the Master does not track is on the page once nothing has failed
\* for a time to live: lobby.go:113-120's "expires on its own", for any number
\* of campaigns, listings and requests under way.
THEOREM OrphansExpireInTime == Spec => []OrphansExpire
<1>1. OInv => OrphansExpire
  <2> SUFFICES ASSUME OInv, calm > Ttl + 1, NEW id \in Live PROVE Tied(id)
    BY DEF OrphansExpire, Tied, Tracked
  <2>1. id \in DOMAIN listings /\ listings[id].age <= Ttl
    BY DEF Live
  <2>2. calm \in 0 .. Horizon /\ listings[id].age \in 0 .. Ttl + 1
    BY <2>1, OrphanTypes DEF OInv
  <2>3. ~(calm <= listings[id].age + 1)
    BY <2>1, <2>2 DEF Horizon
  <2>4. QED
    BY <2>1, <2>3 DEF OInv, OrphanAge
<1>2. QED
  BY <1>1, InitOrphans, StepOrphans, PTL DEF Spec
================================================================================
