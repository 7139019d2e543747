---------------------------------- MODULE Login ----------------------------------
(***************************************************************************)
(* Logging in with Discord (master/internal/auth, store/sqlite_account.go) *)
(* A login link is a state token kept in memory until the browser comes    *)
(* back with it; the callback takes it, asks Discord who came, and stores  *)
(* a session row whose token the player presents on every connection.      *)
(* A callback may come twice, late, or after a restart, which loses the    *)
(* links but not the sessions.                                             *)
(***************************************************************************)
EXTENDS Naturals, FiniteSets

CONSTANTS
  Links,       \* random state tokens
  Callbacks,   \* requests to the callback; the session one stores has its name
  StateTtl,    \* oauthStateTTL
  SessionTtl,  \* sessionTTL
  MaxClock     \* bound: how long the clock runs

ASSUME TtlAssumption == StateTtl \in Nat /\ SessionTtl \in Nat \ {0}
ASSUME MaxClockAssumption == MaxClock \in Nat

VARIABLES
  clock,
  link,        \* DiscordOAuthHandler.state: when each was made
  callback,    \* what each callback is doing
  rows,        \* oauth_sessions: token and expiry
  \* history
  issued,      \* links ever made
  minted,      \* sessions ever stored: the callback, its link and age, the expiry
  loggedOut,   \* tokens a logout deleted
  admitted     \* tokens of the connections that are open

loginVars == <<clock, link, callback, rows, issued, minted, loggedOut, admitted>>

Unmade == MaxClock + 1
Waiting == [pc |-> "idle"]

LoginInit ==
  /\ clock = 0
  /\ link = [l \in Links |-> Unmade]
  /\ callback = [c \in Callbacks |-> Waiting]
  /\ rows = {} /\ issued = {} /\ minted = {} /\ loggedOut = {}
  /\ admitted = {}

\* pruneStateLocked, then what the handler does with the links.
Pruned == [l \in Links |-> IF link[l] + StateTtl < clock THEN Unmade ELSE link[l]]

HandleLogin(l) ==
  /\ l \notin issued
  /\ link' = [Pruned EXCEPT ![l] = clock]
  /\ issued' = issued \cup {l}
  /\ UNCHANGED <<clock, callback, rows, minted, loggedOut, admitted>>

\* Mutant: the link is deleted when the login is complete, not when it is taken.
TakeKeeping(l) == link' = Pruned

\* Looked up and deleted under one lock.
Take(l) == link' = [Pruned EXCEPT ![l] = Unmade]

\* handleCallback, up to the calls to Discord.
TakeLink(c, l) ==
  /\ callback[c].pc = "idle"
  /\ Take(l)
  /\ callback' = [callback EXCEPT ![c] =
       IF Pruned[l] = Unmade THEN [pc |-> "refused"] ELSE [pc |-> "exchange", link |-> l, age |-> clock - link[l]]]
  /\ UNCHANGED <<clock, rows, issued, minted, loggedOut, admitted>>

\* Mutant: the expiry is never set.
ExpiryUnset == 0

Expiry == clock + SessionTtl

\* exchangeCode, fetchUser, UpsertAccount and CreateOAuthSession, each of which
\* may fail; the session lives from now on.
CreateSession(c) ==
  /\ callback[c].pc = "exchange"
  /\ \/ /\ rows' = rows \cup {[token |-> c, expires |-> Expiry]}
        /\ minted' = minted \cup {[token |-> c, expires |-> Expiry, link |-> callback[c].link, age |-> callback[c].age]}
        /\ callback' = [callback EXCEPT ![c] = [pc |-> "done"]]
     \/ callback' = [callback EXCEPT ![c] = [pc |-> "refused"]] /\ UNCHANGED <<rows, minted>>
  /\ UNCHANGED <<clock, link, issued, loggedOut, admitted>>

Current(r) == r.expires > clock

Accepted(r) == Current(r)

\* DiscordOAuthProvider.Authorize: LookupOAuthSession deletes a row that has
\* expired.
Authorize(r) ==
  /\ r \in rows /\ r.token \notin admitted
  /\ IF Accepted(r)
       THEN admitted' = admitted \cup {r.token} /\ UNCHANGED rows
       ELSE rows' = rows \ {r} /\ UNCHANGED admitted
  /\ UNCHANGED <<clock, link, callback, issued, minted, loggedOut>>

\* A connection is asked for its token when it is made, not again.
HangUp(c) ==
  /\ c \in admitted /\ admitted' = admitted \ {c}
  /\ UNCHANGED <<clock, link, callback, rows, issued, minted, loggedOut>>

HandleLogout(r) ==
  /\ r \in rows
  /\ rows' = rows \ {r}
  /\ loggedOut' = loggedOut \cup {r.token}
  /\ UNCHANGED <<clock, link, callback, issued, minted, admitted>>

TimePasses ==
  /\ clock < MaxClock /\ clock' = clock + 1
  /\ UNCHANGED <<link, callback, rows, issued, minted, loggedOut, admitted>>

\* Callbacks and links are gone; start-up deletes the sessions that expired.
LoginRestart ==
  /\ link' = [l \in Links |-> Unmade]
  /\ callback' = [c \in Callbacks |-> IF callback[c].pc = "exchange" THEN [pc |-> "refused"] ELSE callback[c]]
  /\ rows' = {r \in rows : Current(r)}
  /\ admitted' = {}
  /\ UNCHANGED <<clock, issued, minted, loggedOut>>

LoginNext ==
  \/ \E l \in Links : HandleLogin(l) \/ \E c \in Callbacks : TakeLink(c, l)
  \/ \E c \in Callbacks : CreateSession(c) \/ HangUp(c)
  \/ \E r \in rows : Authorize(r) \/ HandleLogout(r)
  \/ TimePasses
  \/ LoginRestart

LoginSpec == LoginInit /\ [][LoginNext]_loginVars

--------------------------------------------------------------------------------
(* Properties.                                                             *)

Doing ==
  [pc : {"idle", "refused", "done"}] \cup [pc : {"exchange"}, link : Links, age : 0..MaxClock]

LoginTypeOK ==
  /\ clock \in 0..MaxClock
  /\ link \in [Links -> 0..Unmade]
  /\ callback \in [Callbacks -> Doing]
  /\ rows \subseteq [token : Callbacks, expires : 1..(MaxClock + SessionTtl)]
  /\ issued \subseteq Links /\ loggedOut \subseteq Callbacks
  /\ minted \subseteq [token : Callbacks, expires : 1..(MaxClock + SessionTtl), link : Links, age : 0..MaxClock]
  /\ admitted \subseteq Callbacks

\* A login link brings about at most one session, and only while it is fresh;
\* a session lasts, over restarts and clean-ups, until it expires or is logged
\* out, and after that it admits nobody.
LoginsAreSpentOnce ==
  /\ [](\A m, n \in minted : m.age <= StateTtl /\ (m.link = n.link => m = n))
  /\ [](\A m \in minted : m.token \in loggedOut \/ ~Current(m) \/ \E r \in rows : r.token = m.token)
  /\ [][\A c \in admitted' \ admitted :
          c \notin loggedOut /\ \E m \in minted : m.token = c /\ Current(m)]_loginVars
================================================================================
