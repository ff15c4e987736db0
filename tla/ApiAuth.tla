-------------------------------- MODULE ApiAuth --------------------------------
(***************************************************************************)
(* Logins and sessions of the API server (api/src/auth.rs and              *)
(* middleware.rs) over PostgreSQL.  A handler runs several statements, and *)
(* each of them is a transaction of its own: between any two the handlers  *)
(* of other requests run, and a handler is dropped when a statement fails, *)
(* its client hangs up or the server stops.                                *)
(*                                                                         *)
(* A request occupies a slot and `req` says which statement it runs next.  *)
(* The first statement of a request is the step that begins it, since a    *)
(* request that has run none is invisible.  E-mail addresses stand for the *)
(* users: the column is UNIQUE and no user is ever deleted or changed.     *)
(* Left out: names, roles and times other than expiry, the rate limiter    *)
(* (a rejected request has not begun), and wrong passwords or signatures,  *)
(* which end a request before it changes anything.                         *)
(***************************************************************************)
EXTENDS Naturals, FiniteSets, SequencesExt

CONSTANTS
  Slots,         \* requests that run at the same time
  Emails,        \* addresses, and thereby users
  Links,         \* tokens of magic links
  Challenges,    \* ids of WebAuthn challenges
  Sessions,      \* ids of sessions
  None,          \* SQL NULL, and nothing
  MaxExpired,    \* bound: expired sessions whose rows are still there
  MaxFaults      \* bound: requests dropped in one behaviour

ASSUME NoneAssumption == None \notin Slots \cup Emails \cup Links \cup Challenges \cup Sessions
ASSUME ItemsAssumption ==
  /\ Links \cap Challenges = {} /\ Links \cap Sessions = {}
  /\ Challenges \cap Sessions = {}
ASSUME BoundsAssumption == MaxExpired \in Nat /\ MaxFaults \in Nat
ASSUME SlotsAssumption == IsFiniteSet(Slots)

VARIABLES
  users,         \* auth_users: the addresses registered
  hashed,        \* the users that have a password_hash
  links,         \* auth_magic_links
  pending,       \* auth_webauthn_challenges: those not expired, by expires_at
  started,       \* for whom a challenge was made, and for what
  passkeys,      \* auth_passkeys: whose credential answered a challenge
  sessions,      \* auth_sessions; a deleted row keeps its user and origin
  req,           \* the requests in progress
  faults         \* requests dropped so far

vars == <<users, hashed, links, pending, started, passkeys, sessions, req, faults>>

Items == Links \cup Challenges \cup Sessions

Absent    == [status |-> "absent", email |-> None]
NoUse     == [user |-> None, kind |-> "none"]
NoSession == [status |-> "absent", user |-> None, origin |-> None, slot |-> None]
Idle      == [at |-> "idle", user |-> None, item |-> None, session |-> None]

FreshLinks      == {l \in Links : links[l].status = "absent"}
FreshChallenges == {ch \in Challenges : started[ch] = NoUse}
FreshSessions   == {s \in Sessions : sessions[s] = NoSession}

\* A request that is at the statement `at`, with what it has read so far.
Running(at, user, item, session) ==
  [at |-> at, user |-> user, item |-> item, session |-> session]

Goes(c, request) == req' = [req EXCEPT ![c] = request]

At(c, at) == req[c].at = at

Init ==
  /\ users = {} /\ hashed = {} /\ pending = <<>> /\ faults = 0
  /\ links = [l \in Links |-> Absent]
  /\ started = [ch \in Challenges |-> NoUse]
  /\ passkeys = [ch \in Challenges |-> None]
  /\ sessions = [s \in Sessions |-> NoSession]
  /\ req = [c \in Slots |-> Idle]

-----------------------------------------------------------------------------
(* Magic links                                                             *)

\* request_magic_link: the row is there whether or not the mail can be sent.
RequestMagicLink(l, e) ==
  /\ links' = [links EXCEPT ![l] = [status |-> "live", email |-> e]]
  /\ UNCHANGED <<users, hashed, pending, started, passkeys, sessions, req, faults>>

\* Faulty variant: the column `used` is not looked at.
UsableAgain(l) == links[l].status \in {"live", "used"}

Usable(l) == links[l].status = "live"

\* login_via_magic_link reads the row; a used or expired link is an error.
ReadLink(c, l) ==
  /\ At(c, "idle")
  /\ Usable(l)
  /\ Goes(c, Running("spendLink", links[l].email, l, None))
  /\ UNCHANGED <<users, hashed, links, pending, started, passkeys, sessions, faults>>

\* The UPDATE has no condition on `used` and nobody looks at its row count.
SpendLink(c) ==
  /\ At(c, "spendLink")
  /\ links' = [links EXCEPT ![req[c].item].status = "used"]
  /\ Goes(c, [req[c] EXCEPT !.at = "findUser"])
  /\ UNCHANGED <<users, hashed, pending, started, passkeys, sessions, faults>>

\* Faulty variants: every address has its user; an unknown one is an error.
AfterLookupBlind(c)  == [req[c] EXCEPT !.at = "openSession"]
AfterLookupStrict(c) == IF req[c].user \in users
                        THEN [req[c] EXCEPT !.at = "openSession"] ELSE Idle

AfterLookup(c) ==
  [req[c] EXCEPT !.at = IF req[c].user \in users THEN "openSession" ELSE "createUser"]

FindUser(c) ==
  /\ At(c, "findUser")
  /\ Goes(c, AfterLookup(c))
  /\ UNCHANGED <<users, hashed, links, pending, started, passkeys, sessions, faults>>

\* The INSERT fails when another request has registered the address meanwhile.
CreateUser(c) ==
  /\ At(c, "createUser")
  /\ users' = users \cup {req[c].user}
  /\ Goes(c, IF req[c].user \in users THEN Idle ELSE [req[c] EXCEPT !.at = "openSession"])
  /\ UNCHANGED <<hashed, links, pending, started, passkeys, sessions, faults>>

\* The last statement of every login: by link, by password, by passkey.
OpenSession(c, s) ==
  /\ At(c, "openSession")
  /\ sessions' = [sessions EXCEPT ![s] = [status |-> "live", user |-> req[c].user,
                                          origin |-> req[c].item, slot |-> c]]
  /\ Goes(c, IF req[c].item \in Challenges THEN [req[c] EXCEPT !.at = "deleteChallenge"]
                                           ELSE Idle)
  /\ UNCHANGED <<users, hashed, links, pending, started, passkeys, faults>>

-----------------------------------------------------------------------------
(* Passwords                                                               *)

\* register_password_user: SELECT EXISTS; a known address is an error.
CheckAddress(c, e) ==
  /\ At(c, "idle")
  /\ e \notin users
  /\ Goes(c, Running("register", e, None, None))
  /\ UNCHANGED <<users, hashed, links, pending, started, passkeys, sessions, faults>>

\* Faulty variant: the loser of the race overwrites the row of the winner.
HashedOver(e) == hashed \cup {e}

Hashed(e) == IF e \in users THEN hashed ELSE hashed \cup {e}

Register(c) ==
  /\ At(c, "register")
  /\ users' = users \cup {req[c].user}
  /\ hashed' = Hashed(req[c].user)
  /\ Goes(c, Idle)
  /\ UNCHANGED <<links, pending, started, passkeys, sessions, faults>>

\* login_password_user reads the hash, which the password matches.
ReadPassword(c, e) ==
  /\ At(c, "idle")
  /\ e \in hashed
  /\ Goes(c, Running("openSession", e, None, None))
  /\ UNCHANGED <<users, hashed, links, pending, started, passkeys, sessions, faults>>

-----------------------------------------------------------------------------
(* auth_middleware: the handler runs later, with the session it has read.  *)

\* A user sends a request with the session's token; a missing row is a 401.
Authenticate(c, s, op, item) ==
  /\ At(c, "idle")
  /\ sessions[s].status = "live"
  /\ Goes(c, Running(op, sessions[s].user, item, s))
  /\ UNCHANGED <<users, hashed, links, pending, started, passkeys, sessions, faults>>

\* The row has expired: the middleware reads it, then deletes it.
ReadExpired(c, s) ==
  /\ At(c, "idle")
  /\ sessions[s].status = "expired"
  /\ Goes(c, Running("purge", sessions[s].user, s, s))
  /\ UNCHANGED <<users, hashed, links, pending, started, passkeys, sessions, faults>>

\* Faulty variant: the row is marked, and nobody looks at the mark.
WithoutMarked(gone) ==
  [s \in Sessions |-> IF s \in gone THEN [sessions[s] EXCEPT !.status = "revoked"]
                                    ELSE sessions[s]]

\* The rows deleted keep what they were for.
Without(gone) ==
  [s \in Sessions |-> IF s \in gone THEN [sessions[s] EXCEPT !.status = "deleted"]
                                    ELSE sessions[s]]

Rows == {s \in Sessions : sessions[s].status \in {"live", "expired"}}

Purge(c) ==
  /\ At(c, "purge")
  /\ sessions' = Without(Rows \cap {req[c].item})
  /\ Goes(c, Idle)
  /\ UNCHANGED <<users, hashed, links, pending, started, passkeys, faults>>

\* Faulty variant: the DELETE lacks the condition on the user.
AnyRow(target, user) == Rows \cap {target}

RevokedRow(target, user) == {s \in Rows : s = target /\ sessions[s].user = user}

\* revoke_session: somebody else's session, or none, is "not found".
RevokeSession(c) ==
  /\ At(c, "revoke")
  /\ sessions' = Without(RevokedRow(req[c].item, req[c].user))
  /\ Goes(c, Idle)
  /\ UNCHANGED <<users, hashed, links, pending, started, passkeys, faults>>

OtherRows(user, current) == {s \in Rows : sessions[s].user = user /\ s # current}

\* revoke_other_sessions, whether or not the current one is still there.
RevokeOthers(c) ==
  /\ At(c, "revokeOthers")
  /\ sessions' = Without(OtherRows(req[c].user, req[c].session))
  /\ Goes(c, Idle)
  /\ UNCHANGED <<users, hashed, links, pending, started, passkeys, faults>>

\* What list_active_sessions returns.
Listed(user) == {s \in Sessions : sessions[s].status = "live" /\ sessions[s].user = user}

-----------------------------------------------------------------------------
(* Passkeys                                                                *)

Started(ch, user, kind) ==
  /\ started' = [started EXCEPT ![ch] = [user |-> user, kind |-> kind]]
  /\ pending' = Append(pending, ch)

\* register_passkey_start
StartRegistration(c, ch) ==
  /\ At(c, "startPasskey")
  /\ Started(ch, req[c].user, "registration")
  /\ Goes(c, Idle)
  /\ UNCHANGED <<users, hashed, links, passkeys, sessions, faults>>

\* Faulty variant: WHERE without the address.
AnyRegistration(ch, user) == started[ch].kind = "registration"

Registration(ch, user) == started[ch] = [user |-> user, kind |-> "registration"]

\* ORDER BY expires_at DESC LIMIT 1
IsLatest(ch, user) ==
  \E i \in DOMAIN pending :
    /\ pending[i] = ch /\ Registration(ch, user)
    /\ \A j \in DOMAIN pending : j > i => ~Registration(pending[j], user)

\* register_passkey_finish checks the answer against the latest challenge of
\* the user, which need not be the one the authenticator answered.
ReadLatest(c) ==
  /\ At(c, "finishPasskey")
  /\ Goes(c, IF IsLatest(req[c].item, req[c].user)
             THEN [req[c] EXCEPT !.at = "savePasskey"] ELSE Idle)
  /\ UNCHANGED <<users, hashed, links, pending, started, passkeys, sessions, faults>>

\* A credential is stored once: credential_id is UNIQUE.
SavePasskey(c) ==
  /\ At(c, "savePasskey")
  /\ LET ch == req[c].item
         new == passkeys[ch] = None
     IN  /\ passkeys' = IF new THEN [passkeys EXCEPT ![ch] = req[c].user] ELSE passkeys
         /\ Goes(c, IF new THEN [req[c] EXCEPT !.at = "deleteChallenge"] ELSE Idle)
  /\ UNCHANGED <<users, hashed, links, pending, started, sessions, faults>>

\* Faulty variant: the challenge stays.
Kept(ch) == pending

Removed(ch) ==
  IF Contains(pending, ch)
  THEN RemoveAt(pending, CHOOSE i \in DOMAIN pending : pending[i] = ch) ELSE pending

\* The result of this DELETE is ignored.
DeleteChallenge(c) ==
  /\ At(c, "deleteChallenge")
  /\ pending' = Removed(req[c].item)
  /\ Goes(c, Idle)
  /\ UNCHANGED <<users, hashed, links, started, passkeys, sessions, faults>>

\* login_passkey_start.  Its two SELECTs find the user and a passkey, which no
\* statement ever removes, so that they count as one step with the INSERT.
StartLogin(ch, e) ==
  /\ \E k \in Challenges : passkeys[k] = e
  /\ Started(ch, e, "login")
  /\ UNCHANGED <<users, hashed, links, passkeys, sessions, req, faults>>

\* login_passkey_finish reads the challenge, which the signature answers, and
\* its user.
ReadChallenge(c, ch) ==
  /\ At(c, "idle")
  /\ Contains(pending, ch)
  /\ started[ch].kind = "login"
  /\ Goes(c, Running("openSession", started[ch].user, ch, None))
  /\ UNCHANGED <<users, hashed, links, pending, started, passkeys, sessions, faults>>

-----------------------------------------------------------------------------
(* Time and faults                                                         *)

LinkExpires(l) ==
  /\ Usable(l)
  /\ links' = [links EXCEPT ![l].status = "expired"]
  /\ UNCHANGED <<users, hashed, pending, started, passkeys, sessions, req, faults>>

\* Every challenge lives for ten minutes, so that the oldest expires first.
ChallengeExpires ==
  /\ pending # <<>>
  /\ pending' = Tail(pending)
  /\ UNCHANGED <<users, hashed, links, started, passkeys, sessions, req, faults>>

SessionExpires(s) ==
  /\ sessions[s].status = "live"
  /\ Cardinality({t \in Sessions : sessions[t].status = "expired"}) < MaxExpired
  /\ sessions' = [sessions EXCEPT ![s].status = "expired"]
  /\ UNCHANGED <<users, hashed, links, pending, started, passkeys, req, faults>>

\* A statement fails, the client hangs up or the server stops: the handler is
\* dropped before its next statement.
Dropped(c) ==
  /\ ~At(c, "idle")
  /\ faults < MaxFaults
  /\ faults' = faults + 1
  /\ Goes(c, Idle)
  /\ UNCHANGED <<users, hashed, links, pending, started, passkeys, sessions>>

Begin(c) ==
  \/ \E l \in Links : ReadLink(c, l)
  \/ \E e \in Emails : CheckAddress(c, e) \/ ReadPassword(c, e)
  \/ \E ch \in Challenges : ReadChallenge(c, ch)
  \/ \E s \in Sessions :
       \/ ReadExpired(c, s)
       \/ \E op \in {"startPasskey", "revokeOthers"} : Authenticate(c, s, op, None)
       \/ \E ch \in Challenges \ FreshChallenges : Authenticate(c, s, "finishPasskey", ch)
       \/ \E t \in Sessions \ FreshSessions : Authenticate(c, s, "revoke", t)

Continue(c) ==
  \/ SpendLink(c) \/ FindUser(c) \/ CreateUser(c) \/ Register(c)
  \/ \E s \in FreshSessions : OpenSession(c, s)
  \/ Purge(c) \/ RevokeSession(c) \/ RevokeOthers(c)
  \/ \E ch \in FreshChallenges : StartRegistration(c, ch)
  \/ ReadLatest(c) \/ SavePasskey(c) \/ DeleteChallenge(c)

TimePasses ==
  \/ \E l \in Links : LinkExpires(l)
  \/ ChallengeExpires
  \/ \E s \in Sessions : SessionExpires(s)

Next ==
  \/ \E l \in FreshLinks, e \in Emails : RequestMagicLink(l, e)
  \/ \E ch \in FreshChallenges, e \in Emails : StartLogin(ch, e)
  \/ \E c \in Slots : Begin(c) \/ Continue(c) \/ Dropped(c)
  \/ TimePasses

Spec == Init /\ [][Next]_vars

-----------------------------------------------------------------------------
(* Properties                                                              *)

Places == {"idle", "spendLink", "findUser", "createUser", "openSession", "register",
           "purge", "revoke", "revokeOthers", "startPasskey", "finishPasskey",
           "savePasskey", "deleteChallenge"}

\* The tables and the requests have their types.
TypeOK ==
  /\ users \subseteq Emails /\ hashed \subseteq Emails
  /\ links \in [Links -> [status : {"absent", "live", "used", "expired"},
                          email : Emails \cup {None}]]
  /\ pending \in Seq(Challenges)
  /\ started \in [Challenges -> [user : Emails \cup {None},
                                 kind : {"none", "registration", "login"}]]
  /\ passkeys \in [Challenges -> Emails \cup {None}]
  /\ sessions \in [Sessions -> [status : {"absent", "live", "expired", "deleted"},
                                user : Emails \cup {None},
                                origin : Links \cup Challenges \cup {None},
                                slot : Slots \cup {None}]]
  /\ req \in [Slots -> [at : Places, user : Emails \cup {None},
                        item : Items \cup {None}, session : Sessions \cup {None}]]
  /\ faults \in 0..MaxFaults

\* Who opened a session with an item.
OpenedWith(item) == {s \in Sessions : sessions[s].origin = item}

\* A session belongs to a registered user, and to the one its link was sent to,
\* its challenge was made for or its password belongs to.
SessionsBelong ==
  \A s \in Sessions : sessions[s] # NoSession =>
    LET o == sessions[s].origin
    IN  /\ sessions[s].user \in users
        /\ o \in Links => links[o].email = sessions[s].user
        /\ o \in Challenges => started[o] = [user |-> sessions[s].user, kind |-> "login"]
        /\ o = None => sessions[s].user \in hashed

\* A link is spent before it opens a session.  Only logins that had all read
\* the row by then open more than one, one each: the slot of a login that has
\* opened its session never gets a second one from the same link.
LinkOpensOnce ==
  /\ \A l \in Links : OpenedWith(l) # {} => links[l].status = "used"
  /\ \A s, t \in Sessions :
       /\ s # t
       /\ sessions[s].origin \in Links
       /\ sessions[s].origin = sessions[t].origin
       => sessions[s].slot # sessions[t].slot

\* A challenge is deleted after the session is there.  The same holds for it
\* only while no request is dropped before that DELETE.
ChallengeOpensOnce ==
  faults = 0 =>
    \A s, t \in Sessions :
      /\ s # t
      /\ sessions[s].origin \in Challenges
      /\ sessions[s].origin = sessions[t].origin
      => sessions[s].slot # sessions[t].slot

\* Links that were spent for no session: nobody is logging in with them.
Stranded(e) ==
  {l \in Links : /\ links[l] = [status |-> "used", email |-> e]
                 /\ OpenedWith(l) = {}
                 /\ \A c \in Slots : req[c].item # l}

\* A link is lost only with a dropped request, or with a request that finds
\* its user registered behind its back; all of those ran when it happened.
LinksLost ==
  \A e \in Emails :
    Cardinality(Stranded(e)) <=
      faults + (IF e \in users THEN Cardinality(Slots) - 1 ELSE 0)

\* A passkey belongs to the user its challenge was made for, however the
\* requests of several users and devices overlap.
PasskeyOfItsChallenge ==
  \A ch \in Challenges : passkeys[ch] # None =>
    /\ started[ch] = [user |-> passkeys[ch], kind |-> "registration"]
    /\ passkeys[ch] \in users

\* Nobody revokes a session of somebody else: a row disappears by a request of
\* its own user, or after it has expired.
OnlyOwnSessionsRevoked ==
  [][\A s \in Sessions :
       sessions[s].status = "live" /\ sessions'[s].status = "deleted" =>
         \E c \in Slots : /\ req[c].user = sessions[s].user
                          /\ req[c].at \in {"revoke", "revokeOthers"}
                          /\ req'[c] = Idle]_vars

\* A user who was created without a password never gets one.
PasswordsOnlyAtRegistration ==
  [][\A e \in users : e \in hashed' => e \in hashed]_vars
================================================================================
