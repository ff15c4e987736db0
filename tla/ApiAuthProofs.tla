----------------------------- MODULE ApiAuthProofs -----------------------------
(***************************************************************************)
(* Proofs about ApiAuth for any number of overlapping requests, users,     *)
(* links, challenges, sessions and dropped requests.                       *)
(*                                                                         *)
(* What a request has read may be stale when its next statement runs.      *)
(* `Fits(c)` is what is still true of it: the tables only ever change as   *)
(* `Onward` says, and a request that fitted before such a change fits      *)
(* after it.  `Spent(c)` is what keeps the slot of a login from using its  *)
(* link or challenge again.                                                *)
(***************************************************************************)
EXTENDS ApiAuth, SequenceTheorems, TLAPS

USE NoneAssumption, ItemsAssumption, BoundsAssumption

LinksOK ==
  /\ hashed \subseteq users
  /\ \A l \in Links : links[l].status = "absent" => links[l].email = None
  /\ \A l \in Links : links[l].status # "absent" => links[l].email \in Emails

Queue ==
  /\ \A i, j \in DOMAIN pending : pending[i] = pending[j] => i = j
  /\ \A i \in DOMAIN pending : started[pending[i]] # NoUse
  /\ \A ch \in Challenges : started[ch] # NoUse => started[ch].user \in users

\* What the next statement of request c may rely on.
Fits(c) ==
  LET r == req[c]
  IN  /\ r.at # "idle" => r.user \in Emails
      /\ r.at \in {"spendLink", "findUser", "createUser"} =>
           r.item \in Links /\ links[r.item].email = r.user
      /\ r.at \in {"findUser", "createUser"} => links[r.item].status = "used"
      /\ r.at = "openSession" =>
           /\ r.user \in users /\ r.item \in Links \cup Challenges \cup {None}
           /\ r.item \in Links => links[r.item] = [status |-> "used", email |-> r.user]
           /\ r.item \in Challenges => started[r.item] = [user |-> r.user, kind |-> "login"]
           /\ r.item = None => r.user \in hashed
      /\ r.at \in {"deleteChallenge", "finishPasskey", "savePasskey"} => r.item \in Challenges
      /\ r.at \in {"finishPasskey", "savePasskey", "startPasskey"} => r.user \in users
      /\ r.at = "savePasskey" => started[r.item] = [user |-> r.user, kind |-> "registration"]
      /\ r.at = "purge" => r.item \in Sessions /\ sessions[r.item].status \in {"expired", "deleted"}
      /\ r.at \in {"register", "startPasskey", "revokeOthers", "idle"} => r.item = None
      /\ r.at = "revoke" => r.item \in Sessions

\* Whether challenge o is past opening another session in slot c.
Closed(c, o) ==
  /\ req[c].item = o => req[c].at \in {"deleteChallenge", "finishPasskey"}
  /\ Contains(pending, o) => req[c].at = "deleteChallenge" /\ req[c].item = o

\* The slot of a login does not hold its link again, and holds its challenge
\* only to delete it, unless it was dropped before that.
Spent(c) ==
  \A s \in Sessions : sessions[s].slot = c =>
    LET o == sessions[s].origin
    IN  /\ o \in Links => req[c].item # o
        /\ faults = 0 /\ o \in Challenges => Closed(c, o)

\* A session of a link or a challenge has a slot, which no other session of it has.
Apart ==
  \A s, t \in Sessions :
    /\ sessions[s].origin \in Links \/ (faults = 0 /\ sessions[s].origin \in Challenges)
    /\ sessions[s].origin = sessions[t].origin
    /\ sessions[s].slot = sessions[t].slot
    => s = t

SpentFirst ==
  \A s \in Sessions :
    /\ sessions[s].origin \in Links => links[sessions[s].origin].status = "used"
    /\ sessions[s] # NoSession => sessions[s].slot \in Slots

IInv ==
  /\ TypeOK /\ LinksOK /\ Queue /\ SessionsBelong /\ PasskeyOfItsChallenge
  /\ SpentFirst /\ Apart
  /\ \A c \in Slots : Fits(c) /\ Spent(c)

-----------------------------------------------------------------------------
(* How the tables change                                                   *)

GoneStaysGone ==
  \A s \in Sessions :
    sessions[s].status \in {"expired", "deleted"} => sessions'[s].status \in {"expired", "deleted"}

\* Rows of sessions are inserted by OpenSession only.
SameSessions ==
  /\ GoneStaysGone
  /\ \A s \in Sessions :
       /\ sessions[s] = NoSession <=> sessions'[s] = NoSession
       /\ sessions'[s].user = sessions[s].user /\ sessions'[s].origin = sessions[s].origin
       /\ sessions'[s].slot = sessions[s].slot

\* Users stay, a link keeps its address and stays used, a challenge stays what
\* it was made for, and only a new one becomes pending.
Onward ==
  /\ users \subseteq users' /\ hashed \subseteq hashed'
  /\ \A l \in Links : links[l].status # "absent" => links'[l].email = links[l].email
  /\ \A l \in Links : links[l].status = "used" => links'[l].status = "used"
  /\ \A ch \in Challenges : started[ch] # NoUse => started'[ch] = started[ch]
  /\ \A ch \in Challenges : Contains(pending', ch) => Contains(pending, ch) \/ started[ch] = NoUse
  /\ faults \in Nat /\ faults' \in Nat /\ faults <= faults'

LEMMA FitsKept ==
  ASSUME IInv, TypeOK', Onward, GoneStaysGone, NEW c \in Slots, req'[c] = req[c]
  PROVE  Fits(c)'
<1> DEFINE r == req[c]
<1>1. Fits(c) /\ r.item \in Items \cup {None}
  BY DEF IInv, TypeOK
<1>2. r.item \in Links => /\ links[r.item].email \in Emails => links'[r.item].email = links[r.item].email
                          /\ links[r.item].status = "used" => links'[r.item].status = "used"
  BY DEF Onward, IInv, LinksOK
<1>3. ASSUME r.at = "openSession"
      PROVE  /\ r.user \in users' /\ r.item \in Links \cup Challenges \cup {None}
             /\ r.item \in Links => links'[r.item] = [status |-> "used", email |-> r.user]
             /\ r.item \in Challenges => started'[r.item] = [user |-> r.user, kind |-> "login"]
             /\ r.item = None => r.user \in hashed'
  <2>1. r.user \in users' /\ (r.item = None => r.user \in hashed')
        /\ r.item \in Links \cup Challenges \cup {None}
    BY <1>1, <1>3 DEF Fits, Onward
  <2>2. r.item \in Links => links'[r.item] = [status |-> "used", email |-> r.user]
    <3>1. r.item \in Links => links'[r.item].status = "used" /\ links'[r.item].email = r.user
      BY <1>1, <1>3 DEF Fits, Onward
    <3>2. r.item \in Links => links'[r.item] = [status |-> links'[r.item].status,
                                               email |-> links'[r.item].email]
      BY DEF TypeOK
    <3> QED BY <3>1, <3>2
  <2>3. r.item \in Challenges => started'[r.item] = [user |-> r.user, kind |-> "login"]
    BY <1>1, <1>3 DEF Fits, Onward, NoUse
  <2> QED BY <2>1, <2>2, <2>3
<1>4. r.at = "savePasskey" => started'[r.item] = [user |-> r.user, kind |-> "registration"]
  BY <1>1 DEF Fits, Onward, NoUse
<1>5. r.at = "purge" => r.item \in Sessions /\ sessions'[r.item].status \in {"expired", "deleted"}
  BY <1>1 DEF Fits, GoneStaysGone
<1>6. users \subseteq users'
  BY DEF Onward
<1> QED BY <1>1, <1>2, <1>3, <1>4, <1>5, <1>6 DEF Fits

\* A session whose origin is a challenge is of one that has been started.
LEMMA OriginStarted ==
  ASSUME IInv, NEW s \in Sessions, sessions[s].origin \in Challenges
  PROVE  started[sessions[s].origin] # NoUse /\ started[sessions[s].origin].kind = "login"
<1>1. sessions[s] # NoSession
  BY DEF NoSession
<1>2. started[sessions[s].origin] = [user |-> sessions[s].user, kind |-> "login"]
  BY <1>1 DEF IInv, SessionsBelong
<1> QED BY <1>2 DEF NoUse

\* The slot keeps its request, or its next one is no login with the same item.
LEMMA SpentGoes ==
  ASSUME IInv, Onward, SameSessions, NEW c \in Slots, ~At(c, "deleteChallenge"),
         \A s \in Sessions : sessions[s].slot = c =>
           LET o == sessions[s].origin
           IN  /\ o \in Links => req'[c].item # o
               /\ faults = 0 /\ o \in Challenges /\ req'[c].item = o =>
                    req'[c].at \in {"deleteChallenge", "finishPasskey"}
  PROVE  Spent(c)'
<1> SUFFICES ASSUME NEW s \in Sessions, sessions'[s].slot = c, NEW o, o = sessions'[s].origin
             PROVE  /\ o \in Links => req'[c].item # o
                    /\ faults' = 0 /\ o \in Challenges => Closed(c, o)'
  BY DEF Spent, Closed
<1>1. sessions[s].origin = o /\ sessions[s].slot = c
  BY DEF SameSessions
<1>2. ASSUME faults' = 0, o \in Challenges PROVE Closed(c, o)'
  <2>1. faults = 0
    BY <1>2 DEF Onward
  <2>2. ~Contains(pending, o)
    BY <1>1, <1>2, <2>1 DEF IInv, Spent, Closed, At
  <2>3. ~Contains(pending', o)
    BY <1>1, <1>2, <2>2, OriginStarted DEF Onward
  <2> QED BY <1>1, <1>2, <2>1, <2>3 DEF Closed
<1> QED BY <1>1, <1>2

LEMMA SpentKept ==
  ASSUME IInv, Onward, SameSessions, NEW c \in Slots, req'[c] = req[c]
  PROVE  Spent(c)'
<1> SUFFICES ASSUME NEW s \in Sessions, sessions'[s].slot = c, NEW o, o = sessions'[s].origin
             PROVE  /\ o \in Links => req'[c].item # o
                    /\ faults' = 0 /\ o \in Challenges => Closed(c, o)'
  BY DEF Spent, Closed
<1>1. sessions[s].origin = o /\ sessions[s].slot = c /\ Spent(c)
  BY DEF SameSessions, IInv
<1>2. ASSUME faults' = 0, o \in Challenges PROVE Closed(c, o)'
  <2>1. faults = 0
    BY <1>2 DEF Onward
  <2>2. Closed(c, o)
    BY <1>1, <1>2, <2>1 DEF Spent
  <2>3. Contains(pending', o) => Contains(pending, o)
    BY <1>1, <1>2, OriginStarted DEF Onward
  <2> QED BY <2>2, <2>3 DEF Closed
<1> QED BY <1>1, <1>2 DEF Spent

\* Every step that opens no session.
LEMMA StepKeeps ==
  ASSUME IInv, TypeOK', Onward, SameSessions, LinksOK', Queue', PasskeyOfItsChallenge',
         \A c \in Slots : req'[c] = req[c] \/ (Fits(c)' /\ Spent(c)')
  PROVE  IInv'
<1>1. \A c \in Slots : Fits(c)' /\ Spent(c)'
  BY FitsKept, SpentKept DEF SameSessions
<1>2. SessionsBelong'
  <2> SUFFICES ASSUME NEW s \in Sessions, sessions'[s] # NoSession
               PROVE  LET o == sessions'[s].origin
                      IN  /\ sessions'[s].user \in users'
                          /\ o \in Links => links'[o].email = sessions'[s].user
                          /\ o \in Challenges => started'[o] = [user |-> sessions'[s].user, kind |-> "login"]
                          /\ o = None => sessions'[s].user \in hashed'
    BY DEF SessionsBelong
  <2> DEFINE o == sessions[s].origin
             u == sessions[s].user
  <2>1. sessions[s] # NoSession /\ sessions'[s].origin = o /\ sessions'[s].user = u
    BY DEF SameSessions
  <2>2. /\ u \in users
        /\ o \in Links => links[o].email = u
        /\ o \in Challenges => started[o] = [user |-> u, kind |-> "login"]
        /\ o = None => u \in hashed
    BY <2>1 DEF IInv, SessionsBelong
  <2>3. o \in Links => links[o].status # "absent"
    BY <2>1 DEF IInv, SpentFirst
  <2>4. o \in Challenges => started'[o] = started[o]
    BY OriginStarted DEF Onward
  <2> QED BY <2>1, <2>2, <2>3, <2>4 DEF Onward
<1>3. SpentFirst'
  BY DEF IInv, SpentFirst, SameSessions, Onward
<1>4. Apart'
  BY DEF IInv, Apart, SameSessions, Onward
<1> QED BY <1>1, <1>2, <1>3, <1>4 DEF IInv

-----------------------------------------------------------------------------
(* Requests that change no table but one                                   *)

Requests ==
  [at : Places, user : Emails \cup {None}, item : Items \cup {None},
   session : Sessions \cup {None}]

LEMMA Request ==
  ASSUME IInv, NEW c \in Slots
  PROVE  /\ req[c] \in Requests /\ Fits(c) /\ Spent(c)
         /\ req \in [Slots -> Requests]
         /\ faults \in Nat
  BY DEF IInv, TypeOK, Requests

LEMMA Goings ==
  ASSUME IInv, NEW c \in Slots, NEW r \in Requests, Goes(c, r)
  PROVE  /\ req' \in [Slots -> Requests] /\ req'[c] = r
         /\ \A d \in Slots \ {c} : req'[d] = req[d]
  BY DEF Goes, IInv, TypeOK, Requests

\* The sessions, and everything else that a step leaves alone, go onward.
LEMMA SameIsOnward ==
  ASSUME IInv
  PROVE  /\ UNCHANGED sessions => SameSessions
         /\ UNCHANGED <<users, hashed, links, started, pending, faults>> => Onward
         /\ UNCHANGED <<users, hashed, links>> => LinksOK'
         /\ UNCHANGED <<users, started, pending>> => Queue'
         /\ UNCHANGED <<users, started, passkeys>> => PasskeyOfItsChallenge'
  BY DEF SameSessions, GoneStaysGone, Onward, IInv, TypeOK, LinksOK, Queue,
         PasskeyOfItsChallenge, NoSession

\* Only the request changes: it is at another statement.
LEMMA ReadKeeps ==
  ASSUME IInv, NEW c \in Slots, NEW r \in Requests, Goes(c, r), ~At(c, "deleteChallenge"),
         UNCHANGED <<users, hashed, links, pending, started, passkeys, sessions, faults>>,
         Fits(c)',
         \A s \in Sessions : sessions[s].slot = c =>
           LET o == sessions[s].origin
           IN  /\ o \in Links => r.item # o
               /\ faults = 0 /\ o \in Challenges /\ r.item = o =>
                    r.at \in {"deleteChallenge", "finishPasskey"}
  PROVE  IInv'
<1>1. req'[c] = r /\ req' \in [Slots -> Requests] /\ \A d \in Slots \ {c} : req'[d] = req[d]
  BY Goings
<1>2. TypeOK'
  BY <1>1 DEF IInv, TypeOK, Requests
<1>3. Onward /\ SameSessions /\ LinksOK' /\ Queue' /\ PasskeyOfItsChallenge'
  BY SameIsOnward
<1>4. Spent(c)'
  BY <1>1, <1>3, SpentGoes
<1> QED BY <1>1, <1>2, <1>3, <1>4, StepKeeps

\* A request that is over, unless it leaves a challenge behind.
LEMMA OverFits ==
  ASSUME IInv, Onward, SameSessions, NEW c \in Slots, Goes(c, Idle),
         \/ ~At(c, "deleteChallenge") \/ faults' # 0
         \/ ~Contains(pending', req[c].item)
  PROVE  /\ req' \in [Slots -> Requests] /\ Fits(c)' /\ Spent(c)'
         /\ \A d \in Slots \ {c} : req'[d] = req[d]
<1>0. Idle \in Requests
  BY DEF Idle, Requests, Places
<1>1. req'[c] = Idle /\ req' \in [Slots -> Requests] /\ \A d \in Slots \ {c} : req'[d] = req[d]
  BY <1>0, Goings
<1>2. Fits(c)'
  BY <1>1 DEF Fits, Idle
<1>3. Spent(c)'
  <2> SUFFICES ASSUME NEW s \in Sessions, sessions'[s].slot = c, NEW o, o = sessions'[s].origin
               PROVE  /\ o \in Links => req'[c].item # o
                      /\ faults' = 0 /\ o \in Challenges => Closed(c, o)'
    BY DEF Spent, Closed
  <2>1. sessions[s].origin = o /\ sessions[s].slot = c /\ Spent(c)
    BY DEF SameSessions, IInv
  <2>2. ASSUME faults' = 0, o \in Challenges PROVE Closed(c, o)'
    <3>1. faults = 0
      BY <2>2 DEF Onward
    <3>2. Closed(c, o)
      BY <2>1, <2>2, <3>1 DEF Spent
    <3>3. ~Contains(pending', o)
      BY <2>1, <2>2, <3>2, OriginStarted DEF Onward, Closed, At
    <3> QED BY <1>1, <2>2, <3>3 DEF Closed, Idle
  <2> QED BY <1>1, <2>2 DEF Idle
<1> QED BY <1>1, <1>2, <1>3

-----------------------------------------------------------------------------
(* Magic links                                                             *)

\* The row of a link with another status.
LEMMA StatusOf ==
  ASSUME IInv, NEW l \in Links, NEW st
  PROVE  [links EXCEPT ![l].status = st]
           = [links EXCEPT ![l] = [status |-> st, email |-> links[l].email]]
<1>1. links[l] \in [status : {"absent", "live", "used", "expired"}, email : Emails \cup {None}]
  BY DEF IInv, TypeOK
<1>2. [links[l] EXCEPT !.status = st] = [status |-> st, email |-> links[l].email]
  BY <1>1
<1> QED BY <1>2

\* A link with its new row: nobody has held it before, or it keeps its address.
LEMMA LinkChanges ==
  ASSUME IInv, NEW l \in Links, NEW st \in {"live", "used", "expired"}, NEW e \in Emails,
         links' = [links EXCEPT ![l] = [status |-> st, email |-> e]],
         links[l].status # "absent" => e = links[l].email,
         links[l].status = "used" => st = "used",
         UNCHANGED <<users, hashed, pending, started, passkeys, sessions, faults>>
  PROVE  /\ Onward /\ SameSessions /\ LinksOK' /\ Queue' /\ PasskeyOfItsChallenge'
         /\ req' \in [Slots -> Requests] => TypeOK'
<1>1. /\ SameSessions /\ Queue' /\ PasskeyOfItsChallenge'
  BY SameIsOnward
<1>2. /\ \A x \in Links : links'[x] = IF x = l THEN [status |-> st, email |-> e] ELSE links[x]
      /\ links' \in [Links -> [status : {"absent", "live", "used", "expired"},
                               email : Emails \cup {None}]]
  BY DEF IInv, TypeOK
<1>3. Onward
  BY <1>2 DEF Onward, IInv, TypeOK
<1>4. LinksOK'
  BY <1>2 DEF LinksOK, IInv
<1>5. req' \in [Slots -> Requests] => TypeOK'
  BY <1>2 DEF IInv, TypeOK, Requests
<1> QED BY <1>1, <1>3, <1>4, <1>5

LEMMA RequestMagicLinkKeeps ==
  ASSUME IInv, NEW l \in FreshLinks, NEW e \in Emails, RequestMagicLink(l, e) PROVE IInv'
<1>1. l \in Links /\ links[l].status = "absent" /\ req' = req
  BY DEF FreshLinks, RequestMagicLink
<1>2. Onward /\ SameSessions /\ LinksOK' /\ Queue' /\ PasskeyOfItsChallenge' /\ TypeOK'
  BY <1>1, LinkChanges DEF RequestMagicLink, IInv, TypeOK, Requests
<1> QED BY <1>1, <1>2, StepKeeps

LEMMA LinkExpiresKeeps ==
  ASSUME IInv, NEW l \in Links, LinkExpires(l) PROVE IInv'
<1> DEFINE e == links[l].email
<1>1. links[l].status = "live" /\ e \in Emails /\ req' = req
  BY DEF LinkExpires, Usable, IInv, LinksOK
<1>2. links' = [links EXCEPT ![l] = [status |-> "expired", email |-> e]]
  BY StatusOf DEF LinkExpires
<1>3. Onward /\ SameSessions /\ LinksOK' /\ Queue' /\ PasskeyOfItsChallenge' /\ TypeOK'
  BY <1>1, <1>2, LinkChanges DEF LinkExpires, IInv, TypeOK, Requests
<1> QED BY <1>1, <1>3, StepKeeps

LEMMA ReadLinkKeeps ==
  ASSUME IInv, NEW c \in Slots, NEW l \in Links, ReadLink(c, l) PROVE IInv'
<1> DEFINE r == Running("spendLink", links[l].email, l, None)
<1>1. /\ r.at = "spendLink" /\ r.item = l /\ r.user = links[l].email
      /\ links[l].status = "live" /\ links[l].email \in Emails
  BY DEF ReadLink, Usable, Running, IInv, LinksOK
<1>2. r \in Requests
  BY <1>1 DEF Running, Requests, Places, Items
<1>3. /\ Goes(c, r) /\ ~At(c, "deleteChallenge")
      /\ UNCHANGED <<users, hashed, links, pending, started, passkeys, sessions, faults>>
  BY DEF ReadLink, At
<1> HIDE DEF r
<1>4. Fits(c)'
  BY <1>1, <1>2, <1>3, Goings DEF Fits
<1>5. \A s \in Sessions : sessions[s].origin \in Links => l # sessions[s].origin
  BY <1>1 DEF IInv, SpentFirst
<1> QED BY <1>1, <1>2, <1>3, <1>4, <1>5, ReadKeeps

LEMMA SpendLinkKeeps ==
  ASSUME IInv, NEW c \in Slots, SpendLink(c) PROVE IInv'
<1> DEFINE l == req[c].item
           e == links[l].email
           r == [req[c] EXCEPT !.at = "findUser"]
<1>1. l \in Links /\ req[c].user = e /\ e \in Emails /\ req[c] \in Requests
  BY Request DEF SpendLink, At, Fits
<1>2. r \in Requests /\ r.at = "findUser" /\ r.item = l /\ r.user = e
  BY <1>1 DEF Requests, Places
<1>3. links' = [links EXCEPT ![l] = [status |-> "used", email |-> e]]
  BY <1>1, StatusOf DEF SpendLink
<1>4. Goes(c, r) /\ ~At(c, "deleteChallenge")
      /\ UNCHANGED <<users, hashed, pending, started, passkeys, sessions, faults>>
  BY DEF SpendLink, At
<1> HIDE DEF r
<1>5. req' \in [Slots -> Requests] /\ req'[c] = r /\ \A d \in Slots \ {c} : req'[d] = req[d]
  BY <1>2, <1>4, Goings
<1>6. Onward /\ SameSessions /\ LinksOK' /\ Queue' /\ PasskeyOfItsChallenge' /\ TypeOK'
  BY <1>1, <1>3, <1>4, <1>5, LinkChanges
<1>7. Fits(c)'
  BY <1>1, <1>2, <1>3, <1>5 DEF Fits, IInv, TypeOK
<1>8. Spent(c)'
  BY <1>1, <1>2, <1>4, <1>5, <1>6, Request, SpentGoes DEF Spent
<1> QED BY <1>5, <1>6, <1>7, <1>8, StepKeeps

LEMMA FindUserKeeps ==
  ASSUME IInv, NEW c \in Slots, FindUser(c) PROVE IInv'
<1> DEFINE l == req[c].item
           u == req[c].user
           r == AfterLookup(c)
<1>1. /\ l \in Links /\ links[l].email = u /\ u \in Emails /\ links[l].status = "used"
      /\ req[c] \in Requests /\ Spent(c)
  BY Request DEF FindUser, At, Fits
<1>2. links[l] = [status |-> "used", email |-> u]
  BY <1>1 DEF IInv, TypeOK
<1>3. /\ r \in Requests /\ r.item = l /\ r.user = u
      /\ r.at \in {"openSession", "createUser"} /\ (r.at = "openSession" => u \in users)
  BY <1>1 DEF Requests, Places, AfterLookup
<1>4. /\ Goes(c, r) /\ ~At(c, "deleteChallenge")
      /\ UNCHANGED <<users, hashed, links, pending, started, passkeys, sessions, faults>>
  BY DEF FindUser, At
<1> HIDE DEF r
<1>5. Fits(c)'
  BY <1>1, <1>2, <1>3, <1>4, Goings DEF Fits
<1> QED BY <1>1, <1>3, <1>4, <1>5, ReadKeeps DEF Spent

\* A step that adds a user.
LEMMA UserAdded ==
  ASSUME IInv, NEW u \in Emails, users' = users \cup {u},
         hashed' = hashed \/ (u \notin users /\ hashed' = hashed \cup {u}),
         UNCHANGED <<links, pending, started, passkeys, sessions, faults>>
  PROVE  /\ Onward /\ SameSessions /\ LinksOK' /\ Queue' /\ PasskeyOfItsChallenge'
         /\ req' \in [Slots -> Requests] => TypeOK'
<1>1. SameSessions
  BY SameIsOnward
<1>2. Onward
  BY DEF Onward, IInv, TypeOK
<1>3. LinksOK' /\ Queue' /\ PasskeyOfItsChallenge'
  BY DEF LinksOK, Queue, PasskeyOfItsChallenge, IInv
<1>4. req' \in [Slots -> Requests] => TypeOK'
  BY DEF IInv, TypeOK, Requests
<1> QED BY <1>1, <1>2, <1>3, <1>4

LEMMA CreateUserKeeps ==
  ASSUME IInv, NEW c \in Slots, CreateUser(c) PROVE IInv'
<1> DEFINE l == req[c].item
           u == req[c].user
<1>1. /\ l \in Links /\ links[l].email = u /\ u \in Emails /\ links[l].status = "used"
      /\ req[c] \in Requests /\ Spent(c) /\ ~At(c, "deleteChallenge")
  BY Request DEF CreateUser, At, Fits
<1>2. users' = users \cup {u} /\ UNCHANGED <<hashed, links, pending, started, passkeys, sessions, faults>>
  BY DEF CreateUser
<1>3. /\ Onward /\ SameSessions /\ LinksOK' /\ Queue' /\ PasskeyOfItsChallenge'
      /\ req' \in [Slots -> Requests] => TypeOK'
  BY <1>1, <1>2, UserAdded
<1>4. CASE u \in users
  <2>1. Goes(c, Idle)
    BY <1>4 DEF CreateUser
  <2> QED BY <1>1, <1>3, <2>1, OverFits, StepKeeps
<1>5. CASE u \notin users
  <2> DEFINE r == [req[c] EXCEPT !.at = "openSession"]
  <2>1. Goes(c, r)
    BY <1>5 DEF CreateUser
  <2>2. r \in Requests /\ r.item = l /\ r.user = u /\ r.at = "openSession"
    BY <1>1 DEF Requests, Places
  <2>3. links[l] = [status |-> "used", email |-> u]
    BY <1>1 DEF IInv, TypeOK
  <2> HIDE DEF r
  <2>4. req' \in [Slots -> Requests] /\ req'[c] = r /\ \A d \in Slots \ {c} : req'[d] = req[d]
    BY <2>1, <2>2, Goings
  <2>5. Fits(c)'
    BY <1>1, <1>2, <2>2, <2>3, <2>4 DEF Fits
  <2>6. Spent(c)'
    BY <1>1, <1>3, <2>2, <2>4, SpentGoes DEF Spent
  <2> QED BY <1>3, <2>4, <2>5, <2>6, StepKeeps
<1> QED BY <1>4, <1>5

LEMMA OpenSessionKeeps ==
  ASSUME IInv, NEW c \in Slots, NEW s \in FreshSessions, OpenSession(c, s) PROVE IInv'
<1> DEFINE u   == req[c].user
           o   == req[c].item
           row == [status |-> "live", user |-> u, origin |-> o, slot |-> c]
           r   == IF o \in Challenges THEN [req[c] EXCEPT !.at = "deleteChallenge"] ELSE Idle
<1>1. /\ req[c] \in Requests /\ Spent(c) /\ req[c].at = "openSession"
      /\ u \in users /\ u \in Emails /\ o \in Links \cup Challenges \cup {None}
      /\ o \in Links => links[o] = [status |-> "used", email |-> u]
      /\ o \in Challenges => started[o] = [user |-> u, kind |-> "login"]
      /\ o = None => u \in hashed
  BY Request DEF OpenSession, At, Fits
<1>2. /\ r \in Requests
      /\ IF o \in Challenges THEN r.at = "deleteChallenge" /\ r.item = o /\ r.user = u
         ELSE r = Idle
  BY <1>1 DEF Requests, Places, Idle
<1>3. /\ s \in Sessions /\ sessions[s] = NoSession
      /\ sessions' = [sessions EXCEPT ![s] = row] /\ Goes(c, r)
      /\ UNCHANGED <<users, hashed, links, pending, started, passkeys, faults>>
  BY DEF OpenSession, FreshSessions
<1>4. /\ row.status = "live" /\ row.user = u /\ row.origin = o /\ row.slot = c
      /\ row \in [status : {"absent", "live", "expired", "deleted"}, user : Emails \cup {None},
                  origin : Links \cup Challenges \cup {None}, slot : Slots \cup {None}]
      /\ row # NoSession
  BY <1>1 DEF NoSession
<1> HIDE DEF r, row
<1>5. req' \in [Slots -> Requests] /\ req'[c] = r /\ \A d \in Slots \ {c} : req'[d] = req[d]
  BY <1>2, <1>3, Goings
<1>6. \A t \in Sessions : sessions'[t] = IF t = s THEN row ELSE sessions[t]
  BY <1>3 DEF IInv, TypeOK
<1>7. Onward /\ LinksOK' /\ Queue' /\ PasskeyOfItsChallenge'
  BY <1>3, SameIsOnward
<1>8. TypeOK'
  BY <1>3, <1>4, <1>5 DEF IInv, TypeOK, Requests
<1>9. ASSUME NEW d \in Slots PROVE Fits(d)'
  <2>1. CASE d = c
    <3>1. Idle.at = "idle" /\ Idle.item = None
      BY DEF Idle
    <3> QED BY <1>1, <1>2, <1>5, <2>1, <3>1 DEF Fits
  <2>2. CASE d # c
    <3>1. GoneStaysGone
      BY <1>3, <1>6 DEF GoneStaysGone, NoSession
    <3> QED BY <1>5, <1>7, <1>8, <2>2, <3>1, FitsKept
  <2> QED BY <2>1, <2>2
\* No session in this slot has the same origin, if that can be spent.
<1>10. ASSUME NEW t \in Sessions, sessions[t].slot = c
       PROVE  /\ sessions[t].origin \in Links => sessions[t].origin # o
              /\ faults = 0 /\ sessions[t].origin \in Challenges =>
                   sessions[t].origin # o /\ ~Contains(pending, sessions[t].origin)
  BY <1>1, <1>10 DEF Spent, Closed
<1>11. ASSUME NEW d \in Slots, NEW t \in Sessions, sessions'[t].slot = d, NEW x, x = sessions'[t].origin
       PROVE  /\ x \in Links => req'[d].item # x
              /\ faults' = 0 /\ x \in Challenges => Closed(d, x)'
  <2>1. CASE d # c
    <3>1. sessions'[t] = sessions[t] /\ req'[d] = req[d]
      BY <1>4, <1>5, <1>6, <1>11, <2>1
    <3>2. Spent(d)
      BY DEF IInv
    <3> QED BY <1>3, <1>11, <3>1, <3>2 DEF Spent, Closed
  <2>2. CASE d = c /\ t = s
    <3>1. x = o
      BY <1>4, <1>6, <1>11, <2>2
    <3> QED BY <1>2, <1>5, <2>2, <3>1 DEF Closed, Idle
  <2>3. CASE d = c /\ t # s
    <3>1. sessions[t].slot = c /\ sessions[t].origin = x
      BY <1>6, <1>11, <2>3
    <3> QED BY <1>2, <1>3, <1>5, <1>10, <2>3, <3>1 DEF Closed, Idle
  <2> QED BY <2>1, <2>2, <2>3
<1>12. \A d \in Slots : Spent(d)'
  BY <1>11 DEF Spent, Closed
<1>13. SessionsBelong'
  <2> SUFFICES ASSUME NEW t \in Sessions, sessions'[t] # NoSession
               PROVE  LET x == sessions'[t].origin
                      IN  /\ sessions'[t].user \in users'
                          /\ x \in Links => links'[x].email = sessions'[t].user
                          /\ x \in Challenges => started'[x] = [user |-> sessions'[t].user, kind |-> "login"]
                          /\ x = None => sessions'[t].user \in hashed'
    BY DEF SessionsBelong
  <2>1. CASE t = s
    <3>1. sessions'[t].user = u /\ sessions'[t].origin = o
      BY <1>4, <1>6, <2>1
    <3> QED BY <1>1, <1>3, <3>1
  <2>2. CASE t # s
    BY <1>3, <1>6, <2>2 DEF IInv, SessionsBelong
  <2> QED BY <2>1, <2>2
<1>14. SpentFirst'
  BY <1>1, <1>3, <1>4, <1>6 DEF IInv, SpentFirst
<1>15. Apart'
  BY <1>3, <1>4, <1>6, <1>10 DEF IInv, Apart
<1> QED BY <1>7, <1>8, <1>9, <1>12, <1>13, <1>14, <1>15 DEF IInv
-----------------------------------------------------------------------------
(* Requests of the middleware and of passwords                             *)

\* A request that begins with an item that can be no origin it has spent.
LEMMA BeginKeeps ==
  ASSUME IInv, NEW c \in Slots, NEW at \in Places, NEW u \in Emails,
         NEW item \in Items \cup {None}, NEW s \in Sessions \cup {None},
         At(c, "idle"), Goes(c, Running(at, u, item, s)),
         UNCHANGED <<users, hashed, links, pending, started, passkeys, sessions, faults>>,
         at \in {"openSession", "register", "purge", "revoke", "revokeOthers",
                 "startPasskey", "finishPasskey"},
         at = "openSession" =>
           /\ u \in users
           /\ \/ item = None /\ u \in hashed
              \/ /\ item \in Challenges /\ Contains(pending, item)
                 /\ started[item] = [user |-> u, kind |-> "login"],
         at = "finishPasskey" => item \in Challenges /\ u \in users,
         at = "startPasskey" => u \in users,
         at \in {"register", "startPasskey", "revokeOthers"} => item = None,
         at \in {"purge", "revoke"} => item \in Sessions,
         at = "purge" => sessions[item].status = "expired"
  PROVE  IInv'
<1> DEFINE r == Running(at, u, item, s)
<1>1. r \in Requests /\ r.at = at /\ r.user = u /\ r.item = item /\ Goes(c, r)
  BY DEF Running, Requests
<1> HIDE DEF r
<1>2. ~At(c, "deleteChallenge") /\ Spent(c) /\ req'[c] = r
  BY <1>1, Request, Goings DEF At
<1>3. Fits(c)'
  BY <1>1, <1>2 DEF Fits
<1>4. ASSUME NEW t \in Sessions, sessions[t].slot = c
      PROVE  LET o == sessions[t].origin
             IN  /\ o \in Links => r.item # o
                 /\ faults = 0 /\ o \in Challenges /\ r.item = o =>
                      r.at \in {"deleteChallenge", "finishPasskey"}
  <2>1. sessions[t].origin \in Links => r.item # sessions[t].origin
    BY <1>1
  <2>2. faults = 0 /\ sessions[t].origin \in Challenges => ~Contains(pending, sessions[t].origin)
    BY <1>2, <1>4 DEF Spent, Closed, At
  <2> QED BY <1>1, <2>1, <2>2
<1> QED BY <1>1, <1>2, <1>3, <1>4, ReadKeeps

LEMMA PasswordKeeps ==
  ASSUME IInv, NEW c \in Slots, NEW e \in Emails, CheckAddress(c, e) \/ ReadPassword(c, e)
  PROVE  IInv'
<1>1. CASE CheckAddress(c, e)
  BY <1>1, BeginKeeps DEF CheckAddress, Places
<1>2. CASE ReadPassword(c, e)
  <2>1. e \in users
    BY <1>2 DEF ReadPassword, IInv, LinksOK
  <2> QED BY <1>2, <2>1, BeginKeeps DEF ReadPassword, Places
<1> QED BY <1>1, <1>2

LEMMA MiddlewareKeeps ==
  ASSUME IInv, NEW c \in Slots, NEW s \in Sessions, NEW op, NEW item,
         \/ ReadExpired(c, s)
         \/ /\ Authenticate(c, s, op, item)
            /\ \/ op \in {"startPasskey", "revokeOthers"} /\ item = None
               \/ op = "finishPasskey" /\ item \in Challenges
               \/ op = "revoke" /\ item \in Sessions
  PROVE  IInv'
<1>1. ASSUME sessions[s].status \in {"live", "expired"}
      PROVE  sessions[s].user \in users /\ sessions[s].user \in Emails
  <2>1. sessions[s] # NoSession
    BY <1>1 DEF NoSession
  <2>2. sessions[s].user \in users
    BY <2>1 DEF IInv, SessionsBelong
  <2> QED BY <2>2 DEF IInv, TypeOK
<1>2. CASE ReadExpired(c, s)
  BY <1>1, <1>2, BeginKeeps DEF ReadExpired, Places, Items
<1>3. CASE Authenticate(c, s, op, item)
  <2>1. ReadExpired(c, s)
        \/ /\ op \in {"startPasskey", "revokeOthers", "finishPasskey", "revoke"}
           /\ op \in {"startPasskey", "revokeOthers"} => item = None
           /\ op = "finishPasskey" => item \in Challenges
           /\ op = "revoke" => item \in Sessions
    OBVIOUS
  <2> QED BY <1>1, <1>2, <1>3, <2>1, BeginKeeps DEF Authenticate, Places, Items
<1> QED BY <1>2, <1>3

LEMMA RegisterKeeps ==
  ASSUME IInv, NEW c \in Slots, Register(c) PROVE IInv'
<1>1. /\ req[c].user \in Emails /\ ~At(c, "deleteChallenge") /\ Goes(c, Idle)
  BY Request DEF Register, At, Fits
<1>2. /\ users' = users \cup {req[c].user}
      /\ hashed' = hashed \/ (req[c].user \notin users /\ hashed' = hashed \cup {req[c].user})
      /\ UNCHANGED <<links, pending, started, passkeys, sessions, faults>>
  BY DEF Register, Hashed
<1>3. /\ Onward /\ SameSessions /\ LinksOK' /\ Queue' /\ PasskeyOfItsChallenge'
      /\ req' \in [Slots -> Requests] => TypeOK'
  BY <1>1, <1>2, UserAdded
<1> QED BY <1>1, <1>3, OverFits, StepKeeps

Row ==
  [status : {"absent", "live", "expired", "deleted"}, user : Emails \cup {None},
   origin : Links \cup Challenges \cup {None}, slot : Slots \cup {None}]

\* Rows are deleted by a request that is then over.
LEMMA DeletionKeeps ==
  ASSUME IInv, NEW c \in Slots, NEW gone \in SUBSET Rows, sessions' = Without(gone),
         Goes(c, Idle), ~At(c, "deleteChallenge"),
         UNCHANGED <<users, hashed, links, pending, started, passkeys, faults>>
  PROVE  IInv'
<1>1. ASSUME NEW s \in Sessions
      PROVE  /\ s \in gone => sessions'[s].status = "deleted"
             /\ ~(s \in gone) => sessions'[s].status = sessions[s].status
             /\ ~(s \in gone) => sessions'[s] = sessions[s]
             /\ sessions'[s].user = sessions[s].user
             /\ sessions'[s].origin = sessions[s].origin
             /\ sessions'[s].slot = sessions[s].slot
             /\ sessions'[s] \in Row
  <2>1. sessions[s] \in Row
    BY DEF IInv, TypeOK, Row
  <2>2. sessions'[s] = IF s \in gone THEN [sessions[s] EXCEPT !.status = "deleted"] ELSE sessions[s]
    BY DEF Without, IInv, TypeOK
  <2> QED BY <2>1, <2>2 DEF Row
<1>2. \A s \in gone : s \in Sessions /\ sessions[s] # NoSession
  BY DEF Rows, NoSession
<1>3. SameSessions
  <2>1. \A s \in Sessions : sessions[s] = NoSession <=> sessions'[s] = NoSession
    <3>1. \A s \in gone : sessions'[s].status = "deleted"
      BY <1>1, <1>2
    <3> QED BY <1>1, <1>2, <3>1 DEF NoSession
  <2> QED BY <1>1, <2>1 DEF SameSessions, GoneStaysGone
<1>4. Onward /\ LinksOK' /\ Queue' /\ PasskeyOfItsChallenge'
  BY SameIsOnward
<1>5. req' \in [Slots -> Requests] /\ Fits(c)' /\ Spent(c)'
      /\ \A d \in Slots \ {c} : req'[d] = req[d]
  BY <1>3, <1>4, OverFits
<1>6. sessions' \in [Sessions -> Row]
  <2>1. sessions' = [s \in Sessions |-> sessions'[s]]
    BY DEF Without
  <2> QED BY <1>1, <2>1
<1>7. TypeOK'
  BY <1>5, <1>6 DEF IInv, TypeOK, Requests, Row
<1> QED BY <1>3, <1>4, <1>5, <1>7, StepKeeps

LEMMA RowsGoKeeps ==
  ASSUME IInv, NEW c \in Slots, Purge(c) \/ RevokeSession(c) \/ RevokeOthers(c)
  PROVE  IInv'
<1>1. CASE Purge(c)
  BY <1>1, DeletionKeeps DEF Purge, At
<1>2. CASE RevokeSession(c)
  <2>1. RevokedRow(req[c].item, req[c].user) \in SUBSET Rows
    BY DEF RevokedRow
  <2> QED BY <1>2, <2>1, DeletionKeeps DEF RevokeSession, At
<1>3. CASE RevokeOthers(c)
  <2>1. OtherRows(req[c].user, req[c].session) \in SUBSET Rows
    BY DEF OtherRows
  <2> QED BY <1>3, <2>1, DeletionKeeps DEF RevokeOthers, At
<1> QED BY <1>1, <1>2, <1>3

LEMMA SessionExpiresKeeps ==
  ASSUME IInv, NEW s \in Sessions, SessionExpires(s) PROVE IInv'
<1>1. ASSUME NEW t \in Sessions
      PROVE  /\ t = s => sessions'[t].status = "expired"
             /\ ~(t = s) => sessions'[t].status = sessions[t].status
             /\ ~(t = s) => sessions'[t] = sessions[t]
             /\ sessions'[t].user = sessions[t].user
             /\ sessions'[t].origin = sessions[t].origin
             /\ sessions'[t].slot = sessions[t].slot
             /\ sessions'[t] \in Row
  <2>1. sessions[t] \in Row
    BY DEF IInv, TypeOK, Row
  <2>2. sessions'[t] = IF t = s THEN [sessions[t] EXCEPT !.status = "expired"] ELSE sessions[t]
    BY DEF SessionExpires, IInv, TypeOK
  <2> QED BY <2>1, <2>2 DEF Row
<1>2. sessions[s].status = "live"
      /\ UNCHANGED <<users, hashed, links, pending, started, passkeys, req, faults>>
  BY DEF SessionExpires
<1>3. SameSessions
  <2>1. sessions[s] # NoSession /\ sessions'[s] # NoSession
    <3>1. sessions'[s].status = "expired"
      BY <1>1
    <3> QED BY <1>2, <3>1 DEF NoSession
  <2> QED BY <1>1, <2>1 DEF SameSessions, GoneStaysGone
<1>4. Onward /\ LinksOK' /\ Queue' /\ PasskeyOfItsChallenge'
  BY <1>2, SameIsOnward
<1>5. sessions' \in [Sessions -> Row]
  <2>1. sessions' = [t \in Sessions |-> sessions'[t]]
    BY DEF SessionExpires, IInv, TypeOK
  <2> QED BY <1>1, <2>1
<1>6. TypeOK'
  BY <1>2, <1>5 DEF IInv, TypeOK, Row
<1> QED BY <1>2, <1>3, <1>4, <1>6, StepKeeps
-----------------------------------------------------------------------------
(* Passkeys                                                                *)

\* A challenge that is new is made for a user, and is the latest.
LEMMA StartedChallenge ==
  ASSUME IInv, NEW ch \in FreshChallenges, NEW u \in users,
         NEW kind \in {"registration", "login"}, Started(ch, u, kind),
         UNCHANGED <<users, hashed, links, passkeys, sessions, faults>>
  PROVE  /\ Onward /\ SameSessions /\ LinksOK' /\ Queue' /\ PasskeyOfItsChallenge'
         /\ req' \in [Slots -> Requests] => TypeOK'
<1> DEFINE n == Len(pending)
<1>1. ch \in Challenges /\ started[ch] = NoUse /\ u \in Emails
  BY DEF FreshChallenges, IInv, TypeOK
<1>2. /\ \A x \in Challenges : started'[x] = IF x = ch THEN [user |-> u, kind |-> kind] ELSE started[x]
      /\ started' \in [Challenges -> [user : Emails \cup {None},
                                      kind : {"none", "registration", "login"}]]
  BY <1>1 DEF Started, IInv, TypeOK
<1>3. [user |-> u, kind |-> kind] # NoUse
  BY DEF NoUse
<1>4. /\ pending' \in Seq(Challenges) /\ n \in Nat /\ DOMAIN pending = 1..n
      /\ DOMAIN pending' = 1..(n + 1) /\ Len(pending') = n + 1
      /\ \A i \in 1..n : pending'[i] = pending[i] /\ pending[i] \in Challenges
      /\ pending'[n + 1] = ch
  BY <1>1, AppendProperties, LenProperties, ElementOfSeq DEF Started, IInv, TypeOK
<1>5. Onward
  <2>1. \A x \in Challenges : Contains(pending', x) => Contains(pending, x) \/ started[x] = NoUse
    BY <1>1, <1>4 DEF Contains
  <2>2. \A x \in Challenges : started[x] # NoUse => started'[x] = started[x]
    BY <1>1, <1>2
  <2> QED BY <2>1, <2>2 DEF Onward, IInv, TypeOK
<1>6. SameSessions /\ LinksOK'
  BY SameIsOnward
<1>7. Queue'
  <2>1. \A i \in 1..n : pending[i] # ch
    BY <1>1, <1>4 DEF IInv, Queue
  <2>2. \A i, j \in DOMAIN pending' : pending'[i] = pending'[j] => i = j
    BY <1>4, <2>1 DEF IInv, Queue
  <2>3. \A i \in DOMAIN pending' : started'[pending'[i]] # NoUse
    BY <1>1, <1>2, <1>3, <1>4, <2>1 DEF IInv, Queue
  <2>4. \A x \in Challenges : started'[x] # NoUse => started'[x].user \in users'
    BY <1>2 DEF IInv, Queue
  <2> QED BY <2>2, <2>3, <2>4 DEF Queue
<1>8. PasskeyOfItsChallenge'
  <2>1. ASSUME NEW x \in Challenges, passkeys[x] # None PROVE x # ch
    <3>1. started[x] = [user |-> passkeys[x], kind |-> "registration"]
      BY <2>1 DEF IInv, PasskeyOfItsChallenge
    <3>2. started[x].kind = "registration"
      BY <3>1
    <3>3. NoUse.kind = "none"
      BY DEF NoUse
    <3> QED BY <1>1, <3>2, <3>3
  <2> QED BY <1>2, <2>1 DEF IInv, PasskeyOfItsChallenge
<1>9. req' \in [Slots -> Requests] => TypeOK'
  BY <1>2, <1>4 DEF IInv, TypeOK, Requests
<1> QED BY <1>5, <1>6, <1>7, <1>8, <1>9

LEMMA StartRegistrationKeeps ==
  ASSUME IInv, NEW c \in Slots, NEW ch \in FreshChallenges, StartRegistration(c, ch) PROVE IInv'
<1>1. req[c].user \in users /\ ~At(c, "deleteChallenge") /\ Goes(c, Idle)
  BY Request DEF StartRegistration, At, Fits
<1>2. /\ Onward /\ SameSessions /\ LinksOK' /\ Queue' /\ PasskeyOfItsChallenge'
      /\ req' \in [Slots -> Requests] => TypeOK'
  BY <1>1, StartedChallenge DEF StartRegistration
<1> QED BY <1>1, <1>2, OverFits, StepKeeps

LEMMA StartLoginKeeps ==
  ASSUME IInv, NEW ch \in FreshChallenges, NEW e \in Emails, StartLogin(ch, e) PROVE IInv'
<1>1. e \in users
  BY DEF StartLogin, IInv, PasskeyOfItsChallenge
<1>2. req' = req /\ req \in [Slots -> Requests]
  BY DEF StartLogin, IInv, TypeOK, Requests
<1>3. /\ Onward /\ SameSessions /\ LinksOK' /\ Queue' /\ PasskeyOfItsChallenge' /\ TypeOK'
  BY <1>1, <1>2, StartedChallenge DEF StartLogin
<1> QED BY <1>2, <1>3, StepKeeps

\* Challenges go, the others stay in their order.
LEMMA FewerPending ==
  ASSUME IInv, pending' \in Seq(Challenges),
         \A i \in DOMAIN pending' : Contains(pending, pending'[i]),
         \A i, j \in DOMAIN pending' : pending'[i] = pending'[j] => i = j,
         UNCHANGED <<users, hashed, links, started, passkeys, sessions, faults>>
  PROVE  /\ Onward /\ SameSessions /\ LinksOK' /\ Queue' /\ PasskeyOfItsChallenge'
         /\ req' \in [Slots -> Requests] => TypeOK'
<1>1. \A ch \in Challenges : Contains(pending', ch) => Contains(pending, ch)
  BY LenProperties DEF Contains
<1>2. Onward
  BY <1>1 DEF Onward, IInv, TypeOK
<1>3. SameSessions /\ LinksOK' /\ PasskeyOfItsChallenge'
  BY SameIsOnward
<1>4. Queue'
  <2>1. \A i \in DOMAIN pending' : started[pending'[i]] # NoUse
    BY LenProperties DEF Contains, IInv, TypeOK, Queue
  <2> QED BY <2>1 DEF IInv, Queue
<1>5. req' \in [Slots -> Requests] => TypeOK'
  BY DEF IInv, TypeOK, Requests
<1> QED BY <1>2, <1>3, <1>4, <1>5

LEMMA RemovedHasNoMore ==
  ASSUME IInv, NEW ch \in Challenges, NEW q, q = Removed(ch)
  PROVE  /\ q \in Seq(Challenges) /\ ~Contains(q, ch)
         /\ \A i \in DOMAIN q : Contains(pending, q[i])
         /\ \A i, j \in DOMAIN q : q[i] = q[j] => i = j
<1> DEFINE n == Len(pending)
<1>1. /\ pending \in Seq(Challenges) /\ n \in Nat /\ DOMAIN pending = 1..n
      /\ \A i, j \in 1..n : pending[i] = pending[j] => i = j
  BY LenProperties DEF IInv, TypeOK, Queue
<1>2. CASE ~Contains(pending, ch)
  <2>1. q = pending
    BY <1>2 DEF Removed
  <2> QED BY <1>1, <1>2, <2>1 DEF Contains
<1>3. CASE Contains(pending, ch)
  <2> DEFINE k == CHOOSE i \in DOMAIN pending : pending[i] = ch
             a == SubSeq(pending, 1, k - 1)
             b == SubSeq(pending, k + 1, n)
  <2>1. k \in 1..n /\ pending[k] = ch
    BY <1>1, <1>3 DEF Contains
  <2>2. q = a \o b
    BY <1>3 DEF Removed, RemoveAt
  <2> HIDE DEF k
  <2>3. /\ a \in Seq(Challenges) /\ Len(a) = k - 1
        /\ \A i \in 1..(k - 1) : a[i] = pending[i]
    <3>1. 1 \in 1..(n + 1) /\ k - 1 \in 0..n
      BY <1>1, <2>1
    <3>2. a \in Seq(Challenges) /\ Len(a) = (IF 1 <= k - 1 THEN (k - 1) - 1 + 1 ELSE 0)
          /\ \A i \in 1..((k - 1) - 1 + 1) : a[i] = pending[1 + i - 1]
      BY <1>1, <3>1, SubSeqProperties
    <3> QED BY <1>1, <2>1, <3>2
  <2>4. /\ b \in Seq(Challenges) /\ Len(b) = n - k
        /\ \A i \in 1..(n - k) : b[i] = pending[k + i]
    <3>1. k + 1 \in 1..(n + 1) /\ n \in 0..n
      BY <1>1, <2>1
    <3>2. b \in Seq(Challenges) /\ Len(b) = (IF k + 1 <= n THEN n - (k + 1) + 1 ELSE 0)
          /\ \A i \in 1..(n - (k + 1) + 1) : b[i] = pending[(k + 1) + i - 1]
      BY <1>1, <3>1, SubSeqProperties
    <3> QED BY <1>1, <2>1, <3>2
  <2> HIDE DEF a, b
  <2>5. /\ q \in Seq(Challenges) /\ DOMAIN q = 1..(n - 1) /\ Len(q) = n - 1
        /\ \A i \in 1..(n - 1) : q[i] = IF i < k THEN pending[i] ELSE pending[i + 1]
    <3>1. q \in Seq(Challenges) /\ Len(q) = n - 1
      <4>1. q \in Seq(Challenges) /\ Len(q) = Len(a) + Len(b)
        BY <2>2, <2>3, <2>4, ConcatProperties, ZenonT(40)
      <4> QED BY <1>1, <2>1, <2>3, <2>4, <4>1
    <3>2. DOMAIN q = 1..(n - 1)
      BY <3>1, LenProperties
    <3>3. ASSUME NEW i \in 1..(n - 1) PROVE q[i] = IF i < k THEN pending[i] ELSE pending[i + 1]
      <4>1. q[i] = IF i <= Len(a) THEN a[i] ELSE b[i - Len(a)]
        BY <1>1, <2>1, <2>2, <2>3, <2>4, ConcatProperties
      <4>2. CASE i < k
        BY <2>1, <2>3, <4>1, <4>2
      <4>3. CASE ~(i < k)
        <5>1. i - Len(a) \in 1..(n - k) /\ k + (i - Len(a)) = i + 1 /\ ~(i <= Len(a))
          BY <1>1, <2>1, <2>3, <4>3
        <5> QED BY <2>4, <4>1, <4>3, <5>1
      <4> QED BY <4>2, <4>3
    <3> QED BY <3>1, <3>2, <3>3
  <2>6. \A i \in DOMAIN q : Contains(pending, q[i])
    BY <1>1, <2>1, <2>5 DEF Contains
  <2>7. \A i, j \in DOMAIN q : q[i] = q[j] => i = j
    BY <1>1, <2>1, <2>5
  <2>8. ~Contains(q, ch)
    BY <1>1, <2>1, <2>5 DEF Contains
  <2> QED BY <2>5, <2>6, <2>7, <2>8
<1> QED BY <1>2, <1>3

LEMMA DeleteChallengeKeeps ==
  ASSUME IInv, NEW c \in Slots, DeleteChallenge(c) PROVE IInv'
<1> DEFINE ch == req[c].item
<1>1. ch \in Challenges /\ Goes(c, Idle) /\ pending' = Removed(ch)
      /\ UNCHANGED <<users, hashed, links, started, passkeys, sessions, faults>>
  BY Request DEF DeleteChallenge, At, Fits
<1>2. /\ pending' \in Seq(Challenges) /\ ~Contains(pending', ch)
      /\ \A i \in DOMAIN pending' : Contains(pending, pending'[i])
      /\ \A i, j \in DOMAIN pending' : pending'[i] = pending'[j] => i = j
  BY <1>1, RemovedHasNoMore
<1>3. /\ Onward /\ SameSessions /\ LinksOK' /\ Queue' /\ PasskeyOfItsChallenge'
      /\ req' \in [Slots -> Requests] => TypeOK'
  BY <1>1, <1>2, FewerPending
<1> QED BY <1>1, <1>2, <1>3, OverFits, StepKeeps

LEMMA ChallengeExpiresKeeps ==
  ASSUME IInv, ChallengeExpires PROVE IInv'
<1>1. pending \in Seq(Challenges) /\ pending # <<>> /\ pending' = Tail(pending)
      /\ UNCHANGED <<users, hashed, links, started, passkeys, sessions, req, faults>>
  BY DEF ChallengeExpires, IInv, TypeOK
<1>2. /\ pending' \in Seq(Challenges) /\ DOMAIN pending' = 1..(Len(pending) - 1)
      /\ Len(pending) \in Nat /\ DOMAIN pending = 1..Len(pending)
      /\ \A i \in 1..(Len(pending) - 1) : pending'[i] = pending[i + 1]
  BY <1>1, HeadTailProperties, LenProperties
<1>3. \A i \in DOMAIN pending' : Contains(pending, pending'[i])
  BY <1>2 DEF Contains
<1>4. \A i, j \in DOMAIN pending' : pending'[i] = pending'[j] => i = j
  <2>1. \A i, j \in 1..Len(pending) : pending[i] = pending[j] => i = j
    BY <1>2 DEF IInv, Queue
  <2>2. \A i \in DOMAIN pending' : i \in Int /\ i + 1 \in 1..Len(pending)
    BY <1>2
  <2> QED BY <1>2, <2>1, <2>2
<1>5. /\ Onward /\ SameSessions /\ LinksOK' /\ Queue' /\ PasskeyOfItsChallenge'
      /\ req' \in [Slots -> Requests] => TypeOK'
  BY <1>1, <1>2, <1>3, <1>4, FewerPending
<1>6. req \in [Slots -> Requests]
  BY DEF IInv, TypeOK, Requests
<1> QED BY <1>1, <1>5, <1>6, StepKeeps
LEMMA ReadLatestKeeps ==
  ASSUME IInv, NEW c \in Slots, ReadLatest(c) PROVE IInv'
<1> DEFINE ch == req[c].item
           u  == req[c].user
<1>1. /\ req[c] \in Requests /\ Spent(c) /\ ~At(c, "deleteChallenge")
      /\ ch \in Challenges /\ u \in users /\ u \in Emails
      /\ UNCHANGED <<users, hashed, links, pending, started, passkeys, sessions, faults>>
  BY Request DEF ReadLatest, At, Fits
<1>2. CASE IsLatest(ch, u)
  <2> DEFINE r == [req[c] EXCEPT !.at = "savePasskey"]
  <2>1. Goes(c, r) /\ started[ch] = [user |-> u, kind |-> "registration"]
    BY <1>2 DEF ReadLatest, IsLatest, Registration
  <2>2. r \in Requests /\ r.item = ch /\ r.user = u /\ r.at = "savePasskey"
    BY <1>1 DEF Requests, Places
  <2> HIDE DEF r
  <2>3. Fits(c)'
    BY <1>1, <2>1, <2>2, Goings DEF Fits
  <2>4. \A s \in Sessions : sessions[s].origin \in Challenges => sessions[s].origin # ch
    BY <2>1, OriginStarted
  <2> QED BY <1>1, <2>1, <2>2, <2>3, <2>4, ReadKeeps
<1>3. CASE ~IsLatest(ch, u)
  <2>1. Goes(c, Idle)
    BY <1>3 DEF ReadLatest
  <2>2. Onward /\ SameSessions /\ LinksOK' /\ Queue' /\ PasskeyOfItsChallenge'
    BY <1>1, SameIsOnward
  <2>3. req' \in [Slots -> Requests] /\ Fits(c)' /\ Spent(c)'
        /\ \A d \in Slots \ {c} : req'[d] = req[d]
    BY <1>1, <2>1, <2>2, OverFits
  <2>4. TypeOK'
    BY <1>1, <2>3 DEF IInv, TypeOK, Requests
  <2> QED BY <2>2, <2>3, <2>4, StepKeeps
<1> QED BY <1>2, <1>3

LEMMA SavePasskeyKeeps ==
  ASSUME IInv, NEW c \in Slots, SavePasskey(c) PROVE IInv'
<1> DEFINE ch == req[c].item
           u  == req[c].user
<1>1. /\ req[c] \in Requests /\ ~At(c, "deleteChallenge")
      /\ ch \in Challenges /\ u \in users /\ u \in Emails
      /\ started[ch] = [user |-> u, kind |-> "registration"]
      /\ UNCHANGED <<users, hashed, links, pending, started, sessions, faults>>
  BY Request DEF SavePasskey, At, Fits
<1>2. Onward /\ SameSessions /\ LinksOK' /\ Queue'
  BY <1>1, SameIsOnward
<1>3. CASE passkeys[ch] = None
  <2> DEFINE r == [req[c] EXCEPT !.at = "deleteChallenge"]
  <2>1. Goes(c, r) /\ passkeys' = [passkeys EXCEPT ![ch] = u]
    BY <1>3 DEF SavePasskey
  <2>2. r \in Requests /\ r.item = ch /\ r.user = u /\ r.at = "deleteChallenge"
    BY <1>1 DEF Requests, Places
  <2> HIDE DEF r
  <2>3. req' \in [Slots -> Requests] /\ req'[c] = r /\ \A d \in Slots \ {c} : req'[d] = req[d]
    BY <2>1, <2>2, Goings
  <2>4. Fits(c)'
    BY <1>1, <2>2, <2>3 DEF Fits
  <2>5. Spent(c)'
    BY <1>1, <1>2, <2>2, <2>3, SpentGoes
  <2>6. PasskeyOfItsChallenge'
    BY <1>1, <2>1 DEF IInv, TypeOK, PasskeyOfItsChallenge
  <2>7. TypeOK'
    BY <1>1, <2>1, <2>3 DEF IInv, TypeOK, Requests
  <2> QED BY <1>2, <2>3, <2>4, <2>5, <2>6, <2>7, StepKeeps
<1>4. CASE passkeys[ch] # None
  <2>1. Goes(c, Idle) /\ passkeys' = passkeys
    BY <1>4 DEF SavePasskey
  <2>2. req' \in [Slots -> Requests] /\ Fits(c)' /\ Spent(c)'
        /\ \A d \in Slots \ {c} : req'[d] = req[d]
    BY <1>1, <1>2, <2>1, OverFits
  <2>3. PasskeyOfItsChallenge'
    BY <1>1, <2>1, SameIsOnward
  <2>4. TypeOK'
    BY <1>1, <2>1, <2>2 DEF IInv, TypeOK, Requests
  <2> QED BY <1>2, <2>2, <2>3, <2>4, StepKeeps
<1> QED BY <1>3, <1>4

LEMMA ReadChallengeKeeps ==
  ASSUME IInv, NEW c \in Slots, NEW ch \in Challenges, ReadChallenge(c, ch) PROVE IInv'
<1>1. started[ch] = [user |-> started[ch].user, kind |-> "login"]
  BY DEF ReadChallenge, IInv, TypeOK
<1>2. started[ch].user \in users /\ started[ch].user \in Emails
  <2>1. started[ch] # NoUse
    BY DEF ReadChallenge, NoUse
  <2> QED BY <2>1 DEF IInv, Queue, TypeOK
<1> QED BY <1>1, <1>2, BeginKeeps DEF ReadChallenge, Places, Items

-----------------------------------------------------------------------------
(* Every step                                                              *)

LEMMA DroppedKeeps ==
  ASSUME IInv, NEW c \in Slots, Dropped(c) PROVE IInv'
<1>1. /\ faults \in Nat /\ faults' = faults + 1 /\ faults' \in 0..MaxFaults /\ Goes(c, Idle)
      /\ UNCHANGED <<users, hashed, links, pending, started, passkeys, sessions>>
  BY DEF Dropped, IInv, TypeOK
<1>2. SameSessions /\ LinksOK' /\ Queue' /\ PasskeyOfItsChallenge'
  BY <1>1, SameIsOnward
<1>3. Onward
  BY <1>1 DEF Onward
<1>4. req' \in [Slots -> Requests] /\ Fits(c)' /\ Spent(c)'
      /\ \A d \in Slots \ {c} : req'[d] = req[d]
  BY <1>1, <1>2, <1>3, OverFits
<1>5. TypeOK'
  BY <1>1, <1>4 DEF IInv, TypeOK, Requests
<1> QED BY <1>2, <1>3, <1>4, <1>5, StepKeeps

LEMMA StutteringKeeps ==
  ASSUME IInv, UNCHANGED vars PROVE IInv'
<1>1. Onward /\ SameSessions /\ LinksOK' /\ Queue' /\ PasskeyOfItsChallenge' /\ req' = req
  BY SameIsOnward DEF vars
<1>2. TypeOK'
  BY DEF vars, IInv, TypeOK
<1> QED BY <1>1, <1>2, StepKeeps

LEMMA InitHolds ==
  ASSUME Init PROVE IInv
<1>1. TypeOK
  BY DEF Init, TypeOK, Absent, NoUse, NoSession, Idle, Places
<1>2. LinksOK /\ Queue /\ PasskeyOfItsChallenge
  BY DEF Init, LinksOK, Queue, PasskeyOfItsChallenge, Absent
<1>3. \A s \in Sessions : sessions[s] = NoSession /\ sessions[s].slot = None /\ sessions[s].origin = None
  BY DEF Init, NoSession
<1>4. SessionsBelong /\ SpentFirst /\ Apart
  BY <1>3 DEF SessionsBelong, SpentFirst, Apart
<1>5. \A c \in Slots : Fits(c) /\ Spent(c)
  BY <1>3 DEF Init, Fits, Spent, Idle
<1> QED BY <1>1, <1>2, <1>4, <1>5 DEF IInv

LEMMA BeginningKeeps ==
  ASSUME IInv, NEW c \in Slots, Begin(c) PROVE IInv'
<1>1. CASE \E l \in Links : ReadLink(c, l)
  BY <1>1, ReadLinkKeeps
<1>2. CASE \E e \in Emails : CheckAddress(c, e) \/ ReadPassword(c, e)
  BY <1>2, PasswordKeeps
<1>3. CASE \E ch \in Challenges : ReadChallenge(c, ch)
  BY <1>3, ReadChallengeKeeps
<1>4. ASSUME NEW s \in Sessions,
             \/ ReadExpired(c, s)
             \/ \E op \in {"startPasskey", "revokeOthers"} : Authenticate(c, s, op, None)
             \/ \E ch \in Challenges \ FreshChallenges : Authenticate(c, s, "finishPasskey", ch)
             \/ \E t \in Sessions \ FreshSessions : Authenticate(c, s, "revoke", t)
      PROVE  IInv'
  <2>1. CASE ReadExpired(c, s)
    BY <2>1, MiddlewareKeeps
  <2>2. CASE \E op \in {"startPasskey", "revokeOthers"} : Authenticate(c, s, op, None)
    BY <2>2, MiddlewareKeeps
  <2>3. CASE \E ch \in Challenges \ FreshChallenges : Authenticate(c, s, "finishPasskey", ch)
    BY <2>3, MiddlewareKeeps
  <2>4. CASE \E t \in Sessions \ FreshSessions : Authenticate(c, s, "revoke", t)
    BY <2>4, MiddlewareKeeps
  <2> QED BY <1>4, <2>1, <2>2, <2>3, <2>4
<1> QED BY <1>1, <1>2, <1>3, <1>4 DEF Begin

LEMMA ContinuingKeeps ==
  ASSUME IInv, NEW c \in Slots, Continue(c) PROVE IInv'
BY SpendLinkKeeps, FindUserKeeps, CreateUserKeeps, RegisterKeeps, OpenSessionKeeps,
   RowsGoKeeps, StartRegistrationKeeps, ReadLatestKeeps, SavePasskeyKeeps,
   DeleteChallengeKeeps DEF Continue

\* The invariant is inductive.
LEMMA Inductive ==
  ASSUME IInv, [Next]_vars PROVE IInv'
<1>1. CASE \E l \in FreshLinks, e \in Emails : RequestMagicLink(l, e)
  BY <1>1, RequestMagicLinkKeeps
<1>2. CASE \E ch \in FreshChallenges, e \in Emails : StartLogin(ch, e)
  BY <1>2, StartLoginKeeps
<1>3. CASE \E c \in Slots : Begin(c) \/ Continue(c) \/ Dropped(c)
  BY <1>3, BeginningKeeps, ContinuingKeeps, DroppedKeeps
<1>4. CASE TimePasses
  BY <1>4, LinkExpiresKeeps, ChallengeExpiresKeeps, SessionExpiresKeeps DEF TimePasses
<1>5. CASE UNCHANGED vars
  BY <1>5, StutteringKeeps
<1> QED BY <1>1, <1>2, <1>3, <1>4, <1>5 DEF Next

LEMMA Invariance == Spec => []IInv
BY InitHolds, Inductive, PTL DEF Spec
-----------------------------------------------------------------------------
(* The properties                                                          *)

\* The tables and the requests keep their types.
THEOREM TypeCorrect == Spec => []TypeOK
<1>1. IInv => TypeOK
  BY DEF IInv
<1> QED BY <1>1, Invariance, PTL

\* A session belongs to a registered user, the one its link, its challenge or
\* its password is of, however the logins of all users overlap.
THEOREM SessionsHaveOwners == Spec => []SessionsBelong
<1>1. IInv => SessionsBelong
  BY DEF IInv
<1> QED BY <1>1, Invariance, PTL

\* Only logins that overlap open sessions with the same link, one each.
THEOREM LinksAreSpent == Spec => []LinkOpensOnce
<1>1. IInv => LinkOpensOnce
  BY DEF IInv, SpentFirst, Apart, LinkOpensOnce, OpenedWith
<1> QED BY <1>1, Invariance, PTL

\* The same for challenges, as long as no request is dropped.
THEOREM ChallengesAreDeleted == Spec => []ChallengeOpensOnce
<1>1. IInv => ChallengeOpensOnce
  BY DEF IInv, Apart, ChallengeOpensOnce
<1> QED BY <1>1, Invariance, PTL

\* A passkey is stored for the user its challenge was made for.
THEOREM PasskeysHaveOwners == Spec => []PasskeyOfItsChallenge
<1>1. IInv => PasskeyOfItsChallenge
  BY DEF IInv
<1> QED BY <1>1, Invariance, PTL

\* What a statement does to the sessions.
LEMMA SessionsOfStep ==
  ASSUME [Next]_vars
  PROVE  \/ UNCHANGED sessions
         \/ \E c \in Slots, s \in FreshSessions : OpenSession(c, s)
         \/ \E c \in Slots : Purge(c) \/ RevokeSession(c) \/ RevokeOthers(c)
         \/ \E s \in Sessions : SessionExpires(s)
<1>1. ASSUME NEW c \in Slots, Begin(c) PROVE UNCHANGED sessions
  BY <1>1 DEF Begin, ReadLink, CheckAddress, ReadPassword, ReadChallenge, ReadExpired, Authenticate
<1>2. ASSUME NEW c \in Slots, Continue(c)
      PROVE  \/ UNCHANGED sessions
             \/ \E s \in FreshSessions : OpenSession(c, s)
             \/ Purge(c) \/ RevokeSession(c) \/ RevokeOthers(c)
  BY <1>2 DEF Continue, SpendLink, FindUser, CreateUser, Register, StartRegistration,
              ReadLatest, SavePasskey, DeleteChallenge
<1>3. ASSUME NEW c \in Slots, Dropped(c) PROVE UNCHANGED sessions
  BY <1>3 DEF Dropped
<1>4. ASSUME TimePasses PROVE UNCHANGED sessions \/ \E s \in Sessions : SessionExpires(s)
  BY <1>4 DEF TimePasses, LinkExpires, ChallengeExpires
<1>5. ASSUME \/ \E l \in FreshLinks, e \in Emails : RequestMagicLink(l, e)
             \/ \E ch \in FreshChallenges, e \in Emails : StartLogin(ch, e)
             \/ UNCHANGED vars
      PROVE  UNCHANGED sessions
  BY <1>5 DEF RequestMagicLink, StartLogin, vars
<1> QED BY <1>1, <1>2, <1>3, <1>4, <1>5 DEF Next

\* The row of a session that has not expired is deleted by a request of its user.
THEOREM RevokedByOwner == Spec => OnlyOwnSessionsRevoked
<1>1. ASSUME IInv, [Next]_vars, NEW s \in Sessions,
             sessions[s].status = "live", sessions'[s].status = "deleted"
      PROVE  \E c \in Slots : /\ req[c].user = sessions[s].user
                              /\ req[c].at \in {"revoke", "revokeOthers"}
                              /\ req'[c] = Idle
  <2>1. ~UNCHANGED sessions
    BY <1>1
  <2>2. ASSUME NEW c \in Slots, NEW t \in FreshSessions, OpenSession(c, t) PROVE FALSE
    <3>1. sessions' = [sessions EXCEPT ![t] = [status |-> "live", user |-> req[c].user,
                                               origin |-> req[c].item, slot |-> c]]
      BY <2>2 DEF OpenSession
    <3> QED BY <1>1, <3>1 DEF IInv, TypeOK
  <2>3. ASSUME NEW t \in Sessions, SessionExpires(t) PROVE FALSE
    <3>1. sessions'[s] = IF s = t THEN [sessions[s] EXCEPT !.status = "expired"] ELSE sessions[s]
      BY <1>1, <2>3 DEF SessionExpires, IInv, TypeOK
    <3>2. sessions[s] \in Row
      BY <1>1 DEF IInv, TypeOK, Row
    <3> QED BY <1>1, <3>1, <3>2 DEF Row
  <2>4. ASSUME NEW c \in Slots, Purge(c) \/ RevokeSession(c) \/ RevokeOthers(c)
        PROVE  /\ req[c].user = sessions[s].user /\ req[c].at \in {"revoke", "revokeOthers"}
               /\ req'[c] = Idle
    <3>1. req'[c] = Idle
      BY <1>1, <2>4 DEF Purge, RevokeSession, RevokeOthers, Goes, IInv, TypeOK
    <3>2. ASSUME NEW gone, sessions' = Without(gone) PROVE s \in gone
      BY <1>1, <3>2 DEF Without
    <3>3. CASE Purge(c)
      <4>1. s = req[c].item
        BY <3>2, <3>3 DEF Purge
      <4>2. sessions[s].status # "live"
        BY <1>1, <3>3, <4>1, Request DEF Purge, At, Fits
      <4> QED BY <1>1, <4>2
    <3>4. CASE RevokeSession(c)
      BY <3>1, <3>2, <3>4 DEF RevokeSession, RevokedRow, At
    <3>5. CASE RevokeOthers(c)
      BY <3>1, <3>2, <3>5 DEF RevokeOthers, OtherRows, At
    <3> QED BY <2>4, <3>3, <3>4, <3>5
  <2> QED BY <1>1, <2>1, <2>2, <2>3, <2>4, SessionsOfStep
<1>2. ASSUME IInv, [Next]_vars
      PROVE  [\A s \in Sessions :
                sessions[s].status = "live" /\ sessions'[s].status = "deleted" =>
                  \E c \in Slots : /\ req[c].user = sessions[s].user
                                   /\ req[c].at \in {"revoke", "revokeOthers"}
                                   /\ req'[c] = Idle]_vars
  BY <1>1, <1>2
<1> QED BY <1>2, Invariance, PTL DEF Spec, OnlyOwnSessionsRevoked

\* A user created without a password never gets one, also when a registration
\* and a login by link race for the same address.
THEOREM PasswordsAreOfRegistration == Spec => PasswordsOnlyAtRegistration
<1>1. ASSUME [Next]_vars PROVE UNCHANGED hashed \/ \E c \in Slots : Register(c)
  <2>1. ASSUME NEW c \in Slots, Begin(c) PROVE UNCHANGED hashed
    BY <2>1 DEF Begin, ReadLink, CheckAddress, ReadPassword, ReadChallenge, ReadExpired, Authenticate
  <2>2. ASSUME NEW c \in Slots, Continue(c) PROVE UNCHANGED hashed \/ Register(c)
    BY <2>2 DEF Continue, SpendLink, FindUser, CreateUser, OpenSession, Purge, RevokeSession,
                RevokeOthers, StartRegistration, ReadLatest, SavePasskey, DeleteChallenge
  <2>3. ASSUME TimePasses \/ \E c \in Slots : Dropped(c) PROVE UNCHANGED hashed
    BY <2>3 DEF TimePasses, LinkExpires, ChallengeExpires, SessionExpires, Dropped
  <2>4. ASSUME \/ \E l \in FreshLinks, e \in Emails : RequestMagicLink(l, e)
               \/ \E ch \in FreshChallenges, e \in Emails : StartLogin(ch, e)
               \/ UNCHANGED vars
        PROVE  UNCHANGED hashed
    BY <2>4 DEF RequestMagicLink, StartLogin, vars
  <2> QED BY <1>1, <2>1, <2>2, <2>3, <2>4 DEF Next
<1>2. ASSUME [Next]_vars
      PROVE  [\A e \in users : e \in hashed' => e \in hashed]_vars
  BY <1>1, <1>2 DEF Register, Hashed
<1> QED BY <1>2, PTL DEF Spec, PasswordsOnlyAtRegistration

================================================================================
