---------------------------- MODULE WebAuthProofs ----------------------------
(***************************************************************************)
(* Proofs about WebAuth for any number of processes, users, records, loads *)
(* and faults.                                                             *)
(*                                                                         *)
(* Most of the invariant is about one copy of the store: `Good(s, o)`,     *)
(* where `o` is the history of uses.  Every request takes a good copy to a *)
(* good copy, and copies are only ever made of whole good ones, which is   *)
(* why saves that are lost, overwritten or torn do no harm to it.          *)
(***************************************************************************)
EXTENDS WebAuth, FiniteSetTheorems, TLAPS

USE IdsAssumption, BoundsAssumption

Uses == [OneTime -> Nat]

OneEmail(s) ==
  \A u, v \in UserIds : s.users[u] # None /\ s.users[u] = s.users[v] => u = v

Members(s) ==
  /\ s.passwords \subseteq s.accounts \cap UsersOf(s)
  /\ s.passkeys \subseteq s.accounts \cap UsersOf(s)
  /\ \A c \in Slots : s.sessions[c] # None => s.sessions[c].user \in s.accounts \cap UsersOf(s)

\* No challenge of s is for user u.
Unchallenged(s, u) == \A k \in Challenges : s.challenges[k] # None => s.challenges[k].user # u

\* A challenge with a user has an address.  If that user has no account, it is
\* the id reserved for a sign-up, which no user and no other challenge has.
Addressed(s) ==
  \A k \in Challenges :
    LET u == s.challenges[k].user
    IN  s.challenges[k] # None /\ u # None =>
          /\ s.challenges[k].email # None
          /\ u \notin s.accounts =>
               /\ u \notin UsersOf(s)
               /\ \A j \in Challenges \ {k} : s.challenges[j] # None => s.challenges[j].user # u

\* What the session in slot c says of the record that it came from.
FromSpent(s, o, c) ==
  LET x == s.sessions[c].origin
  IN  /\ x \in Links => s.links[x] # None /\ s.links[x].used
      /\ x \in Challenges => s.challenges[x] = None
      /\ x \in OneTime => o[x] > 0
      /\ \A d \in Slots : x # None /\ s.sessions[d] # None /\ s.sessions[d].origin = x => d = c

SessionsSpent(s, o) == \A c \in Slots : s.sessions[c] # None => FromSpent(s, o, c)

Good(s, o) ==
  /\ s \in StoreSet
  /\ OneEmail(s) /\ Members(s) /\ Addressed(s) /\ SessionsSpent(s, o)

IInv == TypeOK /\ \A s \in Stores : Good(s, opened)

AtLeast(o2, o) == \A x \in OneTime : o[x] <= o2[x]

-----------------------------------------------------------------------------
(* Copies of the store                                                     *)

LEMMA EmptyIsGood == ASSUME NEW o \in Uses PROVE Good(EmptyStore, o)
<1>1. EmptyStore \in StoreSet
  BY DEF EmptyStore, StoreSet
<1>2. OneEmail(EmptyStore) /\ Members(EmptyStore) /\ Addressed(EmptyStore) /\ SessionsSpent(EmptyStore, o)
  BY DEF EmptyStore, OneEmail, Members, Addressed, SessionsSpent, UsersOf
<1> QED BY <1>1, <1>2 DEF Good

\* A good copy stays good as records are used elsewhere.
LEMMA StaysGood ==
  ASSUME NEW o \in Uses, NEW o2 \in Uses, AtLeast(o2, o), NEW s, Good(s, o)
  PROVE  Good(s, o2)
<1>1. SessionsSpent(s, o2)
  BY DEF Good, SessionsSpent, FromSpent, AtLeast, Uses
<1> QED BY <1>1 DEF Good

\* The three ways in which a request ends.
Ends(p, s) == Answered(p, s) \/ Failed(p, s) \/ Cut(p, s)

LEMMA CopiesAreGood ==
  ASSUME IInv, NEW p \in Running, NEW s, Ends(p, s),
         opened' \in Uses, AtLeast(opened', opened), Good(s, opened'),
         loads' = loads, lapsed' = lapsed, refused' \in SUBSET Links
  PROVE  IInv'
<1>1. /\ mem' \in [Processes -> StoreSet \cup {None}]
      /\ \A q \in Processes : mem'[q] \in {mem[q], s, None}
  BY DEF Ends, Answered, Failed, Cut, Running, IInv, TypeOK, Good
<1>2. kv' \in {kv, s} /\ file' \in {file, s, EmptyStore}
      /\ faults' \in 0..MaxFaults
  BY DEF Ends, Answered, Failed, Cut, SaveState, IInv, TypeOK
<1>3. \A t \in Stores' : t = s \/ t = EmptyStore \/ t \in Stores
  BY <1>1, <1>2 DEF Stores, Running
<1>4. \A t \in Stores' : Good(t, opened')
  <2> SUFFICES ASSUME NEW t \in Stores' PROVE Good(t, opened')
    OBVIOUS
  <2>1. CASE t = s
    BY <2>1
  <2>2. CASE t = EmptyStore
    BY <2>2, EmptyIsGood
  <2>3. CASE t \in Stores
    <3>1. opened \in Uses /\ Good(t, opened)
      BY <2>3 DEF IInv, TypeOK, Uses
    <3> QED BY <3>1, StaysGood
  <2> QED BY <1>3, <2>1, <2>2, <2>3
<1>5. TypeOK'
  <2>1. kv' \in StoreSet \cup {None} /\ file' \in StoreSet
    BY <1>2, EmptyIsGood DEF IInv, TypeOK, Good
  <2> QED BY <1>1, <1>2, <2>1 DEF IInv, TypeOK, Uses
<1> QED BY <1>4, <1>5 DEF IInv

-----------------------------------------------------------------------------
(* What requests do to a copy                                              *)

(* Each conjunct of Good is kept by each change.                           *)

LEMMA UserIsGood ==
  ASSUME NEW o \in Uses, NEW s, Good(s, o), NEW u \in UserIds, NEW e \in Emails,
         WithEmail(s, e) = {}, u \in s.accounts \/ Unchallenged(s, u)
  PROVE  Good(WithUser(s, u, e), o)
<1> DEFINE s2 == WithUser(s, u, e)
<1>1. s2 \in StoreSet
  BY DEF Good, StoreSet, WithUser
<1>2. OneEmail(s2)
  BY DEF Good, StoreSet, OneEmail, WithUser, WithEmail
<1>3. Members(s2)
  BY DEF Good, StoreSet, Members, UsersOf, WithUser
<1>4. Addressed(s2)
  BY DEF Good, StoreSet, Addressed, UsersOf, WithUser, Unchallenged
<1>5. SessionsSpent(s2, o)
  BY DEF Good, StoreSet, SessionsSpent, FromSpent, WithUser
<1> QED BY <1>1, <1>2, <1>3, <1>4, <1>5 DEF Good

LEMMA AccountIsGood ==
  ASSUME NEW o \in Uses, NEW s, Good(s, o), NEW u \in UserIds
  PROVE  Good(WithAccount(s, u), o)
<1> DEFINE s2 == WithAccount(s, u)
<1>1. s2 \in StoreSet
  BY DEF Good, StoreSet, WithAccount
<1>2. OneEmail(s2)
  BY DEF Good, StoreSet, OneEmail, WithAccount
<1>3. Members(s2)
  BY DEF Good, StoreSet, Members, UsersOf, WithAccount
<1>4. Addressed(s2)
  BY DEF Good, StoreSet, Addressed, UsersOf, WithAccount
<1>5. SessionsSpent(s2, o)
  BY DEF Good, StoreSet, SessionsSpent, FromSpent, WithAccount
<1> QED BY <1>1, <1>2, <1>3, <1>4, <1>5 DEF Good

LEMMA LinkIsGood ==
  ASSUME NEW o \in Uses, NEW s, Good(s, o), NEW l \in Links, NEW e \in Emails,
         s.links[l] = None
  PROVE  Good([s EXCEPT !.links[l] = [email |-> e, used |-> FALSE]], o)
<1> DEFINE s2 == [s EXCEPT !.links[l] = [email |-> e, used |-> FALSE]]
<1>1. s2 \in StoreSet
  BY DEF Good, StoreSet, LinkRecords
<1>2. OneEmail(s2)
  BY DEF Good, StoreSet, OneEmail
<1>3. Members(s2)
  BY DEF Good, StoreSet, Members, UsersOf
<1>4. Addressed(s2)
  BY DEF Good, StoreSet, Addressed, UsersOf
<1>5. SessionsSpent(s2, o)
  BY DEF Good, StoreSet, SessionsSpent, FromSpent
<1> QED BY <1>1, <1>2, <1>3, <1>4, <1>5 DEF Good

LEMMA SpentIsGood ==
  ASSUME NEW o \in Uses, NEW s, Good(s, o), NEW l \in Links, s.links[l] # None
  PROVE  Good(Spent(s, l), o)
<1> DEFINE r  == [s.links[l] EXCEPT !.used = TRUE]
           s2 == [s EXCEPT !.links[l] = r]
<1>1. r \in LinkRecords /\ r.used /\ r # None
  <2>1. s.links[l] \in LinkRecords
    BY DEF Good, StoreSet
  <2> QED BY <2>1, NoneAssumption DEF LinkRecords
<1> HIDE DEF r
<1>2. s2 \in StoreSet
  BY <1>1 DEF Good, StoreSet
<1>3. OneEmail(s2) /\ Members(s2) /\ Addressed(s2)
  BY DEF Good, StoreSet, OneEmail, Members, UsersOf, Addressed
<1>4. SessionsSpent(s2, o)
  BY <1>1 DEF Good, StoreSet, SessionsSpent, FromSpent
<1>5. Good(s2, o)
  BY <1>2, <1>3, <1>4 DEF Good
<1> QED BY <1>5 DEF Spent, r

LEMMA SessionIsGood ==
  ASSUME NEW o \in Uses, NEW s, Good(s, o), NEW c \in Slots, s.sessions[c] = None,
         NEW u \in s.accounts \cap UsersOf(s), NEW x \in Links \cup Challenges \cup {None},
         x # None => \A d \in Slots : s.sessions[d] # None => s.sessions[d].origin # x,
         x \in Links => s.links[x] # None /\ s.links[x].used,
         x \in Challenges => s.challenges[x] = None,
         x \in OneTime => o[x] > 0
  PROVE  Good(WithSession(s, c, u, x), o)
<1> DEFINE s2 == WithSession(s, c, u, x)
<1>1. s2 \in StoreSet
  BY DEF Good, StoreSet, WithSession, Session, SessionRecords, UsersOf
<1>2. OneEmail(s2)
  BY DEF Good, StoreSet, OneEmail, WithSession, Session
<1>3. Members(s2)
  BY DEF Good, StoreSet, Members, UsersOf, WithSession, Session
<1>4. Addressed(s2)
  BY DEF Good, StoreSet, Addressed, UsersOf, WithSession, Session
<1>5. SessionsSpent(s2, o)
  BY DEF Good, StoreSet, SessionsSpent, FromSpent, WithSession, Session
<1> QED BY <1>1, <1>2, <1>3, <1>4, <1>5 DEF Good

LEMMA FewerSessionsAreGood ==
  ASSUME NEW o \in Uses, NEW s, Good(s, o), NEW f \in [Slots -> SessionRecords \cup {None}],
         \A d \in Slots : f[d] \in {s.sessions[d], None}
  PROVE  Good([s EXCEPT !.sessions = f], o)
<1> DEFINE s2 == [s EXCEPT !.sessions = f]
<1>1. s2 \in StoreSet
  BY DEF Good, StoreSet
<1>2. OneEmail(s2)
  BY DEF Good, StoreSet, OneEmail
<1>3. Members(s2)
  BY DEF Good, StoreSet, Members, UsersOf
<1>4. Addressed(s2)
  BY DEF Good, StoreSet, Addressed, UsersOf
<1>5. SessionsSpent(s2, o)
  BY DEF Good, StoreSet, SessionsSpent, FromSpent
<1> QED BY <1>1, <1>2, <1>3, <1>4, <1>5 DEF Good

LEMMA RemovedIsGood ==
  ASSUME NEW o \in Uses, NEW s, Good(s, o), NEW k \in Challenges
  PROVE  Good(Removed(s, k), o)
<1> DEFINE s2 == Removed(s, k)
<1>1. s2 \in StoreSet
  BY DEF Good, StoreSet, Removed
<1>2. OneEmail(s2)
  BY DEF Good, StoreSet, OneEmail, Removed
<1>3. Members(s2)
  BY DEF Good, StoreSet, Members, UsersOf, Removed
<1>4. Addressed(s2)
  BY DEF Good, StoreSet, Addressed, UsersOf, Removed
<1>5. SessionsSpent(s2, o)
  BY DEF Good, StoreSet, SessionsSpent, FromSpent, Removed
<1> QED BY <1>1, <1>2, <1>3, <1>4, <1>5 DEF Good

LEMMA ChallengeIsGood ==
  ASSUME NEW o \in Uses, NEW s, Good(s, o), NEW k \in Challenges, o[k] = 0,
         NEW ch \in ChallengeRecords, ch.user # None => ch.email # None,
         ch.user # None /\ ch.user \notin s.accounts =>
           ch.user \notin UsersOf(s) /\ Unchallenged(s, ch.user)
  PROVE  Good(WithChallenge(s, k, ch), o)
<1> DEFINE s2 == WithChallenge(s, k, ch)
<1>1. s2 \in StoreSet
  BY DEF Good, StoreSet, WithChallenge
<1>2. OneEmail(s2)
  BY DEF Good, StoreSet, OneEmail, WithChallenge
<1>3. Members(s2)
  BY DEF Good, StoreSet, Members, UsersOf, WithChallenge
<1>4. Addressed(s2)
  BY DEF Good, StoreSet, Addressed, UsersOf, WithChallenge, Unchallenged
<1>5. SessionsSpent(s2, o)
  BY DEF Good, StoreSet, SessionsSpent, FromSpent, WithChallenge, OneTime
<1> QED BY <1>1, <1>2, <1>3, <1>4, <1>5 DEF Good

LEMMA PasskeyIsGood ==
  ASSUME NEW o \in Uses, NEW s, Good(s, o), NEW u \in s.accounts \cap UsersOf(s)
  PROVE  Good([s EXCEPT !.passkeys = @ \cup {u}], o)
<1> DEFINE s2 == [s EXCEPT !.passkeys = @ \cup {u}]
<1>1. s2 \in StoreSet
  BY DEF Good, StoreSet, UsersOf
<1>2. OneEmail(s2)
  BY DEF Good, StoreSet, OneEmail
<1>3. Members(s2)
  BY DEF Good, StoreSet, Members, UsersOf
<1>4. Addressed(s2)
  BY DEF Good, StoreSet, Addressed, UsersOf
<1>5. SessionsSpent(s2, o)
  BY DEF Good, StoreSet, SessionsSpent, FromSpent
<1> QED BY <1>1, <1>2, <1>3, <1>4, <1>5 DEF Good

LEMMA PasswordIsGood ==
  ASSUME NEW o \in Uses, NEW s, Good(s, o), NEW u \in s.accounts \cap UsersOf(s)
  PROVE  Good([s EXCEPT !.passwords = @ \cup {u}], o)
<1> DEFINE s2 == [s EXCEPT !.passwords = @ \cup {u}]
<1>1. s2 \in StoreSet
  BY DEF Good, StoreSet, UsersOf
<1>2. OneEmail(s2)
  BY DEF Good, StoreSet, OneEmail
<1>3. Members(s2)
  BY DEF Good, StoreSet, Members, UsersOf
<1>4. Addressed(s2)
  BY DEF Good, StoreSet, Addressed, UsersOf
<1>5. SessionsSpent(s2, o)
  BY DEF Good, StoreSet, SessionsSpent, FromSpent
<1> QED BY <1>1, <1>2, <1>3, <1>4, <1>5 DEF Good

LEMMA ProfileIsGood ==
  ASSUME NEW o \in Uses, NEW s, Good(s, o), NEW u \in UsersOf(s), NEW e \in Emails,
         WithEmail(s, e) \subseteq {u}
  PROVE  Good([s EXCEPT !.users[u] = e], o)
<1> DEFINE s2 == [s EXCEPT !.users[u] = e]
<1>1. s2 \in StoreSet
  BY DEF Good, StoreSet, UsersOf
<1>2. OneEmail(s2)
  BY DEF Good, StoreSet, OneEmail, WithEmail, UsersOf
<1>3. Members(s2)
  BY DEF Good, StoreSet, Members, UsersOf
<1>4. Addressed(s2)
  BY DEF Good, StoreSet, Addressed, UsersOf
<1>5. SessionsSpent(s2, o)
  BY DEF Good, StoreSet, SessionsSpent, FromSpent
<1> QED BY <1>1, <1>2, <1>3, <1>4, <1>5 DEF Good

LEMMA StatesAreGood ==
  ASSUME NEW o \in Uses, NEW s, Good(s, o), NEW t \in SUBSET States
  PROVE  Good([s EXCEPT !.states = t], o)
<1> DEFINE s2 == [s EXCEPT !.states = t]
<1>1. s2 \in StoreSet
  BY DEF Good, StoreSet
<1>2. OneEmail(s2)
  BY DEF Good, StoreSet, OneEmail
<1>3. Members(s2)
  BY DEF Good, StoreSet, Members, UsersOf
<1>4. Addressed(s2)
  BY DEF Good, StoreSet, Addressed, UsersOf
<1>5. SessionsSpent(s2, o)
  BY DEF Good, StoreSet, SessionsSpent, FromSpent
<1> QED BY <1>1, <1>2, <1>3, <1>4, <1>5 DEF Good

-----------------------------------------------------------------------------
(* Ends of requests                                                        *)

LEMMA CopyOf ==
  ASSUME IInv, NEW p \in Running
  PROVE  /\ Good(mem[p], opened) /\ mem[p] \in Stores
         /\ opened \in Uses
  BY DEF IInv, TypeOK, Running, Stores, Uses

LEMMA Used ==
  ASSUME NEW o \in Uses, NEW x \in OneTime
  PROVE  LET o2 == [o EXCEPT ![x] = @ + 1]
         IN  /\ o2 \in Uses /\ AtLeast(o2, o) /\ o2[x] > 0
             /\ \A s : Good(s, o) => Good(s, o2)
<1> DEFINE o2 == [o EXCEPT ![x] = @ + 1]
<1>1. o2 \in Uses /\ AtLeast(o2, o) /\ o2[x] > 0
  BY DEF Uses, AtLeast
<1> QED BY <1>1, StaysGood

LEMMA NewUserIsNew ==
  ASSUME IInv, NEW p \in Running, NEW u \in NewUsers
  PROVE  u \in UserIds /\ u \notin UsersOf(mem[p]) /\ Unchallenged(mem[p], u)
  BY CopyOf DEF NewUsers, Unchallenged, UsersOf

LEMMA EndsWithoutUse ==
  ASSUME IInv, NEW p \in Running, NEW s, Ends(p, s), Good(s, opened), NothingOpened
  PROVE  IInv'
<1>1. opened' = opened /\ opened' \in Uses /\ AtLeast(opened', opened) /\ refused' \in SUBSET Links
  BY CopyOf DEF NothingOpened, AtLeast, Uses, IInv, TypeOK
<1> QED BY <1>1, CopiesAreGood DEF NothingOpened

LEMMA EndsWithUse ==
  ASSUME IInv, NEW p \in Running, NEW s, NEW x \in OneTime, Opened(x), Ends(p, s),
         Good(s, opened')
  PROVE  IInv'
<1>1. opened' \in Uses /\ AtLeast(opened', opened) /\ refused' \in SUBSET Links
  BY CopyOf, Used DEF Opened, IInv, TypeOK
<1> QED BY <1>1, CopiesAreGood DEF Opened

-----------------------------------------------------------------------------
(* Magic links                                                             *)

LEMMA RequestMagicLinkKeeps ==
  ASSUME IInv, NEW p \in Running, NEW e \in Emails, NEW l \in NewLinks,
         NEW u \in NewUsers \cup {None}, RequestMagicLink(p, e, l, u)
  PROVE  IInv'
<1> DEFINE s1 == IF u = None THEN mem[p] ELSE WithUser(mem[p], u, e)
<1>1. Good(s1, opened)
  BY CopyOf, UserIsGood, NewUserIsNew DEF RequestMagicLink
<1>2. l \in Links /\ s1.links[l] = None
  BY CopyOf DEF NewLinks, WithUser, Good, StoreSet
<1>3. Good([s1 EXCEPT !.links[l] = [email |-> e, used |-> FALSE]], opened)
  BY <1>1, <1>2, CopyOf, LinkIsGood
<1> QED BY <1>3, EndsWithoutUse DEF RequestMagicLink, Ends

LEMMA MagicLinkOfNobodyKeeps ==
  ASSUME IInv, NEW p \in Running, NEW l \in Links, MagicLinkOfNobody(p, l)
  PROVE  IInv'
<1>1. Good(Spent(mem[p], l), opened)
  BY CopyOf, SpentIsGood DEF MagicLinkOfNobody, Usable
<1>2. opened' = opened /\ AtLeast(opened', opened) /\ opened' \in Uses /\ refused' \in SUBSET Links
  BY CopyOf DEF MagicLinkOfNobody, AtLeast, Uses, IInv, TypeOK
<1> QED BY <1>1, <1>2, CopiesAreGood DEF MagicLinkOfNobody, Ends

LEMMA LoginViaMagicLinkKeeps ==
  ASSUME IInv, NEW p \in Running, NEW l \in Links, NEW c \in NewSlots, LoginViaMagicLink(p, l, c)
  PROVE  IInv'
<1>1. PICK u \in WithEmail(mem[p], mem[p].links[l].email) :
        LET s == FirstLogin(Spent(mem[p], l), u)
        IN  \/ Answered(p, WithSession(s, c, u, l)) /\ Opened(l)
            \/ u \notin mem[p].accounts /\ Cut(p, s) /\ NothingOpened
  BY DEF LoginViaMagicLink
<1> DEFINE s1 == Spent(mem[p], l)
           s == FirstLogin(s1, u)
<1>2. l \in OneTime /\ mem[p].links[l] # None /\ ~mem[p].links[l].used /\ c \in Slots
  BY DEF OneTime, LoginViaMagicLink, Usable, NewSlots
<1>3. mem[p].links[l] \in LinkRecords /\ u \in UsersOf(mem[p])
  BY <1>1, <1>2, CopyOf DEF Good, StoreSet, LinkRecords, WithEmail, UsersOf
<1>4. Good(s1, opened) /\ Good(s, opened)
  BY <1>2, <1>3, CopyOf, SpentIsGood, AccountIsGood DEF FirstLogin, UsersOf
<1>5. CASE Answered(p, WithSession(s, c, u, l)) /\ Opened(l)
  <2>1. opened' \in Uses /\ Good(s, opened') /\ opened'[l] > 0
    BY <1>2, <1>4, <1>5, CopyOf, Used DEF Opened
  <2>2. s.sessions = mem[p].sessions /\ s.sessions[c] = None
    BY CopyOf DEF FirstLogin, WithAccount, Spent, Good, StoreSet, NewSlots
  <2>3. u \in s.accounts \cap UsersOf(s)
    BY <1>3, CopyOf DEF FirstLogin, WithAccount, Spent, Good, StoreSet, UsersOf
  <2>4. s.links[l].used /\ s.links[l] # None
    <3>1. s.links[l] = [mem[p].links[l] EXCEPT !.used = TRUE]
      BY CopyOf DEF FirstLogin, WithAccount, Spent, Good, StoreSet
    <3> QED BY <1>3, <3>1, NoneAssumption DEF LinkRecords
  <2>5. \A d \in Slots : s.sessions[d] # None => s.sessions[d].origin # l
    BY <1>2, <2>2, CopyOf, SMTT(40) DEF Good, SessionsSpent, FromSpent
  <2>6. Good(WithSession(s, c, u, l), opened')
    BY <1>2, <2>1, <2>2, <2>3, <2>4, <2>5, SessionIsGood
  <2> QED BY <1>2, <1>5, <2>6, EndsWithUse DEF Ends
<1>6. CASE Cut(p, s) /\ NothingOpened
  BY <1>4, <1>6, EndsWithoutUse DEF Ends
<1> QED BY <1>1, <1>5, <1>6

-----------------------------------------------------------------------------
(* Passwords and the profile                                               *)

\* A session that comes from no record.
LEMMA PlainSessionIsGood ==
  ASSUME NEW o \in Uses, NEW s, Good(s, o), NEW c \in Slots, s.sessions[c] = None,
         NEW u \in s.accounts \cap UsersOf(s)
  PROVE  Good(WithSession(s, c, u, None), o)
<1>1. None \notin Links /\ None \notin Challenges
  BY IdsAssumption DEF OneTime
<1> QED BY <1>1, SessionIsGood

LEMMA RegisterWithPasswordKeeps ==
  ASSUME IInv, NEW p \in Running, NEW e \in Emails, NEW u \in NewUsers, NEW c \in NewSlots,
         RegisterWithPassword(p, e, u, c)
  PROVE  IInv'
<1> DEFINE s1 == WithUser(mem[p], u, e)
           s2 == WithAccount(s1, u)
           s  == WithAccount([s1 EXCEPT !.passwords = @ \cup {u}], u)
<1>1. WithEmail(mem[p], e) = {} /\ u \in UserIds /\ c \in Slots
  BY DEF RegisterWithPassword, NewUsers, NewSlots
<1>2. Good(s1, opened) /\ Good(s2, opened)
  BY <1>1, CopyOf, NewUserIsNew, UserIsGood, AccountIsGood
<1>3. u \in s2.accounts \cap UsersOf(s2)
  BY <1>1, CopyOf DEF WithAccount, WithUser, UsersOf, Good, StoreSet
<1>4. s = [s2 EXCEPT !.passwords = @ \cup {u}]
  BY CopyOf, s1 \in StoreSet DEF WithAccount, WithUser, Good, StoreSet
<1>5. Good(s, opened)
  BY <1>2, <1>3, <1>4, CopyOf, PasswordIsGood
<1>6. u \in s.accounts \cap UsersOf(s) /\ s.sessions[c] = None
  BY <1>1, CopyOf DEF WithAccount, WithUser, UsersOf, NewSlots, Good, StoreSet
<1>7. Good(WithSession(s, c, u, None), opened)
  BY <1>1, <1>5, <1>6, CopyOf, PlainSessionIsGood
<1> QED BY <1>5, <1>7, EndsWithoutUse DEF RegisterWithPassword, Ends

LEMMA LoginWithPasswordKeeps ==
  ASSUME IInv, NEW p \in Running, NEW u \in UserIds, NEW c \in NewSlots,
         LoginWithPassword(p, u, c)
  PROVE  IInv'
<1>1. u \in mem[p].accounts \cap UsersOf(mem[p]) /\ c \in Slots /\ mem[p].sessions[c] = None
  BY CopyOf DEF LoginWithPassword, Good, Members, NewSlots
<1>2. Good(WithSession(mem[p], c, u, None), opened)
  BY <1>1, CopyOf, PlainSessionIsGood
<1> QED BY <1>2, EndsWithoutUse DEF LoginWithPassword, Ends

\* Who an authenticated request is from.
LEMMA Caller ==
  ASSUME IInv, NEW p \in Running, NEW c \in Slots, Authenticated(mem[p], c)
  PROVE  mem[p].sessions[c].user \in mem[p].accounts \cap UsersOf(mem[p])
  BY CopyOf DEF Authenticated, Good, Members

LEMMA UpdateUserProfileKeeps ==
  ASSUME IInv, NEW p \in Running, NEW c \in Slots, NEW e \in Emails, UpdateUserProfile(p, c, e)
  PROVE  IInv'
<1> DEFINE u == mem[p].sessions[c].user
<1>1. u \in UsersOf(mem[p]) /\ WithEmail(mem[p], e) \subseteq {u}
  BY Caller DEF UpdateUserProfile, EmailAvailable, UsersOf
<1>2. Good([mem[p] EXCEPT !.users[u] = e], opened)
  BY <1>1, CopyOf, ProfileIsGood
<1> QED BY <1>2, EndsWithoutUse DEF UpdateUserProfile, Ends

-----------------------------------------------------------------------------
(* Sessions                                                                *)

LEMMA LogoutKeeps ==
  ASSUME IInv, NEW p \in Running, NEW c \in Slots,
         Logout(p, c) \/ \E b \in Slots : RevokeSession(p, b, c)
  PROVE  IInv'
<1> DEFINE f == [mem[p].sessions EXCEPT ![c] = None]
<1>1. f \in [Slots -> SessionRecords \cup {None}] /\ \A d \in Slots : f[d] \in {mem[p].sessions[d], None}
  BY CopyOf DEF Good, StoreSet
<1>2. Good([mem[p] EXCEPT !.sessions = f], opened)
  BY <1>1, CopyOf, FewerSessionsAreGood
<1> QED BY <1>2, EndsWithoutUse DEF Logout, RevokeSession, Ends

LEMMA ToggleSessionWhitelistKeeps ==
  ASSUME IInv, NEW p \in Running, NEW c \in Slots, ToggleSessionWhitelist(p, c)
  PROVE  IInv'
  BY CopyOf, EndsWithoutUse DEF ToggleSessionWhitelist, Ends

LEMMA RevokeOtherSessionsKeeps ==
  ASSUME IInv, NEW p \in Running, NEW c \in Slots, RevokeOtherSessions(p, c)
  PROVE  IInv'
<1> DEFINE f == [d \in Slots |-> IF d \in OtherSessions(mem[p], c) THEN None ELSE mem[p].sessions[d]]
<1>1. f \in [Slots -> SessionRecords \cup {None}] /\ \A d \in Slots : f[d] \in {mem[p].sessions[d], None}
  BY CopyOf DEF Good, StoreSet
<1>2. Good([mem[p] EXCEPT !.sessions = f], opened)
  BY <1>1, CopyOf, FewerSessionsAreGood
<1> QED BY <1>2, EndsWithoutUse DEF RevokeOtherSessions, Ends

-----------------------------------------------------------------------------
(* Passkeys                                                                *)

LEMMA StartPasskeyKeeps ==
  ASSUME IInv, NEW p \in Running, NEW k \in NewChallenges,
         \/ \E c \in Slots : RegisterPasskeyStart(p, c, k)
         \/ \E e \in Emails, u \in NewUsers : StartSignup(p, e, k, u)
         \/ StartPasskeyLogin(p, k)
  PROVE  IInv'
<1> DEFINE Fits(ch) ==
      /\ ch \in ChallengeRecords /\ (ch.user # None => ch.email # None)
      /\ ch.user # None /\ ch.user \notin mem[p].accounts =>
           ch.user \notin UsersOf(mem[p]) /\ Unchallenged(mem[p], ch.user)
<1>1. PICK ch : Answered(p, WithChallenge(mem[p], k, ch)) /\ NothingOpened /\ Fits(ch)
  <2>1. CASE \E c \in Slots : RegisterPasskeyStart(p, c, k)
    <3>1. PICK c \in Slots : RegisterPasskeyStart(p, c, k)
      BY <2>1
    <3> DEFINE u  == mem[p].sessions[c].user
               ch == Challenge(u, mem[p].users[u], FALSE)
    <3>2. u \in UserIds /\ mem[p].users[u] \in Emails /\ u \in mem[p].accounts
      <4>1. Authenticated(mem[p], c)
        BY <3>1 DEF RegisterPasskeyStart
      <4>2. u \in mem[p].accounts /\ u \in UsersOf(mem[p])
        BY <4>1, Caller
      <4>3. mem[p].users \in [UserIds -> Emails \cup {None}]
        BY CopyOf DEF Good, StoreSet
      <4> HIDE DEF u
      <4> QED BY <4>2, <4>3 DEF UsersOf
    <3>3. ch \in ChallengeRecords /\ ch.email # None /\ ch.user \in mem[p].accounts
      BY <3>2 DEF Challenge, ChallengeRecords
    <3> QED BY <3>1, <3>3 DEF RegisterPasskeyStart
  <2>2. CASE \E e \in Emails, u \in NewUsers : StartSignup(p, e, k, u)
    <3>1. PICK e \in Emails, u \in NewUsers : StartSignup(p, e, k, u)
      BY <2>2
    <3> DEFINE ch == Challenge(u, e, TRUE)
    <3>2. ch \in ChallengeRecords /\ ch.email # None
          /\ ch.user \notin UsersOf(mem[p]) /\ Unchallenged(mem[p], ch.user)
      BY NewUserIsNew DEF Challenge, ChallengeRecords
    <3> QED BY <3>1, <3>2 DEF StartSignup
  <2>3. CASE StartPasskeyLogin(p, k)
    <3>1. PICK ch \in {Challenge(u, mem[p].users[u], TRUE) : u \in mem[p].passkeys}
                      \cup {Challenge(None, None, TRUE)} :
            Answered(p, WithChallenge(mem[p], k, ch)) /\ NothingOpened
      BY <2>3 DEF StartPasskeyLogin
    <3>2. CASE ch = Challenge(None, None, TRUE)
      <4>1. ch \in ChallengeRecords /\ ch.user = None
        BY <3>2 DEF Challenge, ChallengeRecords
      <4> QED BY <3>1, <4>1
    <3>3. CASE \E u \in mem[p].passkeys : ch = Challenge(u, mem[p].users[u], TRUE)
      <4>1. PICK u \in mem[p].passkeys : ch = Challenge(u, mem[p].users[u], TRUE)
        BY <3>3
      <4>2. u \in UserIds /\ mem[p].users[u] \in Emails /\ u \in mem[p].accounts
        BY CopyOf DEF Good, Members, UsersOf, StoreSet
      <4>3. ch \in ChallengeRecords /\ ch.email # None /\ ch.user \in mem[p].accounts
        BY <4>1, <4>2 DEF Challenge, ChallengeRecords
      <4> QED BY <3>1, <4>3
    <3> QED BY <3>1, <3>2, <3>3
  <2> QED BY <2>1, <2>2, <2>3
<1>2. k \in Challenges /\ opened[k] = 0
  BY DEF NewChallenges
<1>3. Good(WithChallenge(mem[p], k, ch), opened)
  BY <1>1, <1>2, CopyOf, ChallengeIsGood
<1> QED BY <1>1, <1>3, EndsWithoutUse DEF Ends

LEMMA RegisterPasskeyFinishKeeps ==
  ASSUME IInv, NEW p \in Running, NEW c \in Slots, NEW k \in Challenges,
         RegisterPasskeyFinish(p, c, k)
  PROVE  IInv'
<1> DEFINE u == mem[p].sessions[c].user
           s == Removed(mem[p], k)
<1>1. Good(s, opened) /\ u \in s.accounts \cap UsersOf(s)
  <2>1. u \in mem[p].accounts \cap UsersOf(mem[p])
    BY Caller DEF RegisterPasskeyFinish
  <2>2. s.accounts = mem[p].accounts /\ UsersOf(s) = UsersOf(mem[p])
    BY CopyOf DEF Removed, Good, StoreSet, UsersOf
  <2> QED BY <2>1, <2>2, CopyOf, RemovedIsGood
<1>2. Good([s EXCEPT !.passkeys = @ \cup {u}], opened)
  BY <1>1, CopyOf, PasskeyIsGood
<1>3. [s EXCEPT !.passkeys = @ \cup {u}]
      = [mem[p] EXCEPT !.challenges[k] = None, !.passkeys = @ \cup {u}]
  BY CopyOf DEF Removed, Good, StoreSet
<1> QED BY <1>2, <1>3, EndsWithoutUse DEF RegisterPasskeyFinish, Ends

LEMMA PasskeyFinishFailsKeeps ==
  ASSUME IInv, NEW p \in Running, NEW k \in Challenges, PasskeyFinishFails(p, k)
  PROVE  IInv'
  BY CopyOf, RemovedIsGood, EndsWithoutUse DEF PasskeyFinishFails, Ends

\* The removed challenge leaves the copy good and has opened no session in it.
LEMMA Finishing ==
  ASSUME IInv, NEW p \in Running, NEW k \in Challenges, MayFinish(mem[p], k)
  PROVE  /\ Good(Removed(mem[p], k), opened) /\ k \in OneTime
         /\ Removed(mem[p], k).sessions = mem[p].sessions
         /\ Removed(mem[p], k).accounts = mem[p].accounts
         /\ Removed(mem[p], k).users = mem[p].users
         /\ Removed(mem[p], k).challenges[k] = None
         /\ \A d \in Slots : mem[p].sessions[d] # None => mem[p].sessions[d].origin # k
<1>1. \A d \in Slots : mem[p].sessions[d] # None => mem[p].sessions[d].origin # k
  BY CopyOf DEF Good, SessionsSpent, FromSpent, MayFinish
<1>2. Good(Removed(mem[p], k), opened)
  BY CopyOf, RemovedIsGood
<1>3. mem[p] \in StoreSet
  BY CopyOf DEF Good
<1> QED BY <1>1, <1>2, <1>3 DEF Removed, StoreSet, OneTime

\* A session that comes from a finished challenge.
LEMMA ChallengeSessionIsGood ==
  ASSUME NEW o \in Uses, NEW s, Good(s, o), NEW c \in Slots, s.sessions[c] = None,
         NEW u \in s.accounts \cap UsersOf(s), NEW k \in Challenges,
         s.challenges[k] = None, o[k] > 0,
         \A d \in Slots : s.sessions[d] # None => s.sessions[d].origin # k
  PROVE  Good(WithSession(s, c, u, k), o)
<1>1. k \notin Links
  BY IdsAssumption
<1> QED BY <1>1, SessionIsGood

LEMMA LoginPasskeyFinishKeeps ==
  ASSUME IInv, NEW p \in Running, NEW k \in Challenges, NEW c \in NewSlots,
         LoginPasskeyFinish(p, k, c)
  PROVE  IInv'
<1> DEFINE s == Removed(mem[p], k)
<1>1. MayFinish(mem[p], k) /\ Opened(k) /\ k \in OneTime
  BY DEF LoginPasskeyFinish, OneTime
<1>2. PICK u \in Claimed(mem[p], k) \cap UsersOf(mem[p]) : Answered(p, WithSession(s, c, u, k))
  BY DEF LoginPasskeyFinish
<1>3. opened' \in Uses /\ opened'[k] > 0 /\ Good(s, opened')
  BY <1>1, CopyOf, Finishing, Used DEF Opened
<1>4. u \in s.accounts \cap UsersOf(s)
  <2>1. CASE mem[p].challenges[k].user = None
    BY <1>1, <1>2, <2>1, CopyOf, Finishing DEF Claimed, Good, Members, UsersOf
  <2>2. CASE mem[p].challenges[k].user # None
    BY <1>1, <1>2, <2>2, CopyOf, Finishing DEF Claimed, Good, Addressed, UsersOf, MayFinish
  <2> QED BY <2>1, <2>2
<1>5. c \in Slots /\ s.sessions[c] = None
  BY <1>1, CopyOf, Finishing DEF NewSlots
<1>6. Good(WithSession(s, c, u, k), opened')
  BY <1>1, <1>3, <1>4, <1>5, Finishing, ChallengeSessionIsGood
<1> QED BY <1>1, <1>2, <1>6, EndsWithUse DEF Ends

\* The user of a finished sign-up, with a passkey and an account.
LEMMA SignedUpIsGood ==
  ASSUME IInv, NEW p \in Running, NEW k \in Challenges, MayFinish(mem[p], k), SignsUp(mem[p], k)
  PROVE  LET ch == mem[p].challenges[k]
             s1 == WithUser(Removed(mem[p], k), ch.user, ch.email)
             s2 == WithAccount([s1 EXCEPT !.passkeys = @ \cup {ch.user}], ch.user)
         IN  /\ Good(s1, opened) /\ Good(s2, opened)
             /\ ch.user \in s2.accounts \cap UsersOf(s2)
             /\ s2.sessions = mem[p].sessions /\ s2.challenges[k] = None
<1> DEFINE s  == Removed(mem[p], k)
           ch == mem[p].challenges[k]
           s1 == WithUser(s, ch.user, ch.email)
           s2 == WithAccount([s1 EXCEPT !.passkeys = @ \cup {ch.user}], ch.user)
           s3 == WithAccount(s1, ch.user)
<1>1. ch.user \in UserIds /\ ch.email \in Emails
  <2>1. ch \in ChallengeRecords
    BY CopyOf DEF MayFinish, Good, StoreSet
  <2>2. ch.user # None /\ ch.email # None
    BY CopyOf DEF MayFinish, SignsUp, Good, Addressed
  <2> QED BY <2>1, <2>2 DEF ChallengeRecords
<1>2. Good(s, opened) /\ s \in StoreSet /\ mem[p] \in StoreSet
  BY CopyOf, Finishing DEF Good
<1>3. WithEmail(s, ch.email) = {}
  BY Finishing DEF SignsUp, WithEmail
<1>4. ch.user \in s.accounts \/ Unchallenged(s, ch.user)
  <2>1. CASE ch.user \in mem[p].accounts
    BY <2>1, Finishing
  <2>2. CASE ch.user \notin mem[p].accounts
    <3>1. \A j \in Challenges \ {k} :
            mem[p].challenges[j] # None => mem[p].challenges[j].user # ch.user
      BY <1>1, <2>2, CopyOf, IdsAssumption DEF Good, Addressed, MayFinish
    <3>2. \A j \in Challenges : s.challenges[j] = (IF j = k THEN None ELSE mem[p].challenges[j])
      BY <1>2 DEF Removed, StoreSet
    <3> QED BY <3>1, <3>2 DEF Unchallenged
  <2> QED BY <2>1, <2>2
<1>5. Good(s1, opened)
  BY <1>1, <1>2, <1>3, <1>4, CopyOf, UserIsGood
<1>6. Good(s3, opened) /\ s1 \in StoreSet
  BY <1>1, <1>5, CopyOf, AccountIsGood DEF Good
<1>7. ch.user \in s3.accounts \cap UsersOf(s3)
  BY <1>1, <1>2, IdsAssumption DEF WithAccount, WithUser, UsersOf, StoreSet
<1>8. s2 = [s3 EXCEPT !.passkeys = @ \cup {ch.user}]
  BY <1>6 DEF WithAccount, StoreSet
<1>9. Good(s2, opened)
  <2>1. opened \in Uses
    BY CopyOf
  <2> HIDE DEF s2, s3
  <2>2. Good([s3 EXCEPT !.passkeys = @ \cup {ch.user}], opened)
    BY <1>6, <1>7, <2>1, PasskeyIsGood
  <2> QED BY <1>8, <2>2
<1>10. ch.user \in s2.accounts \cap UsersOf(s2)
  BY <1>6, <1>7, <1>8 DEF UsersOf, WithAccount, StoreSet
<1>11. s2.sessions = mem[p].sessions /\ s2.challenges[k] = None
  <2>1. s2.sessions = s.sessions /\ s2.challenges = s.challenges
    BY <1>2 DEF WithAccount, WithUser, StoreSet
  <2>2. s.sessions = mem[p].sessions /\ s.challenges[k] = None
    BY Finishing
  <2> HIDE DEF s, s2
  <2> QED BY <2>1, <2>2
<1> QED BY <1>5, <1>9, <1>10, <1>11

LEMMA SignupFailsKeeps ==
  ASSUME IInv, NEW p \in Running, NEW k \in Challenges, SignupFails(p, k)
  PROVE  IInv'
  BY SignedUpIsGood, EndsWithoutUse DEF SignupFails, Ends

LEMMA FinishSignupKeeps ==
  ASSUME IInv, NEW p \in Running, NEW k \in Challenges, NEW c \in NewSlots, FinishSignup(p, k, c)
  PROVE  IInv'
<1> DEFINE ch == mem[p].challenges[k]
           s1 == WithUser(Removed(mem[p], k), ch.user, ch.email)
           s  == WithAccount([s1 EXCEPT !.passkeys = @ \cup {ch.user}], ch.user)
<1>1. MayFinish(mem[p], k) /\ SignsUp(mem[p], k)
  BY DEF FinishSignup
<1>2. /\ Good(s, opened) /\ ch.user \in s.accounts \cap UsersOf(s)
      /\ s.sessions = mem[p].sessions /\ s.challenges[k] = None
  BY <1>1, SignedUpIsGood
<1>3. \/ Answered(p, WithSession(s, c, ch.user, k)) /\ Opened(k)
      \/ Cut(p, s) /\ NothingOpened
  BY DEF FinishSignup
<1> HIDE DEF s
<1>4. CASE Answered(p, WithSession(s, c, ch.user, k)) /\ Opened(k)
  <2>1. k \in OneTime /\ opened' \in Uses /\ opened'[k] > 0 /\ Good(s, opened')
    BY <1>2, <1>4, CopyOf, Used DEF Opened, OneTime
  <2>2. c \in Slots /\ s.sessions[c] = None
    BY <1>2, CopyOf DEF NewSlots
  <2>3. \A d \in Slots : s.sessions[d] # None => s.sessions[d].origin # k
    BY <1>1, <1>2, Finishing
  <2>4. Good(WithSession(s, c, ch.user, k), opened')
    BY <1>2, <2>1, <2>2, <2>3, ChallengeSessionIsGood
  <2> QED BY <1>4, <2>1, <2>4, EndsWithUse DEF Ends
<1>5. CASE Cut(p, s) /\ NothingOpened
  BY <1>2, <1>5, EndsWithoutUse DEF Ends
<1> QED BY <1>3, <1>4, <1>5

-----------------------------------------------------------------------------
(* OAuth states, and the steps that are no requests                        *)

LEMMA StatesKeep ==
  ASSUME IInv, NEW p \in Running, NEW t \in States, StartRedirect(p, t) \/ ConsumeState(p, t)
  PROVE  IInv'
<1>1. mem[p].states \subseteq States /\ t \in OneTime
  BY CopyOf DEF Good, StoreSet, OneTime
<1>2. CASE StartRedirect(p, t)
  <2>1. Good([mem[p] EXCEPT !.states = @ \cup {t}], opened)
    BY <1>1, CopyOf, StatesAreGood
  <2> QED BY <1>2, <2>1, EndsWithoutUse DEF StartRedirect, Ends
<1>3. CASE ConsumeState(p, t)
  <2>1. opened' \in Uses /\ Good(mem[p], opened')
    BY <1>1, <1>3, CopyOf, Used DEF ConsumeState, Opened
  <2>2. Good([mem[p] EXCEPT !.states = @ \ {t}], opened')
    BY <1>1, <2>1, StatesAreGood
  <2> QED BY <1>1, <1>3, <2>2, EndsWithUse DEF ConsumeState, Ends
<1> QED BY <1>2, <1>3

\* A step that makes no new copy.
LEMMA NoNewCopy ==
  ASSUME IInv, TypeOK', Stores' \subseteq Stores, opened' = opened
  PROVE  IInv'
  BY DEF IInv

LEMMA LoadKeeps == ASSUME IInv, NEW p \in Processes, Load(p) PROVE IInv'
<1>1. file \in Stores /\ (kv # None => kv \in Stores)
  BY DEF Stores
<1>2. TypeOK'
  BY DEF IInv, TypeOK, Load
<1>3. \A q \in Processes : mem'[q] \in {mem[q], kv, file}
  BY DEF IInv, TypeOK, Load
<1>4. Stores' \subseteq Stores
  BY <1>1, <1>3 DEF Stores, Running, Load
<1> QED BY <1>2, <1>4, NoNewCopy DEF Load

LEMMA DieKeeps == ASSUME IInv, NEW p \in Running, Die(p) PROVE IInv'
<1>1. TypeOK'
  BY DEF IInv, TypeOK, Die
<1>2. \A q \in Processes : mem'[q] \in {mem[q], None}
  BY DEF IInv, TypeOK, Die
<1>3. Stores' \subseteq Stores
  BY <1>2 DEF Stores, Running, Die
<1> QED BY <1>1, <1>3, NoNewCopy DEF Die

LEMMA ExpireKeeps ==
  ASSUME IInv, NEW x \in Links \cup Challenges \cup Slots, Expire(x) PROVE IInv'
<1>1. TypeOK'
  BY DEF IInv, TypeOK, Expire
<1>2. Stores' = Stores
  BY DEF Stores, Running, Expire
<1> QED BY <1>1, <1>2, NoNewCopy DEF Expire

LEMMA StutterKeeps == ASSUME IInv, UNCHANGED vars PROVE IInv'
<1>1. TypeOK' /\ Stores' = Stores
  BY DEF vars, IInv, TypeOK, Stores, Running
<1> QED BY <1>1, NoNewCopy DEF vars

-----------------------------------------------------------------------------
(* The theorems                                                            *)

LEMMA InitGood == Init => IInv
<1> SUFFICES ASSUME Init PROVE IInv
  OBVIOUS
<1>1. opened \in Uses
  BY DEF Init, Uses
<1>2. TypeOK
  BY <1>1, EmptyIsGood DEF Init, TypeOK, Uses, Good
<1>3. \A s \in Stores : s = EmptyStore
  BY DEF Init, Stores, Running
<1> QED BY <1>1, <1>2, <1>3, EmptyIsGood DEF IInv

LEMMA NextGood == IInv /\ [Next]_vars => IInv'
<1> SUFFICES ASSUME IInv, [Next]_vars PROVE IInv'
  OBVIOUS
<1>1. ASSUME NEW p \in Processes, Load(p) PROVE IInv'
  BY <1>1, LoadKeeps
<1>2. ASSUME NEW p \in Running, ByMagicLink(p) PROVE IInv'
  BY <1>2, RequestMagicLinkKeeps, MagicLinkOfNobodyKeeps, LoginViaMagicLinkKeeps DEF ByMagicLink
<1>3. ASSUME NEW p \in Running, ByPassword(p) PROVE IInv'
  BY <1>3, RegisterWithPasswordKeeps, LoginWithPasswordKeeps DEF ByPassword
<1>4. ASSUME NEW p \in Running, InSession(p) PROVE IInv'
  BY <1>4, LogoutKeeps, ToggleSessionWhitelistKeeps, RevokeOtherSessionsKeeps,
     UpdateUserProfileKeeps, StartPasskeyKeeps, RegisterPasskeyFinishKeeps DEF InSession
<1>5. ASSUME NEW p \in Running, ByPasskey(p) PROVE IInv'
  BY <1>5, StartPasskeyKeeps, PasskeyFinishFailsKeeps, SignupFailsKeeps,
     LoginPasskeyFinishKeeps, FinishSignupKeeps DEF ByPasskey
<1>6. ASSUME NEW p \in Running, ByProvider(p) PROVE IInv'
  BY <1>6, StatesKeep DEF ByProvider, NewStates
<1>7. ASSUME NEW p \in Running, Die(p) PROVE IInv'
  BY <1>7, DieKeeps
<1>8. ASSUME NEW x \in Links \cup Challenges \cup Slots, Expire(x) PROVE IInv'
  BY <1>8, ExpireKeeps
<1>9. CASE UNCHANGED vars
  BY <1>9, StutterKeeps
<1> QED BY <1>1, <1>2, <1>3, <1>4, <1>5, <1>6, <1>7, <1>8, <1>9 DEF Next

LEMMA AlwaysGood == Spec => []IInv
  BY InitGood, NextGood, PTL DEF Spec

\* Every copy of the store keeps its types.
THEOREM TypeCorrect == Spec => []TypeOK
<1>1. IInv => TypeOK
  BY DEF IInv
<1> QED BY <1>1, AlwaysGood, PTL

\* No copy of the store, of any process or saved, ever has two users with one
\* address.
THEOREM AddressesAreUnique == Spec => []OneUserPerEmail
<1>1. IInv => OneUserPerEmail
  BY DEF IInv, Good, OneEmail, OneUserPerEmail
<1> QED BY <1>1, AlwaysGood, PTL

\* Whoever can log in or is logged in has an account, in every copy.
THEOREM LoggedInIsMember == Spec => []MembersHaveAccounts
<1>1. IInv => MembersHaveAccounts
  BY DEF IInv, Good, Members, MembersHaveAccounts
<1> QED BY <1>1, AlwaysGood, PTL

\* A copy that knows of the session of a link or challenge has it used up.
THEOREM SessionsComeFromSpentRecords == Spec => []SpentWithItsSession
<1>1. IInv => SpentWithItsSession
  <2> SUFFICES ASSUME IInv, NEW s \in Stores, NEW c \in Slots,
                      s.sessions[c] # None, s.sessions[c].origin # None
               PROVE  LET x == s.sessions[c].origin
                      IN  /\ x \in Links => s.links[x] # None /\ s.links[x].used
                          /\ x \in Challenges => s.challenges[x] = None
                          /\ \A d \in Slots :
                               s.sessions[d] # None /\ s.sessions[d].origin = x => d = c
    BY DEF SpentWithItsSession
  <2>1. FromSpent(s, opened, c)
    BY DEF IInv, Good, SessionsSpent
  <2> QED BY <2>1 DEF FromSpent
<1> QED BY <1>1, AlwaysGood, PTL

==============================================================================
