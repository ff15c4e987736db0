--------------------------- MODULE WebAuthUsesProofs ---------------------------
(***************************************************************************)
(* Proofs about WebAuth: how often a link, a challenge or a state record   *)
(* is used, what is lost when a process dies, and which sessions the next  *)
(* process knows of.                                                       *)
(*                                                                         *)
(* `Served(p, s)` is all that these need to know of a request of process p *)
(* that leaves the copy s: which records it uses up, how it ends, and what *)
(* it may lose.  Every request is shown to be of that shape, once, and     *)
(* each property follows from the shapes by a count of its own.            *)
(***************************************************************************)
EXTENDS WebAuthProofs

USE IdsAssumption, BoundsAssumption

-----------------------------------------------------------------------------
(* The shape of a request                                                  *)

\* Copy s lets record x through once more.
Live(s, x) ==
  \/ x \in Links /\ s.links[x] # None /\ ~s.links[x].used
  \/ x \in Challenges /\ s.challenges[x] # None
  \/ x \in States /\ x \in s.states

\* In copy s link l is used up, and there was no session for it, nor an error.
LostIn(s, l, o, r) == l \notin r /\ s.links[l] # None /\ s.links[l].used /\ o[l] = 0

\* A request of p that leaves s uses up what it opens, and makes live only
\* what has not been used.
Uses1(p, s, x) == opened'[x] = opened[x] + 1 /\ Live(mem[p], x) /\ ~Live(s, x)
Keeps1(p, s, x) == opened'[x] = opened[x] /\ (Live(s, x) => Live(mem[p], x) \/ opened[x] = 0)

\* The request loses no link but those of L.
LosesOnly(p, s, L) ==
  \A l \in Links \ L : LostIn(s, l, opened', refused') => LostIn(mem[p], l, opened, refused)

\* What no save has to follow: s has p's sessions, and p's links but for those
\* that an error has used up.
SameButRefused(p, s) ==
  /\ s.sessions = mem[p].sessions
  /\ \A l \in Links \ refused' : s.links[l] = mem[p].links[l]

\* Something is used, and a session or a link changes, only with a save, but for
\* links that an error uses up; a link is lost only by a process that dies, one
\* at a time.
Served(p, s) ==
  /\ s \in StoreSet /\ loads' = loads /\ refused \subseteq refused'
  /\ \A x \in OneTime : (Uses1(p, s, x) /\ Answered(p, s)) \/ Keeps1(p, s, x)
  /\ \/ Answered(p, s) /\ LosesOnly(p, s, {})
     \/ Failed(p, s) /\ LosesOnly(p, s, {}) /\ SameButRefused(p, s)
     \/ Cut(p, s) /\ \E l \in Links \cup {None} : LosesOnly(p, s, {l})

\* Copies with the same records, but for sessions and users.
SameRecords(s, t) == s.links = t.links /\ s.challenges = t.challenges /\ s.states = t.states

LEMMA SameLive ==
  ASSUME NEW s, NEW t, SameRecords(s, t) PROVE \A x : Live(s, x) <=> Live(t, x)
  BY DEF SameRecords, Live

\* A copy with the links of p's has lost no more.
LEMMA SameLinksLose ==
  ASSUME IInv, NEW p \in Running, NEW s, s.links = mem[p].links, refused \subseteq refused',
         opened' \in Uses, AtLeast(opened', opened)
  PROVE  LosesOnly(p, s, {})
<1> SUFFICES ASSUME NEW l \in Links, LostIn(s, l, opened', refused')
             PROVE  LostIn(mem[p], l, opened, refused)
  BY DEF LosesOnly
<1>1. opened[l] = 0
  BY CopyOf DEF LostIn, AtLeast, Uses, OneTime
<1> QED BY <1>1 DEF LostIn

\* The history after a request that opens nothing, or record y.
LEMMA HistoryGrows ==
  ASSUME IInv, NothingOpened \/ \E y \in OneTime : Opened(y)
  PROVE  /\ loads' = loads /\ refused' = refused
         /\ opened' \in Uses /\ AtLeast(opened', opened)
<1>1. opened \in Uses
  BY DEF IInv, TypeOK, Uses
<1> QED BY <1>1 DEF NothingOpened, Opened, AtLeast, Uses

\* Requests that open nothing and touch no link.
LEMMA PlainServed ==
  ASSUME IInv, NEW p \in Running, NEW s \in StoreSet, NothingOpened, s.links = mem[p].links,
         Answered(p, s) \/ Cut(p, s) \/ (Failed(p, s) /\ s.sessions = mem[p].sessions),
         \A x \in OneTime : Live(s, x) => Live(mem[p], x) \/ opened[x] = 0
  PROVE  Served(p, s)
<1>1. \A x \in OneTime : Keeps1(p, s, x)
  BY DEF NothingOpened, Keeps1
<1>2. LosesOnly(p, s, {}) /\ loads' = loads /\ refused' = refused
  BY HistoryGrows, SameLinksLose
<1>3. LosesOnly(p, s, {None})
  BY <1>2 DEF LosesOnly
<1>4. Failed(p, s) /\ s.sessions = mem[p].sessions => SameButRefused(p, s)
  BY DEF SameButRefused
<1> QED BY <1>1, <1>2, <1>3, <1>4 DEF Served

\* The same without a change of records at all.
LEMMA SameServed ==
  ASSUME IInv, NEW p \in Running, NEW s \in StoreSet, NothingOpened, SameRecords(s, mem[p]),
         Answered(p, s) \/ Cut(p, s) \/ (Failed(p, s) /\ s.sessions = mem[p].sessions)
  PROVE  Served(p, s)
<1>1. \A x \in OneTime : Live(s, x) => Live(mem[p], x)
  BY SameLive
<1> QED BY <1>1, PlainServed DEF SameRecords

\* A request that opens record y and touches no link.
LEMMA OpeningServed ==
  ASSUME IInv, NEW p \in Running, NEW s \in StoreSet, Answered(p, s), NEW y \in OneTime, Opened(y),
         s.links = mem[p].links, Live(mem[p], y), ~Live(s, y),
         \A x \in OneTime \ {y} : Live(s, x) => Live(mem[p], x)
  PROVE  Served(p, s)
<1>1. \A x \in OneTime : Uses1(p, s, x) \/ Keeps1(p, s, x)
  BY CopyOf DEF Opened, Uses1, Keeps1, Uses
<1>2. LosesOnly(p, s, {}) /\ loads' = loads /\ refused' = refused
  BY HistoryGrows, SameLinksLose
<1> QED BY <1>1, <1>2 DEF Served

\* Copies that differ from s in the use of one record.
LEMMA SpentLive ==
  ASSUME NEW s \in StoreSet, NEW l \in Links, s.links[l] # None, NEW t, SameRecords(t, Spent(s, l))
  PROVE  /\ ~Live(t, l) /\ \A x : Live(t, x) => Live(s, x)
         /\ \A x \in Links \ {l} : t.links[x] = s.links[x]
<1>1. /\ t.links = [s.links EXCEPT ![l].used = TRUE]
      /\ t.challenges = s.challenges /\ t.states = s.states
  BY DEF SameRecords, Spent, StoreSet
<1>2. s.links[l] \in LinkRecords /\ t.links[l].used
  BY <1>1 DEF StoreSet, LinkRecords
<1>3. \A x \in Links \ {l} : t.links[x] = s.links[x]
  BY <1>1 DEF StoreSet
<1>4. ~Live(t, l)
  BY <1>2 DEF Live
<1>5. ASSUME NEW x, Live(t, x) PROVE Live(s, x)
  BY <1>1, <1>2, <1>3, <1>5 DEF Live
<1> QED BY <1>3, <1>4, <1>5

LEMMA SpentIsAStore ==
  ASSUME NEW s \in StoreSet, NEW l \in Links, s.links[l] # None
  PROVE  Spent(s, l) \in StoreSet /\ Spent(s, l).sessions = s.sessions
<1> DEFINE r == [s.links[l] EXCEPT !.used = TRUE]
<1>1. r \in LinkRecords
  <2>1. s.links[l] \in LinkRecords
    BY DEF StoreSet
  <2> QED BY <2>1 DEF LinkRecords
<1>2. Spent(s, l) = [s EXCEPT !.links[l] = r]
  BY DEF Spent
<1> HIDE DEF r
<1>3. [s EXCEPT !.links[l] = r] \in StoreSet
  BY <1>1 DEF StoreSet
<1> QED BY <1>2, <1>3 DEF StoreSet

LEMMA RemovedLive ==
  ASSUME NEW s \in StoreSet, NEW k \in Challenges, NEW t, SameRecords(t, Removed(s, k))
  PROVE  ~Live(t, k) /\ t.links = s.links /\ \A x : Live(t, x) => Live(s, x)
<1>1. /\ t.challenges = [s.challenges EXCEPT ![k] = None]
      /\ t.links = s.links /\ t.states = s.states
  BY DEF SameRecords, Removed, StoreSet
<1>2. \A x \in Challenges : t.challenges[x] = IF x = k THEN None ELSE s.challenges[x]
  BY <1>1 DEF StoreSet
<1> QED BY <1>1, <1>2 DEF Live

LEMMA RequestMagicLinkServed ==
  ASSUME IInv, NEW p \in Running, NEW e \in Emails, NEW l \in NewLinks,
         NEW u \in NewUsers \cup {None}, RequestMagicLink(p, e, l, u)
  PROVE  \E s : Served(p, s)
<1>0. mem[p] \in StoreSet
  BY CopyOf DEF Good
<1> DEFINE s1 == IF u = None THEN mem[p] ELSE WithUser(mem[p], u, e)
           s  == [s1 EXCEPT !.links[l] = [email |-> e, used |-> FALSE]]
<1>1. SameRecords(s1, mem[p]) /\ s1 \in StoreSet
  BY <1>0 DEF RequestMagicLink, WithUser, SameRecords, StoreSet, NewUsers
<1>9. s \in StoreSet
  BY <1>1 DEF StoreSet, LinkRecords, NewLinks
<1>2. /\ s.challenges = mem[p].challenges /\ s.states = mem[p].states
      /\ \A x \in Links \ {l} : s.links[x] = mem[p].links[x]
      /\ s.links[l] = [email |-> e, used |-> FALSE]
  BY <1>1 DEF SameRecords, StoreSet, NewLinks
<1>3. l \in Links /\ opened[l] = 0
  BY DEF NewLinks
<1>4. \A x \in OneTime : Live(s, x) => Live(mem[p], x) \/ opened[x] = 0
  BY <1>2, <1>3 DEF Live
<1>5. Answered(p, s) /\ NothingOpened
  BY DEF RequestMagicLink
<1> HIDE DEF s
<1>6. LosesOnly(p, s, {})
  BY <1>2, <1>3, <1>5 DEF LosesOnly, LostIn, NothingOpened
<1>7. \A x \in OneTime : Keeps1(p, s, x)
  BY <1>4, <1>5 DEF NothingOpened, Keeps1
<1> QED BY <1>5, <1>6, <1>7, <1>9 DEF NothingOpened, Served

LEMMA MagicLinkOfNobodyServed ==
  ASSUME IInv, NEW p \in Running, NEW l \in Links, MagicLinkOfNobody(p, l)
  PROVE  \E s : Served(p, s)
<1>0. mem[p] \in StoreSet /\ mem[p].links[l] # None
  BY CopyOf DEF Good, MagicLinkOfNobody, Usable
<1> DEFINE s == Spent(mem[p], l)
<1>1. /\ \A x : Live(s, x) => Live(mem[p], x)
      /\ \A x \in Links \ {l} : s.links[x] = mem[p].links[x]
  BY <1>0, SpentLive DEF SameRecords
<1>2. s.sessions = mem[p].sessions /\ s \in StoreSet
  BY <1>0, SpentIsAStore
<1>3. /\ Failed(p, s) /\ refused' = refused \cup {l}
      /\ loads' = loads /\ opened' = opened
  BY DEF MagicLinkOfNobody
<1> HIDE DEF s
<1>4. LosesOnly(p, s, {})
  BY <1>1, <1>3 DEF LosesOnly, LostIn
<1>5. \A x \in OneTime : Keeps1(p, s, x)
  BY <1>1, <1>3 DEF Keeps1
<1>6. SameButRefused(p, s)
  BY <1>1, <1>2, <1>3 DEF SameButRefused
<1> QED BY <1>2, <1>3, <1>4, <1>5, <1>6 DEF Served

LEMMA LoginViaMagicLinkServed ==
  ASSUME IInv, NEW p \in Running, NEW l \in Links, NEW c \in NewSlots, LoginViaMagicLink(p, l, c)
  PROVE  \E s : Served(p, s)
<1>0. mem[p] \in StoreSet
  BY CopyOf DEF Good
<1>1. PICK u \in WithEmail(mem[p], mem[p].links[l].email) :
        LET s == FirstLogin(Spent(mem[p], l), u)
        IN  \/ Answered(p, WithSession(s, c, u, l)) /\ Opened(l)
            \/ u \notin mem[p].accounts /\ Cut(p, s) /\ NothingOpened
  BY DEF LoginViaMagicLink
<1> DEFINE s == FirstLogin(Spent(mem[p], l), u)
           w == WithSession(s, c, u, l)
<1>2. l \in OneTime /\ mem[p].links[l] # None /\ Live(mem[p], l)
  BY DEF OneTime, LoginViaMagicLink, Usable, Live
<1>3. SameRecords(s, Spent(mem[p], l)) /\ SameRecords(w, Spent(mem[p], l))
  BY <1>0 DEF SameRecords, FirstLogin, WithAccount, WithSession, Spent, StoreSet
<1>9. s \in StoreSet /\ w \in StoreSet
  <2>1. Spent(mem[p], l) \in StoreSet
    BY <1>0, <1>2, SpentIsAStore
  <2>2. s \in StoreSet
    BY <2>1 DEF FirstLogin, WithAccount, WithEmail, StoreSet
  <2> HIDE DEF s
  <2> QED BY <2>2 DEF WithSession, Session, SessionRecords, NewSlots, WithEmail, StoreSet
<1>4. (Answered(p, w) /\ Opened(l)) \/ (Cut(p, s) /\ NothingOpened)
  BY <1>1
<1> HIDE DEF s, w
<1>5. ASSUME NEW t \in {s, w}
      PROVE  /\ ~Live(t, l) /\ \A x : Live(t, x) => Live(mem[p], x)
             /\ \A x \in Links \ {l} : t.links[x] = mem[p].links[x]
  BY <1>0, <1>2, <1>3, SpentLive
<1>6. opened \in Uses
  BY CopyOf
<1>7. CASE Answered(p, w) /\ Opened(l)
  <2>1. /\ opened'[l] = opened[l] + 1 /\ loads' = loads /\ refused' = refused
        /\ \A x \in OneTime \ {l} : opened'[x] = opened[x]
    BY <1>2, <1>6, <1>7 DEF Opened, Uses
  <2>2. \A x \in OneTime : Uses1(p, w, x) \/ Keeps1(p, w, x)
    BY <1>2, <1>5, <2>1 DEF Uses1, Keeps1
  <2>3. LosesOnly(p, w, {})
    BY <1>2, <1>5, <1>6, <2>1 DEF LosesOnly, LostIn, OneTime, Uses
  <2> QED BY <1>7, <1>9, <2>1, <2>2, <2>3 DEF Served
<1>8. CASE Cut(p, s) /\ NothingOpened
  <2>1. \A x \in OneTime : Keeps1(p, s, x)
    BY <1>5, <1>8 DEF NothingOpened, Keeps1
  <2>2. LosesOnly(p, s, {l})
    BY <1>5, <1>8 DEF LosesOnly, LostIn, NothingOpened
  <2> QED BY <1>8, <1>9, <2>1, <2>2 DEF NothingOpened, Served
<1> QED BY <1>4, <1>7, <1>8

LEMMA ByPasswordServed ==
  ASSUME IInv, NEW p \in Running, ByPassword(p) PROVE \E s : Served(p, s)
<1>0. mem[p] \in StoreSet
  BY CopyOf DEF Good
<1>1. ASSUME NEW c \in NewSlots, NEW e \in Emails, NEW u \in NewUsers, RegisterWithPassword(p, e, u, c)
      PROVE  \E s : Served(p, s)
  <2> DEFINE s == WithAccount([WithUser(mem[p], u, e) EXCEPT !.passwords = @ \cup {u}], u)
             w == WithSession(s, c, u, None)
  <2>1. SameRecords(s, mem[p]) /\ SameRecords(w, mem[p])
    BY <1>0 DEF SameRecords, WithAccount, WithUser, WithSession, StoreSet
  <2>2. s \in StoreSet
    BY <1>0 DEF WithAccount, WithUser, StoreSet, NewUsers
  <2>3. w \in StoreSet
    <3> HIDE DEF s
    <3> QED BY <2>2 DEF WithSession, Session, SessionRecords, NewSlots, NewUsers, StoreSet
  <2>4. (Answered(p, w) \/ Cut(p, s)) /\ NothingOpened
    BY <1>1 DEF RegisterWithPassword
  <2> HIDE DEF s, w
  <2> QED BY <2>1, <2>2, <2>3, <2>4, SameServed
<1>2. ASSUME NEW c \in NewSlots, NEW u \in UserIds, LoginWithPassword(p, u, c) PROVE \E s : Served(p, s)
  <2>1. SameRecords(WithSession(mem[p], c, u, None), mem[p])
    BY <1>0 DEF SameRecords, WithSession, StoreSet
  <2>2. WithSession(mem[p], c, u, None) \in StoreSet
    BY <1>0 DEF WithSession, Session, SessionRecords, NewSlots, StoreSet
  <2> QED BY <1>2, <2>1, <2>2, SameServed DEF LoginWithPassword
<1> QED BY <1>1, <1>2 DEF ByPassword

\* A new challenge has opened nothing.
LEMMA NewChallengeServed ==
  ASSUME IInv, NEW p \in Running, NEW k \in NewChallenges, NEW ch \in ChallengeRecords,
         Answered(p, WithChallenge(mem[p], k, ch)), NothingOpened
  PROVE  \E s : Served(p, s)
<1> DEFINE s == WithChallenge(mem[p], k, ch)
<1>1. /\ s.links = mem[p].links /\ s.states = mem[p].states
      /\ \A x \in Challenges \ {k} : s.challenges[x] = mem[p].challenges[x]
  BY CopyOf DEF WithChallenge, Good, StoreSet
<1>2. \A x \in OneTime : Live(s, x) => Live(mem[p], x) \/ opened[x] = 0
  BY <1>1 DEF Live, NewChallenges
<1>3. Answered(p, s) /\ s \in StoreSet
  BY CopyOf DEF WithChallenge, Good, StoreSet, NewChallenges
<1> HIDE DEF s
<1> QED BY <1>1, <1>2, <1>3, PlainServed

LEMMA InSessionServed ==
  ASSUME IInv, NEW p \in Running, InSession(p) PROVE \E s : Served(p, s)
<1>0. mem[p] \in StoreSet
  BY CopyOf DEF Good
<1>1. ASSUME NEW c \in Slots, Logout(p, c) PROVE \E s : Served(p, s)
  <2> DEFINE s == [mem[p] EXCEPT !.sessions[c] = None]
  <2>1. SameRecords(s, mem[p]) /\ Answered(p, s) /\ NothingOpened /\ s \in StoreSet
    BY <1>0, <1>1 DEF Logout, SameRecords, StoreSet
  <2> HIDE DEF s
  <2> QED BY <2>1, SameServed
<1>2. ASSUME NEW c \in Slots, ToggleSessionWhitelist(p, c) PROVE \E s : Served(p, s)
  BY <1>0, <1>2, SameServed DEF ToggleSessionWhitelist, SameRecords
<1>3. ASSUME NEW c \in Slots, RevokeOtherSessions(p, c) PROVE \E s : Served(p, s)
  <2> DEFINE s == [mem[p] EXCEPT !.sessions =
                     [d \in Slots |-> IF d \in OtherSessions(mem[p], c) THEN None
                                      ELSE mem[p].sessions[d]]]
  <2>1. SameRecords(s, mem[p]) /\ Answered(p, s) /\ NothingOpened /\ s \in StoreSet
    BY <1>0, <1>3 DEF RevokeOtherSessions, SameRecords, StoreSet
  <2> HIDE DEF s
  <2> QED BY <2>1, SameServed
<1>4. ASSUME NEW c \in Slots, NEW d \in Slots, RevokeSession(p, c, d) PROVE \E s : Served(p, s)
  <2> DEFINE s == [mem[p] EXCEPT !.sessions[d] = None]
  <2>1. SameRecords(s, mem[p]) /\ Answered(p, s) /\ NothingOpened /\ s \in StoreSet
    BY <1>0, <1>4 DEF RevokeSession, SameRecords, StoreSet
  <2> HIDE DEF s
  <2> QED BY <2>1, SameServed
<1>5. ASSUME NEW c \in Slots, NEW e \in Emails, UpdateUserProfile(p, c, e) PROVE \E s : Served(p, s)
  <2> DEFINE s == [mem[p] EXCEPT !.users[mem[p].sessions[c].user] = e]
  <2>1. SameRecords(s, mem[p]) /\ Answered(p, s) /\ NothingOpened /\ s \in StoreSet
    BY <1>0, <1>5 DEF UpdateUserProfile, SameRecords, StoreSet
  <2> HIDE DEF s
  <2> QED BY <2>1, SameServed
<1>6. ASSUME NEW c \in Slots, NEW k \in NewChallenges, RegisterPasskeyStart(p, c, k) PROVE \E s : Served(p, s)
  <2> DEFINE u  == mem[p].sessions[c].user
             ch == Challenge(u, mem[p].users[u], FALSE)
  <2>1. ch \in ChallengeRecords
    BY <1>0, <1>6 DEF RegisterPasskeyStart, Authenticated, Challenge, ChallengeRecords, SessionRecords, StoreSet
  <2>2. Answered(p, WithChallenge(mem[p], k, ch)) /\ NothingOpened
    BY <1>6 DEF RegisterPasskeyStart
  <2> HIDE DEF ch
  <2> QED BY <2>1, <2>2, NewChallengeServed
<1>7. ASSUME NEW c \in Slots, NEW k \in Challenges, RegisterPasskeyFinish(p, c, k) PROVE \E s : Served(p, s)
  <2> DEFINE s == [mem[p] EXCEPT !.challenges[k] = None,
                                 !.passkeys = @ \cup {mem[p].sessions[c].user}]
  <2>1. SameRecords(s, Removed(mem[p], k))
    BY <1>0 DEF SameRecords, Removed, StoreSet
  <2>2. Answered(p, s) /\ NothingOpened /\ s \in StoreSet
    BY <1>0, <1>7 DEF RegisterPasskeyFinish, Authenticated, SessionRecords, UsersOf, StoreSet
  <2> HIDE DEF s
  <2>3. s.links = mem[p].links /\ \A x : Live(s, x) => Live(mem[p], x)
    BY <1>0, <2>1, RemovedLive
  <2> QED BY <2>2, <2>3, PlainServed
<1> QED BY <1>1, <1>2, <1>3, <1>4, <1>5, <1>6, <1>7 DEF InSession

LEMMA ByPasskeyServed ==
  ASSUME IInv, NEW p \in Running, ByPasskey(p) PROVE \E s : Served(p, s)
<1>0. mem[p] \in StoreSet
  BY CopyOf DEF Good
<1>1. ASSUME NEW k \in NewChallenges, StartPasskeyLogin(p, k) PROVE \E s : Served(p, s)
  <2>1. PICK ch \in {Challenge(u, mem[p].users[u], TRUE) : u \in mem[p].passkeys}
                    \cup {Challenge(None, None, TRUE)} :
          Answered(p, WithChallenge(mem[p], k, ch)) /\ NothingOpened
    BY <1>1 DEF StartPasskeyLogin
  <2>2. ch \in ChallengeRecords
    <3>1. CASE ch = Challenge(None, None, TRUE)
      BY <3>1 DEF Challenge, ChallengeRecords
    <3>2. ASSUME NEW u \in mem[p].passkeys, ch = Challenge(u, mem[p].users[u], TRUE)
          PROVE  ch \in ChallengeRecords
      <4>1. u \in UserIds /\ mem[p].users[u] \in Emails \cup {None}
        BY <1>0 DEF StoreSet
      <4> QED BY <3>2, <4>1 DEF Challenge, ChallengeRecords
    <3> QED BY <2>1, <3>1, <3>2
  <2> QED BY <2>1, <2>2, NewChallengeServed
<1>2. ASSUME NEW k \in NewChallenges, NEW e \in Emails, NEW u \in NewUsers, StartSignup(p, e, k, u)
      PROVE  \E s : Served(p, s)
  <2>1. Challenge(u, e, TRUE) \in ChallengeRecords
    BY DEF Challenge, ChallengeRecords, NewUsers
  <2> QED BY <1>2, <2>1, NewChallengeServed DEF StartSignup
\* What ends with the challenge removed.
<1>3. ASSUME NEW k \in Challenges, MayFinish(mem[p], k), NEW s \in StoreSet,
             SameRecords(s, Removed(mem[p], k)),
             \/ NothingOpened /\ \/ Answered(p, s) \/ Cut(p, s)
                                 \/ Failed(p, s) /\ s.sessions = mem[p].sessions
             \/ Opened(k) /\ Answered(p, s)
      PROVE  \E t : Served(p, t)
  <2>1. /\ ~Live(s, k) /\ s.links = mem[p].links
        /\ \A x : Live(s, x) => Live(mem[p], x)
    BY <1>0, <1>3, RemovedLive
  <2>2. k \in OneTime /\ Live(mem[p], k)
    BY <1>3 DEF OneTime, MayFinish, Live
  <2> QED BY <1>3, <2>1, <2>2, PlainServed, OpeningServed
<1>4. ASSUME NEW k \in Challenges, PasskeyFinishFails(p, k) PROVE \E s : Served(p, s)
  <2> DEFINE s == Removed(mem[p], k)
  <2>1. SameRecords(s, Removed(mem[p], k)) /\ s.sessions = mem[p].sessions /\ s \in StoreSet
    BY <1>0 DEF SameRecords, Removed, StoreSet
  <2>2. MayFinish(mem[p], k) /\ Failed(p, s) /\ NothingOpened
    BY <1>4 DEF PasskeyFinishFails
  <2> HIDE DEF s
  <2> QED BY <1>3, <2>1, <2>2
<1>5. ASSUME NEW k \in Challenges, SignupFails(p, k) PROVE \E s : Served(p, s)
  <2> DEFINE s == WithUser(Removed(mem[p], k), mem[p].challenges[k].user, mem[p].challenges[k].email)
  <2>1. SameRecords(s, Removed(mem[p], k)) /\ s.sessions = mem[p].sessions
    BY <1>0 DEF SameRecords, Removed, WithUser, StoreSet
  <2>2. MayFinish(mem[p], k) /\ Failed(p, s) /\ NothingOpened
    BY <1>5 DEF SignupFails
  <2>3. s \in StoreSet
    BY <1>5, SignedUpIsGood DEF SignupFails, Good
  <2> HIDE DEF s
  <2> QED BY <1>3, <2>1, <2>2, <2>3
<1>6. ASSUME NEW k \in Challenges, NEW c \in NewSlots, LoginPasskeyFinish(p, k, c) PROVE \E s : Served(p, s)
  <2>1. PICK u \in UserIds : Answered(p, WithSession(Removed(mem[p], k), c, u, k))
    BY <1>6 DEF LoginPasskeyFinish, UsersOf
  <2>2. SameRecords(WithSession(Removed(mem[p], k), c, u, k), Removed(mem[p], k))
    BY <1>0 DEF SameRecords, Removed, WithSession, StoreSet
  <2>3. MayFinish(mem[p], k) /\ Opened(k)
    BY <1>6 DEF LoginPasskeyFinish
  <2>4. WithSession(Removed(mem[p], k), c, u, k) \in StoreSet
    BY <1>0 DEF WithSession, Removed, Session, SessionRecords, NewSlots, StoreSet
  <2> QED BY <1>3, <2>1, <2>2, <2>3, <2>4
<1>7. ASSUME NEW k \in Challenges, NEW c \in NewSlots, FinishSignup(p, k, c) PROVE \E s : Served(p, s)
  <2> DEFINE ch == mem[p].challenges[k]
             s1 == WithUser(Removed(mem[p], k), ch.user, ch.email)
             s2 == WithAccount([s1 EXCEPT !.passkeys = @ \cup {ch.user}], ch.user)
             w  == WithSession(s2, c, ch.user, k)
  <2>1. SameRecords(s2, Removed(mem[p], k)) /\ SameRecords(w, Removed(mem[p], k))
    BY <1>0 DEF SameRecords, Removed, WithUser, WithAccount, WithSession, StoreSet
  <2>2. /\ MayFinish(mem[p], k)
        /\ \/ Answered(p, w) /\ Opened(k)
           \/ Cut(p, s2) /\ NothingOpened
    BY <1>7 DEF FinishSignup
  <2>3. s2 \in StoreSet /\ ch.user \in UserIds
    BY <1>7, SignedUpIsGood DEF FinishSignup, Good, UsersOf
  <2>4. w \in StoreSet
    <3> HIDE DEF s2
    <3> QED BY <2>3 DEF WithSession, Session, SessionRecords, NewSlots, StoreSet
  <2> HIDE DEF s2, w
  <2> QED BY <1>3, <2>1, <2>2, <2>3, <2>4
<1> QED BY <1>1, <1>2, <1>4, <1>5, <1>6, <1>7 DEF ByPasskey

LEMMA ByProviderServed ==
  ASSUME IInv, NEW p \in Running, ByProvider(p) PROVE \E s : Served(p, s)
<1>0. mem[p] \in StoreSet
  BY CopyOf DEF Good
<1>1. ASSUME NEW t \in NewStates, StartRedirect(p, t) PROVE \E s : Served(p, s)
  <2> DEFINE s == [mem[p] EXCEPT !.states = @ \cup {t}]
  <2>1. s.links = mem[p].links /\ s.challenges = mem[p].challenges /\ s.states = mem[p].states \cup {t}
    BY <1>0 DEF StoreSet
  <2>2. \A x \in OneTime : Live(s, x) => Live(mem[p], x) \/ opened[x] = 0
    BY <2>1 DEF Live, NewStates
  <2>3. Answered(p, s) /\ NothingOpened
    BY <1>1 DEF StartRedirect
  <2>4. s \in StoreSet
    BY <1>0 DEF NewStates, StoreSet
  <2> HIDE DEF s
  <2> QED BY <2>1, <2>2, <2>3, <2>4, PlainServed
<1>2. ASSUME NEW t \in States, ConsumeState(p, t) PROVE \E s : Served(p, s)
  <2> DEFINE s == [mem[p] EXCEPT !.states = @ \ {t}]
  <2>1. s.links = mem[p].links /\ s.challenges = mem[p].challenges /\ s.states = mem[p].states \ {t}
    BY <1>0 DEF StoreSet
  <2>2. t \in OneTime /\ Live(mem[p], t)
    BY <1>2 DEF OneTime, Live, ConsumeState
  <2>3. ~Live(s, t) /\ \A x : Live(s, x) => Live(mem[p], x)
    BY <2>1 DEF Live
  <2>4. Answered(p, s) /\ Opened(t)
    BY <1>2 DEF ConsumeState
  <2>5. s \in StoreSet
    BY <1>0 DEF StoreSet
  <2> HIDE DEF s
  <2> QED BY <2>1, <2>2, <2>3, <2>4, <2>5, OpeningServed
<1> QED BY <1>1, <1>2 DEF ByProvider

LEMMA RequestsAreServed ==
  ASSUME IInv, NEW p \in Running,
         ByMagicLink(p) \/ ByPassword(p) \/ InSession(p) \/ ByPasskey(p) \/ ByProvider(p)
  PROVE  \E s : Served(p, s)
<1>1. CASE ByMagicLink(p)
  BY <1>1, RequestMagicLinkServed, MagicLinkOfNobodyServed, LoginViaMagicLinkServed DEF ByMagicLink
<1> QED BY <1>1, ByPasswordServed, InSessionServed, ByPasskeyServed, ByProviderServed

\* The steps of the store, as the counts below see them.
LEMMA EveryStep ==
  ASSUME IInv, [Next]_vars
  PROVE  \/ \E p \in Processes : Load(p)
         \/ \E p \in Running : (\E s : Served(p, s)) \/ Die(p)
         \/ UNCHANGED <<mem, kv, file, loads, faults, opened, refused>>
  BY RequestsAreServed DEF Next, Expire, vars

-----------------------------------------------------------------------------
(* How often a record is used                                              *)

\* A record has been let through, or can still be, at most once for each load:
\* each process that holds it live has loaded it.
Holders(x) == {p \in Running : Live(mem[p], x)}

UInv ==
  /\ Cardinality(Running) <= loads
  /\ \A x \in OneTime : opened[x] + Cardinality(Holders(x)) <= loads

LEMMA RunningIsFinite ==
  /\ IsFiniteSet(Running) /\ Cardinality(Running) \in Nat
  /\ \A x : IsFiniteSet(Holders(x)) /\ Cardinality(Holders(x)) \in Nat
<1>1. Running \subseteq Processes /\ \A x : Holders(x) \subseteq Processes
  BY DEF Running, Holders
<1> QED BY <1>1, ProcessesAssumption, FS_Subset, FS_CardinalityType

LEMMA RequestCounts ==
  ASSUME IInv, UInv, NEW p \in Running, NEW s, Served(p, s)
  PROVE  UInv'
<1>1. p \in Processes /\ mem'[p] \in {s, None} /\ \A q \in Processes \ {p} : mem'[q] = mem[q]
  BY DEF Running, Served, Answered, Failed, Cut, IInv, TypeOK
<1>0. loads' = loads /\ \A x \in OneTime : Uses1(p, s, x) \/ Keeps1(p, s, x)
  BY DEF Served
<1>2. Running' \subseteq Running
  BY <1>1 DEF Running
<1>3. loads \in Nat /\ opened \in Uses
  BY CopyOf DEF IInv, TypeOK
<1>4. Cardinality(Running') <= loads'
  BY <1>0, <1>2, <1>3, RunningIsFinite, FS_Subset, FS_CardinalityType DEF UInv
<1>5. ASSUME NEW x \in OneTime PROVE opened'[x] + Cardinality(Holders(x)') <= loads'
  <2>1. Holders(x)' \subseteq Running
    BY <1>2 DEF Holders
  <2>2. IsFiniteSet(Holders(x)') /\ Cardinality(Holders(x)') \in Nat
    BY <2>1, RunningIsFinite, FS_Subset, FS_CardinalityType
  <2>3. opened[x] \in Nat /\ opened[x] + Cardinality(Holders(x)) <= loads
    BY <1>3 DEF UInv, Uses
  <2>4. CASE Keeps1(p, s, x) /\ (Live(s, x) => Live(mem[p], x))
    <3>1. Holders(x)' \subseteq Holders(x)
      BY <1>1, <1>2, <2>4 DEF Holders, Running
    <3>2. Cardinality(Holders(x)') <= Cardinality(Holders(x))
      BY <3>1, RunningIsFinite, FS_Subset
    <3> QED BY <1>0, <2>2, <2>3, <2>4, <3>2, RunningIsFinite, <1>3 DEF Keeps1
  <2>5. CASE Keeps1(p, s, x) /\ opened[x] = 0
    <3>1. Cardinality(Holders(x)') <= Cardinality(Running)
      BY <2>1, RunningIsFinite, FS_Subset
    <3> QED BY <1>0, <1>3, <2>2, <2>5, <3>1, RunningIsFinite DEF Keeps1, UInv
  <2>6. CASE Uses1(p, s, x)
    <3>0. p \in Holders(x) /\ p \notin Holders(x)'
      BY <1>1, <2>6 DEF Holders, Running, Uses1
    <3>1. Holders(x)' \subseteq Holders(x) \ {p} /\ p \in Holders(x)
      BY <1>1, <1>2, <3>0 DEF Holders, Running
    <3>2. /\ IsFiniteSet(Holders(x) \ {p})
          /\ Cardinality(Holders(x) \ {p}) = Cardinality(Holders(x)) - 1
      BY <3>1, RunningIsFinite, FS_RemoveElement
    <3>3. Cardinality(Holders(x)') <= Cardinality(Holders(x)) - 1
      BY <3>1, <3>2, FS_Subset
    <3> QED BY <1>0, <1>3, <2>2, <2>3, <2>6, <3>3, RunningIsFinite DEF Uses1
  <2> QED BY <1>0, <2>4, <2>5, <2>6 DEF Keeps1
<1> QED BY <1>4, <1>5 DEF UInv

LEMMA LoadCounts == ASSUME IInv, UInv, NEW p \in Processes, Load(p) PROVE UInv'
<1>1. /\ mem[p] = None /\ opened' = opened /\ loads' = loads + 1
      /\ \A q \in Processes \ {p} : mem'[q] = mem[q]
  BY DEF Load, IInv, TypeOK
<1>2. loads \in Nat /\ opened \in Uses
  BY DEF IInv, TypeOK, Uses
\* With one more process, a set of them has at most one more member.
<1>3. ASSUME NEW S, NEW T, S \subseteq Processes, T \subseteq S \cup {p}
      PROVE  /\ Cardinality(S) \in Nat /\ Cardinality(T) \in Nat
             /\ Cardinality(T) <= Cardinality(S) + 1
  <2>1. IsFiniteSet(S) /\ Cardinality(S) \in Nat
    BY <1>3, ProcessesAssumption, FS_Subset, FS_CardinalityType
  <2>2. /\ IsFiniteSet(S \cup {p}) /\ Cardinality(S \cup {p}) \in Nat
        /\ Cardinality(S \cup {p}) <= Cardinality(S) + 1
    <3>1. /\ IsFiniteSet(S \cup {p})
          /\ Cardinality(S \cup {p}) = IF p \in S THEN Cardinality(S) ELSE Cardinality(S) + 1
      BY <2>1, FS_AddElement
    <3> QED BY <2>1, <3>1
  <2>3. Cardinality(T) \in Nat /\ Cardinality(T) <= Cardinality(S \cup {p})
    BY <1>3, <2>2, FS_Subset, FS_CardinalityType
  <2> QED BY <2>1, <2>2, <2>3
<1>4. Running \subseteq Processes /\ Running' \subseteq Running \cup {p}
  BY <1>1 DEF Running
<1>5. Cardinality(Running') <= loads'
  BY <1>1, <1>2, <1>3, <1>4 DEF UInv
<1>6. ASSUME NEW x \in OneTime PROVE opened'[x] + Cardinality(Holders(x)') <= loads'
  <2>1. Holders(x) \subseteq Processes /\ Holders(x)' \subseteq Holders(x) \cup {p}
    BY <1>1 DEF Holders, Running
  <2>2. /\ Cardinality(Holders(x)) \in Nat /\ Cardinality(Holders(x)') \in Nat
        /\ Cardinality(Holders(x)') <= Cardinality(Holders(x)) + 1
    BY <1>3, <2>1
  <2>3. opened[x] \in Nat /\ opened[x] + Cardinality(Holders(x)) <= loads
    BY <1>2 DEF UInv, Uses
  <2> QED BY <1>1, <1>2, <2>2, <2>3
<1> QED BY <1>5, <1>6 DEF UInv

LEMMA DieCounts == ASSUME IInv, UInv, NEW p \in Running, Die(p) PROVE UInv'
<1>1. /\ p \in Processes /\ mem'[p] = None /\ opened' = opened /\ loads' = loads
      /\ \A q \in Processes \ {p} : mem'[q] = mem[q]
  BY DEF Die, Running, IInv, TypeOK
<1>2. Running' \subseteq Running /\ \A x : Holders(x)' \subseteq Holders(x)
  BY <1>1 DEF Running, Holders
<1>3. loads \in Nat /\ opened \in Uses
  BY CopyOf DEF IInv, TypeOK
<1>4. /\ Cardinality(Running') \in Nat /\ Cardinality(Running') <= Cardinality(Running)
      /\ \A x : /\ Cardinality(Holders(x)') \in Nat
                /\ Cardinality(Holders(x)') <= Cardinality(Holders(x))
  BY <1>2, RunningIsFinite, FS_Subset, FS_CardinalityType
<1> QED BY <1>1, <1>3, <1>4, RunningIsFinite DEF UInv, Uses

\* A step that changes neither a copy in memory nor the counts.
LEMMA IdleCounts ==
  ASSUME UInv, UNCHANGED <<mem, loads, opened>> PROVE UInv'
<1>1. Running' = Running /\ \A x : Holders(x)' = Holders(x)
  BY DEF Running, Holders
<1> QED BY <1>1 DEF UInv

LEMMA InitCounts == Init => UInv
<1> SUFFICES ASSUME Init PROVE UInv
  OBVIOUS
<1>1. Running = {} /\ \A x : Holders(x) = {}
  BY DEF Init, Running, Holders
<1>2. Cardinality({}) = 0
  BY FS_EmptySet
<1> QED BY <1>1, <1>2 DEF Init, UInv

LEMMA NextCounts == IInv /\ UInv /\ [Next]_vars => UInv'
  BY EveryStep, LoadCounts, RequestCounts, DieCounts, IdleCounts

\* However many processes work on the store, and whatever saves are lost or
\* overwritten, a link, a challenge or a state record is used at most once for
\* each time that a process has loaded the store.
THEOREM UsesAreBounded == Spec => []EachUseTakesALoad
<1>1. IInv /\ UInv => EachUseTakesALoad
  BY RunningIsFinite DEF UInv, EachUseTakesALoad, IInv, TypeOK
<1> QED BY <1>1, InitGood, NextGood, InitCounts, NextCounts, PTL DEF Spec

-----------------------------------------------------------------------------
(* One process: a replay takes a fault                                     *)

\* The store that the next load reads if nothing fails.
Saved == IF kv = None THEN file ELSE kv

Pending(x) == Live(Saved, x) \/ \E p \in Running : Live(mem[p], x)

\* A record that can still be let through counts as a use to come.  Only a save
\* that misses the key-value store leaves a used record pending, and only a
\* load that misses it makes one so again.
RInv == \A x \in OneTime : opened[x] + (IF Pending(x) THEN 1 ELSE 0) <= 1 + faults

LEMMA OnlyProcess ==
  ASSUME NEW d, Processes = {d}, IInv, NEW p \in Running, NEW s,
         Answered(p, s) \/ Failed(p, s) \/ Cut(p, s)
  PROVE  Running' \subseteq {p} /\ mem'[p] \in {s, None}
  BY DEF Running, Answered, Failed, Cut, IInv, TypeOK

LEMMA RequestTakesAFault ==
  ASSUME NEW d, Processes = {d}, IInv, RInv, NEW p \in Running, NEW s, Served(p, s)
  PROVE  RInv'
<1>1. faults \in Nat /\ opened \in Uses
  BY CopyOf DEF IInv, TypeOK
<1>2. Running' \subseteq {p} /\ mem'[p] \in {s, None}
  BY OnlyProcess DEF Served
<1> SUFFICES ASSUME NEW x \in OneTime
             PROVE  opened'[x] + (IF Pending(x)' THEN 1 ELSE 0) <= 1 + faults'
  BY DEF RInv
<1>3. /\ opened[x] \in Nat /\ opened[x] <= 1 + faults
      /\ Pending(x) => opened[x] <= faults
      /\ Live(mem[p], x) => Pending(x)
  BY <1>1 DEF RInv, Uses, Pending
\* A save that succeeds: what is pending is what s lets through.
<1>4. CASE Answered(p, s) \/ Cut(p, s)
  <2>1. (Uses1(p, s, x) /\ Answered(p, s)) \/ Keeps1(p, s, x)
    BY DEF Served
  <2>2. SaveState(s)
    BY <1>4 DEF Answered, Cut
  <2>3. CASE kv' = s /\ faults' = faults
    <3>1. Pending(x)' => Live(s, x)
      <4>1. s # None
        BY NoneAssumption DEF Served
      <4> QED BY <1>2, <2>3, <4>1 DEF Pending, Saved, Running
    <3> QED BY <1>1, <1>3, <2>1, <2>3, <3>1 DEF Uses1, Keeps1
  <2>4. CASE faults' = faults + 1
    BY <1>1, <1>3, <2>1, <2>4 DEF Uses1, Keeps1
  <2> QED BY <2>2, <2>3, <2>4 DEF SaveState
<1>5. CASE Failed(p, s) /\ ~Answered(p, s)
  <2>1. faults' = faults /\ Saved' = Saved
    BY <1>5 DEF Failed, Saved
  <2>2. Keeps1(p, s, x)
    BY <1>5 DEF Served
  <2>3. Pending(x)' => Pending(x) \/ Live(s, x)
    BY <1>2, <2>1 DEF Pending, Running
  <2> QED BY <1>1, <1>3, <2>1, <2>2, <2>3 DEF Keeps1
<1> QED BY <1>4, <1>5 DEF Served

LEMMA LoadTakesAFault ==
  ASSUME NEW d, Processes = {d}, IInv, RInv, NEW p \in Processes, Load(p)
  PROVE  RInv'
<1>1. faults \in Nat /\ opened \in Uses /\ mem \in [Processes -> StoreSet \cup {None}]
  BY DEF IInv, TypeOK, Uses
<1>2. Running' \subseteq {p} /\ Saved' = Saved /\ opened' = opened
  BY DEF Load, Running, Saved
<1> SUFFICES ASSUME NEW x \in OneTime
             PROVE  opened'[x] + (IF Pending(x)' THEN 1 ELSE 0) <= 1 + faults'
  BY DEF RInv
<1>3. opened[x] \in Nat /\ opened[x] + (IF Pending(x) THEN 1 ELSE 0) <= 1 + faults
  BY <1>1 DEF RInv, Uses
<1>4. CASE mem'[p] = Saved /\ faults' = faults
  <2>1. Pending(x)' => Pending(x)
    BY <1>2, <1>4 DEF Pending
  <2> QED BY <1>1, <1>2, <1>3, <1>4, <2>1
<1>5. CASE faults' = faults + 1
  BY <1>1, <1>2, <1>3, <1>5
<1>6. (mem'[p] = Saved /\ faults' = faults) \/ faults' = faults + 1
  BY <1>1 DEF Load, Saved
<1> QED BY <1>4, <1>5, <1>6

LEMMA DieTakesAFault ==
  ASSUME IInv, RInv, NEW p \in Running, Die(p)
  PROVE  RInv'
<1>1. \A q \in Running' : q \in Running /\ mem'[q] = mem[q]
  BY DEF Die, Running, IInv, TypeOK
<1>2. Saved' = Saved /\ opened' = opened /\ faults' = faults
  BY DEF Die, Saved
<1>3. \A x : Pending(x)' => Pending(x)
  BY <1>1, <1>2 DEF Pending
<1>4. faults \in Nat /\ opened \in Uses
  BY CopyOf DEF IInv, TypeOK
<1> QED BY <1>2, <1>3, <1>4 DEF RInv, Uses

LEMMA IdleTakesAFault ==
  ASSUME RInv, UNCHANGED <<mem, kv, file, faults, opened>> PROVE RInv'
<1>1. \A x : Pending(x)' = Pending(x)
  BY DEF Pending, Saved, Running
<1> QED BY <1>1 DEF RInv

\* With one process, whatever crashes and restarts there are, each further use
\* of a link, a challenge or a state record takes a save or a load that did not
\* reach the key-value store.
THEOREM ReplaysTakeFaults ==
  ASSUME NEW d, Processes = {d} PROVE Spec => []ReplayTakesAFault
<1>1. Init => RInv
  BY DEF Init, RInv, Pending, Saved, Running, Live, EmptyStore
<1>2. IInv /\ RInv /\ [Next]_vars => RInv'
  BY EveryStep, LoadTakesAFault, RequestTakesAFault, DieTakesAFault, IdleTakesAFault
<1>3. IInv /\ RInv => ReplayTakesAFault
  BY DEF RInv, ReplayTakesAFault, IInv, TypeOK
<1> QED BY <1>1, <1>2, <1>3, InitGood, NextGood, PTL DEF Spec

-----------------------------------------------------------------------------
(* One process and no fault: restarts change no session and no link        *)

\* Copies s and u, which agree on the sessions, and on all links but refused ones.
Agree(s, u) == s.sessions = u.sessions /\ \A l \in Links \ refused : s.links[l] = u.links[l]

\* Without a fault the file is never written.
SInv ==
  faults = 0 =>
    /\ file = EmptyStore
    /\ \A p \in Running : Agree(mem[p], Saved)

LEMMA RequestSurvives ==
  ASSUME NEW d, Processes = {d}, IInv, SInv, NEW p \in Running, NEW s, Served(p, s)
  PROVE  SInv'
<1> SUFFICES ASSUME faults' = 0
             PROVE  file' = EmptyStore /\ \A q \in Running' : Agree(mem[q], Saved)'
  BY DEF SInv
<1>1. faults \in Nat /\ s # None /\ refused \subseteq refused'
  BY NoneAssumption DEF IInv, TypeOK, Served
<1>2. Running' \subseteq {p} /\ mem'[p] \in {s, None}
  BY OnlyProcess DEF Served
<1>3. CASE Answered(p, s) \/ Cut(p, s)
  <2>1. kv' = s /\ file' = file /\ faults' = faults
    BY <1>1, <1>3 DEF Answered, Cut, SaveState
  <2>2. \A q \in Running' : mem'[q] = Saved'
    BY <1>1, <1>2, <2>1 DEF Running, Saved
  <2> QED BY <2>1, <2>2 DEF SInv, Agree
<1>4. CASE Failed(p, s) /\ SameButRefused(p, s)
  <2>1. Saved' = Saved /\ file' = file /\ faults' = faults
    BY <1>4 DEF Failed, Saved
  <2>2. Agree(mem[p], Saved) /\ file = EmptyStore
    BY <2>1 DEF SInv
  <2>3. \A q \in Running' : q = p /\ mem'[q] = s
    BY <1>2 DEF Running
  <2> QED BY <1>1, <1>4, <2>1, <2>2, <2>3 DEF SameButRefused, Agree
<1> QED BY <1>3, <1>4 DEF Served

\* With one process and no fault, a restart finds exactly the sessions and the
\* links that the process answered from: it undoes no login, no logout and no
\* revocation, loses no mailed link, and makes no spent one fresh again.
THEOREM RestartsKeepSessions ==
  ASSUME NEW d, Processes = {d} PROVE Spec => []SessionsSurvive
<1>1. Init => SInv
  BY DEF Init, SInv, Running
<1>2. IInv /\ SInv /\ [Next]_vars => SInv'
  <2> SUFFICES ASSUME IInv, SInv, [Next]_vars PROVE SInv'
    OBVIOUS
  <2>1. ASSUME NEW p \in Processes, Load(p) PROVE SInv'
    <3>1. Running' \subseteq {p} /\ Saved' = Saved /\ file' = file
      BY <2>1 DEF Load, Running, Saved
    <3>2. faults' = 0 => faults = 0 /\ mem'[p] = Saved
      BY <2>1 DEF Load, Saved, IInv, TypeOK
    <3> QED BY <3>1, <3>2 DEF SInv, Agree
  <2>2. ASSUME NEW p \in Running, Die(p) PROVE SInv'
    <3>1. Running' \subseteq Running /\ \A q \in Running' : mem'[q] = mem[q]
      BY <2>2 DEF Die, Running, IInv, TypeOK
    <3>2. UNCHANGED <<file, faults, refused>> /\ Saved' = Saved
      BY <2>2 DEF Die, Saved
    <3> QED BY <3>1, <3>2 DEF SInv, Agree
  <2>3. CASE UNCHANGED <<mem, kv, file, loads, faults, opened, refused>>
    BY <2>3 DEF SInv, Running, Saved, Agree
  <2> QED BY <2>1, <2>2, <2>3, EveryStep, RequestSurvives
<1>3. SInv => SessionsSurvive
  BY DEF SInv, Saved, Agree, SessionsSurvive
<1> QED BY <1>1, <1>2, <1>3, InitGood, NextGood, PTL DEF Spec

-----------------------------------------------------------------------------
(* Links that are lost                                                     *)

AllLost == {l \in Links : \E s \in Stores : LostIn(s, l, opened, refused)}

\* Every load is of a process that still runs, or that has died since and has
\* taken at most one link with it.
LInv == IsFiniteSet(AllLost) /\ Cardinality(AllLost) + Cardinality(Running) <= loads

\* Copies get lost, overwritten and loaded; none of that loses a link.
LEMMA OnlyNewCopiesLose ==
  ASSUME NEW l \in Links, opened'[l] = 0 => opened[l] = 0, refused \subseteq refused',
         NEW s \in Stores, LostIn(s, l, opened', refused')
  PROVE  l \in AllLost
  BY DEF AllLost, LostIn

\* The bound is kept when nothing more is lost, and when a process dies that
\* loses one link.
LEMMA StaysBounded ==
  ASSUME LInv, loads \in Nat, loads' = loads,
         \/ AllLost' \subseteq AllLost /\ Running' \subseteq Running
         \/ \E p \in Running : \E l :
              AllLost' \subseteq AllLost \cup {l} /\ Running' \subseteq Running \ {p}
  PROVE  LInv'
<1>1. IsFiniteSet(Running) /\ Cardinality(Running) \in Nat /\ Cardinality(AllLost) \in Nat
  BY RunningIsFinite, FS_CardinalityType DEF LInv
<1>2. CASE AllLost' \subseteq AllLost /\ Running' \subseteq Running
  <2>1. /\ IsFiniteSet(AllLost') /\ Cardinality(AllLost') <= Cardinality(AllLost)
        /\ IsFiniteSet(Running') /\ Cardinality(Running') <= Cardinality(Running)
    BY <1>1, <1>2, FS_Subset DEF LInv
  <2>2. Cardinality(AllLost') \in Nat /\ Cardinality(Running') \in Nat
    BY <2>1, FS_CardinalityType
  <2> QED BY <1>1, <2>1, <2>2 DEF LInv
<1>3. ASSUME NEW p \in Running, NEW l, AllLost' \subseteq AllLost \cup {l},
             Running' \subseteq Running \ {p}
      PROVE  LInv'
  <2>1. /\ IsFiniteSet(AllLost \cup {l})
        /\ Cardinality(AllLost \cup {l}) = IF l \in AllLost THEN Cardinality(AllLost)
                                           ELSE Cardinality(AllLost) + 1
    BY FS_AddElement DEF LInv
  <2>2. /\ IsFiniteSet(Running \ {p})
        /\ Cardinality(Running \ {p}) = Cardinality(Running) - 1
    BY <1>1, FS_RemoveElement
  <2>3. /\ IsFiniteSet(AllLost') /\ Cardinality(AllLost') <= Cardinality(AllLost \cup {l})
        /\ IsFiniteSet(Running') /\ Cardinality(Running') <= Cardinality(Running \ {p})
    BY <1>3, <2>1, <2>2, FS_Subset
  <2>4. Cardinality(AllLost') \in Nat /\ Cardinality(Running') \in Nat
    BY <2>3, FS_CardinalityType
  <2> QED BY <1>1, <2>1, <2>2, <2>3, <2>4 DEF LInv
<1> QED BY <1>2, <1>3

LEMMA RequestLoses ==
  ASSUME IInv, LInv, NEW p \in Running, NEW s, Served(p, s)
  PROVE  LInv'
<1>1. opened \in Uses /\ mem[p] \in Stores /\ loads \in Nat
  BY CopyOf DEF IInv, TypeOK
<1>2. \A x \in OneTime : opened[x] <= opened'[x] /\ opened'[x] \in Nat
  BY <1>1 DEF Uses, Served, Uses1, Keeps1
<1>3. loads' = loads /\ refused \subseteq refused'
  BY DEF Served
<1>4. \A l \in Links : opened'[l] = 0 => opened[l] = 0
  BY <1>1, <1>2 DEF Uses, OneTime
<1>5. \A t \in Stores' : t = s \/ t = EmptyStore \/ t \in Stores
  BY DEF Stores, Running, Served, Answered, Failed, Cut, SaveState, IInv, TypeOK
<1>6. \A l \in Links : ~LostIn(EmptyStore, l, opened', refused')
  BY DEF LostIn, EmptyStore
<1>7. ASSUME NEW L, LosesOnly(p, s, L) PROVE AllLost' \subseteq AllLost \cup L
  <2> SUFFICES ASSUME NEW l \in Links \ L, NEW t \in Stores', LostIn(t, l, opened', refused')
               PROVE  l \in AllLost
    BY DEF AllLost
  <2>1. CASE t = s
    BY <1>1, <1>7, <2>1 DEF LosesOnly, AllLost
  <2>2. CASE t \in Stores
    BY <1>3, <1>4, <2>2, OnlyNewCopiesLose
  <2> QED BY <1>5, <1>6, <2>1, <2>2
<1>8. CASE (Answered(p, s) \/ Failed(p, s)) /\ LosesOnly(p, s, {})
  <2>1. AllLost' \subseteq AllLost
    BY <1>7, <1>8
  <2>2. Running' \subseteq Running
    BY <1>8 DEF Running, Answered, Failed, IInv, TypeOK
  <2> QED BY <1>1, <1>3, <2>1, <2>2, StaysBounded
<1>9. ASSUME Cut(p, s), NEW l \in Links \cup {None}, LosesOnly(p, s, {l}) PROVE LInv'
  <2>1. AllLost' \subseteq AllLost \cup {l}
    BY <1>7, <1>9
  <2>2. Running' \subseteq Running \ {p}
    BY <1>9 DEF Running, Cut, IInv, TypeOK
  <2> QED BY <1>1, <1>3, <2>1, <2>2, StaysBounded
<1> QED BY <1>8, <1>9 DEF Served

LEMMA LoadLoses == ASSUME IInv, LInv, NEW p \in Processes, Load(p) PROVE LInv'
<1>1. opened' = opened /\ refused' = refused /\ loads' = loads + 1 /\ loads \in Nat
  BY DEF Load, IInv, TypeOK
<1>2. Stores' \subseteq Stores /\ Running' \subseteq Running \cup {p}
  <2>1. file \in Stores /\ (kv # None => kv \in Stores)
    BY DEF Stores
  <2>2. \A q \in Processes : mem'[q] \in {mem[q], kv, file} /\ (q # p => mem'[q] = mem[q])
    BY DEF IInv, TypeOK, Load
  <2> QED BY <2>1, <2>2 DEF Stores, Running, Load
<1>3. AllLost' \subseteq AllLost
  BY <1>1, <1>2 DEF AllLost
<1>4. IsFiniteSet(AllLost') /\ Cardinality(AllLost') <= Cardinality(AllLost)
  BY <1>3, FS_Subset DEF LInv
<1>5. /\ IsFiniteSet(Running \cup {p})
      /\ Cardinality(Running \cup {p}) \in {Cardinality(Running), Cardinality(Running) + 1}
  BY RunningIsFinite, FS_AddElement
<1>6. IsFiniteSet(Running') /\ Cardinality(Running') <= Cardinality(Running \cup {p})
  BY <1>2, <1>5, FS_Subset
<1>7. /\ Cardinality(AllLost) \in Nat /\ Cardinality(AllLost') \in Nat
      /\ Cardinality(Running) \in Nat /\ Cardinality(Running') \in Nat
  BY <1>4, <1>6, RunningIsFinite, FS_CardinalityType DEF LInv
<1> QED BY <1>1, <1>4, <1>5, <1>6, <1>7 DEF LInv

\* A link that is used up without a session was answered with an error, or the
\* process that served it died: with any number of processes and faults, no
\* more links are lost than processes have died.
THEOREM LostLinksAreDeaths == Spec => []LostLinks
<1>1. Init => LInv
  <2> SUFFICES ASSUME Init PROVE LInv
    OBVIOUS
  <2>1. Running = {} /\ AllLost = {}
    BY DEF Init, Running, AllLost, Stores, LostIn, EmptyStore
  <2> QED BY <2>1, FS_EmptySet DEF Init, LInv
<1>2. IInv /\ LInv /\ [Next]_vars => LInv'
  <2> SUFFICES ASSUME IInv, LInv, [Next]_vars PROVE LInv'
    OBVIOUS
  <2>1. loads \in Nat
    BY DEF IInv, TypeOK
  <2>2. ASSUME NEW p \in Running, Die(p) PROVE LInv'
    <3>1. \A q \in Processes : q \in Running' => mem'[q] = mem[q] /\ q # p
      BY <2>2 DEF Die, Running, IInv, TypeOK
    <3>2. Running' \subseteq Running /\ Stores' \subseteq Stores
      BY <2>2, <3>1 DEF Die, Running, Stores
    <3>3. AllLost' \subseteq AllLost /\ loads' = loads
      BY <2>2, <3>2 DEF Die, AllLost
    <3> QED BY <2>1, <3>2, <3>3, StaysBounded
  <2>3. CASE UNCHANGED <<mem, kv, file, loads, faults, opened, refused>>
    <3>1. Running' = Running /\ Stores' = Stores
      BY <2>3 DEF Running, Stores
    <3>2. AllLost' = AllLost /\ loads' = loads
      BY <2>3, <3>1 DEF AllLost
    <3> QED BY <2>1, <3>1, <3>2, StaysBounded
  <2> QED BY <2>2, <2>3, EveryStep, LoadLoses, RequestLoses
<1>3. IInv /\ LInv => LostLinks
  <2> SUFFICES ASSUME IInv, LInv PROVE LostLinks
    OBVIOUS
  <2> DEFINE lost(s) == {l \in Links \ refused : s.links[l] # None /\ s.links[l].used /\ opened[l] = 0}
  <2>1. UNION {lost(s) : s \in Stores} = AllLost
    BY DEF AllLost, LostIn
  <2>2. /\ Cardinality(AllLost) \in Nat /\ Cardinality(Running) \in Nat /\ loads \in Nat
        /\ Cardinality(AllLost) + Cardinality(Running) <= loads
    BY RunningIsFinite, FS_CardinalityType DEF LInv, IInv, TypeOK
  <2>3. Cardinality(AllLost) <= loads - Cardinality(Running)
    BY <2>2
  <2> QED BY <2>1, <2>3 DEF LostLinks
<1> QED BY <1>1, <1>2, <1>3, InitGood, NextGood, PTL DEF Spec

==============================================================================
