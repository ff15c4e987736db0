---------------------------- MODULE OAuthFlowProofs ----------------------------
(***************************************************************************)
(* Proofs about OAuthFlow for any number of providers, people, browsers,   *)
(* redirects, codes, concurrent callbacks and crashes.                     *)
(*                                                                         *)
(* `Sound(s)` is what a store promises by itself; it holds of the store in *)
(* memory and of the saved one.  The rest of the invariant says what a     *)
(* callback may rely on between its two locks (`FlowsOK`, `SessionsOK`)    *)
(* and that its state record is out of reach of every other (`UsedUp`).    *)
(***************************************************************************)
EXTENDS OAuthFlow, FiniteSetTheorems, TLAPS

USE NoneAssumption, ClaimsAssumption, BoundAssumption

OneOwner(s) ==
  \A u, v \in UserIds, i \in Identities :
    i \in s.users[u].identities /\ i \in s.users[v].identities => u = v

OnePerProvider(s) ==
  \A u \in UserIds : \A i, j \in s.users[u].identities : i[1] = j[1] => i = j

OneEmail(s) ==
  \A u, v \in UserIds :
    s.users[u].email # None /\ s.users[u].email = s.users[v].email => u = v

\* A user is known by an address: unlinking never makes a user disappear.
HasEmail(s) ==
  \A u \in UserIds : s.users[u].email = None => s.users[u].identities = {}

StatesNamed(s) == \A t \in States : s.states[t] # Gone => s.states[t].provider \in Providers

Sound(s) ==
  StoreOK(s) /\ OneOwner(s) /\ OnePerProvider(s) /\ OneEmail(s) /\ HasEmail(s) /\ StatesNamed(s)

CodesOK ==
  \A k \in Codes : codes[k] # NoCode =>
    /\ codes[k].status # "none"
    /\ codes[k].provider \in Providers /\ codes[k].subject \in Subjects
    /\ codes[k].state \in States

FlowsOK ==
  \A c \in Slots : ~At(c, "idle") =>
    /\ flows[c].browser \in Browsers
    /\ flows[c].code \in Codes /\ codes[flows[c].code] # NoCode
    /\ At(c, "settle") \/ At(c, "session") => EmailOf[codes[flows[c].code].subject] # None

SessionsOK == SessionOwnsIdentity

Works(c, t) == ~At(c, "idle") /\ StateOf(c) = t

\* Only one callback works with a state record, and none with one that has
\* opened a session; neither store has such a record.
UsedUp ==
  \A t \in States :
    /\ opened[t] = 1 => store.states[t] = Gone /\ disk.states[t] = Gone
    /\ \A c \in Slots : Works(c, t) =>
         /\ store.states[t] = Gone /\ disk.states[t] = Gone /\ opened[t] = 0
         /\ \A d \in Slots : Works(d, t) => d = c

IInv == TypeOK /\ Sound(store) /\ Sound(disk) /\ CodesOK /\ FlowsOK /\ SessionsOK /\ UsedUp

-----------------------------------------------------------------------------
(* What requests do to a store                                             *)

LEMMA EmptyIsSound == Sound(EmptyStore)
  BY DEF EmptyStore, Nobody, Gone, Sound, StoreOK, OneOwner, OnePerProvider, OneEmail,
         HasEmail, StatesNamed, Known, Identities

\* A user is known exactly if it has an address.
LEMMA KnownHasEmail ==
  ASSUME NEW s, Sound(s), NEW u \in UserIds
  PROVE  /\ u \in Known(s) <=> s.users[u].email # None
         /\ u \in Known(s) => s.users[u].email \in Emails
         /\ s.users[u] = [email |-> s.users[u].email, identities |-> s.users[u].identities]
         /\ s.users[u].identities \subseteq Identities
<1>1. s.users[u] \in [email : Emails \cup {None}, identities : SUBSET Identities]
  BY DEF Sound, StoreOK
<1>2. s.users[u].email = None => s.users[u] = Nobody
  BY <1>1 DEF Sound, HasEmail, Nobody
<1>3. s.users[u] = Nobody => s.users[u].email = None
  BY DEF Nobody
<1> QED BY <1>1, <1>2, <1>3 DEF Known

\* A change of one state record.
LEMMA StateIsSound ==
  ASSUME NEW s, Sound(s), NEW t \in States, NEW r,
         r = Gone \/ r \in [provider : Providers, linking : UserIds \cup {None}]
  PROVE  Sound([s EXCEPT !.states[t] = r])
<1> DEFINE s2 == [s EXCEPT !.states[t] = r]
<1>1. s2.users = s.users /\ s2.login = s.login /\ s2.states = [s.states EXCEPT ![t] = r]
  BY DEF Sound, StoreOK
<1>2. StoreOK(s2)
  BY <1>1 DEF Sound, StoreOK, Known, Gone
<1>3. StatesNamed(s2)
  BY <1>1 DEF Sound, StoreOK, StatesNamed
<1> QED BY <1>1, <1>2, <1>3 DEF Sound, OneOwner, OnePerProvider, OneEmail, HasEmail

\* Somebody logs in or out.
LEMMA LoginIsSound ==
  ASSUME NEW s, Sound(s), NEW b \in Browsers, NEW u \in Known(s) \cup {None}
  PROVE  Sound([s EXCEPT !.login[b] = u])
<1> DEFINE s2 == [s EXCEPT !.login[b] = u]
<1>1. s2.users = s.users /\ s2.states = s.states /\ s2.login = [s.login EXCEPT ![b] = u]
  BY DEF Sound, StoreOK
<1>2. Known(s2) = Known(s) /\ u \in UserIds \cup {None}
  BY <1>1 DEF Known
<1>3. StoreOK(s2)
  BY <1>1, <1>2 DEF Sound, StoreOK
<1> QED BY <1>1, <1>3 DEF Sound, OneOwner, OnePerProvider, OneEmail, HasEmail, StatesNamed

WithUser(s, u, e, ids) == [s EXCEPT !.users[u] = [email |-> e, identities |-> ids]]

\* A new user with an address of its own, and identities that nobody has.
LEMMA NewUserIsSound ==
  ASSUME NEW s, Sound(s), NEW u \in UserIds \ Known(s), NEW e \in Emails,
         \A v \in Known(s) : s.users[v].email # e,
         NEW ids \in SUBSET Identities,
         \A i \in ids : Owners(s, i) = {}, \A i, j \in ids : i = j
  PROVE  LET s2 == WithUser(s, u, e, ids)
         IN  Sound(s2) /\ Known(s2) = Known(s) \cup {u} /\ s2.states = s.states
<1> DEFINE r  == [email |-> e, identities |-> ids]
           s2 == WithUser(s, u, e, ids)
<1>1. s2.states = s.states /\ s2.login = s.login /\ s2.users = [s.users EXCEPT ![u] = r]
  BY DEF Sound, StoreOK, WithUser
<1>2. \A v \in UserIds : s2.users[v] = IF v = u THEN r ELSE s.users[v]
  BY <1>1 DEF Sound, StoreOK
<1>3. r # Nobody /\ r.email = e /\ r.identities = ids /\ u \in UserIds
  BY DEF Nobody
<1> HIDE DEF r, s2
<1>4. Known(s2) = Known(s) \cup {u}
  BY <1>2, <1>3 DEF Known
<1>5. StoreOK(s2)
  BY <1>1, <1>4 DEF Sound, StoreOK, r
<1>6. \A v \in UserIds : v \notin Known(s) => s.users[v].email = None /\ s.users[v].identities = {}
  BY DEF Known, Nobody
<1>7. \A v \in UserIds \ {u}, i \in ids : i \notin s.users[v].identities
  BY <1>6 DEF Owners
<1>8. OneOwner(s2)
  BY <1>2, <1>3, <1>7 DEF Sound, OneOwner
<1>9. OnePerProvider(s2) /\ HasEmail(s2)
  BY <1>2, <1>3 DEF Sound, OnePerProvider, HasEmail
<1>10. OneEmail(s2)
  BY <1>2, <1>3, <1>6 DEF Sound, OneEmail
<1>11. StatesNamed(s2)
  BY <1>1 DEF Sound, StatesNamed
<1> QED BY <1>1, <1>4, <1>5, <1>8, <1>9, <1>10, <1>11 DEF Sound, r, s2

\* A known user with other identities.
LEMMA IdentitiesAreSound ==
  ASSUME NEW s, Sound(s), NEW u \in Known(s), NEW ids \in SUBSET Identities,
         \A i \in ids : Owners(s, i) \subseteq {u},
         \A i, j \in ids : i[1] = j[1] => i = j
  PROVE  LET s2 == [s EXCEPT !.users[u].identities = ids]
         IN  Sound(s2) /\ Known(s2) = Known(s)
<1> DEFINE r  == [s.users[u] EXCEPT !.identities = ids]
           s2 == [s EXCEPT !.users[u].identities = ids]
<1>1. s2.states = s.states /\ s2.login = s.login /\ s2.users = [s.users EXCEPT ![u] = r]
  BY DEF Sound, StoreOK, Known
<1>2. /\ u \in UserIds /\ r = [email |-> s.users[u].email, identities |-> ids]
      /\ s.users[u].email \in Emails
  <2>1. u \in UserIds
    BY DEF Known
  <2>2. s.users[u] \in [email : Emails \cup {None}, identities : SUBSET Identities]
    BY <2>1 DEF Sound, StoreOK
  <2>3. s.users[u].email \in Emails
    BY <2>1, KnownHasEmail
  <2> QED BY <2>1, <2>2, <2>3
<1> HIDE DEF r, s2
<1>3. \A v \in UserIds : s2.users[v] = IF v = u THEN r ELSE s.users[v]
  BY <1>1, <1>2 DEF Sound, StoreOK
<1>4. Known(s2) = Known(s)
  BY <1>2, <1>3 DEF Known, Nobody
<1>5. r \in [email : Emails \cup {None}, identities : SUBSET Identities]
  BY <1>2
<1>6. StoreOK(s2)
  <2>1. s2.users \in [UserIds -> [email : Emails \cup {None}, identities : SUBSET Identities]]
    BY <1>1, <1>2, <1>5 DEF Sound, StoreOK
  <2> QED BY <1>1, <1>4, <2>1 DEF Sound, StoreOK
<1>7. \A v \in UserIds \ {u}, i \in ids : i \notin s.users[v].identities
  BY DEF Owners, Known, Nobody
<1>8. OneOwner(s2)
  BY <1>2, <1>3, <1>7 DEF Sound, OneOwner
<1>9. OnePerProvider(s2) /\ HasEmail(s2) /\ OneEmail(s2)
  BY <1>2, <1>3 DEF Sound, OnePerProvider, HasEmail, OneEmail
<1>10. StatesNamed(s2)
  BY <1>1 DEF Sound, StatesNamed
<1> QED BY <1>4, <1>6, <1>8, <1>9, <1>10 DEF Sound, s2

\* The promises of the properties follow from those of a store.
LEMMA OwnersOfSound ==
  ASSUME NEW s, Sound(s), NEW i \in Identities, NEW u \in Owners(s, i)
  PROVE  Owners(s, i) = {u} /\ u \in Known(s)
  BY DEF Sound, OneOwner, Owners, Known

-----------------------------------------------------------------------------
(* Steps                                                                   *)

Owns(c) ==
  /\ Owners(store, IdentityOf(c)) = {flows[c].user}
  /\ flows[c].linking \in {None, flows[c].user}

\* Codes are made once; only their status changes.
CodesKept ==
  \A k \in Codes : codes[k] # NoCode =>
    /\ codes'[k] # NoCode
    /\ codes'[k].provider = codes[k].provider /\ codes'[k].subject = codes[k].subject
    /\ codes'[k].state = codes[k].state

\* A callback goes on with its code, and learns what it needs.
GoesOn(c) ==
  /\ ~At(c, "idle") /\ flows'[c].code = flows[c].code /\ flows'[c].browser = flows[c].browser
  /\ flows'[c].at \in {"settle", "session"} =>
       At(c, "settle") \/ EmailOf[codes[flows[c].code].subject] # None
  /\ flows'[c].at = "session" => Owns(c)'

\* The records in use stay out of both stores.
RecordsStayGone ==
  \A t \in States : opened[t] = 1 \/ (\E c \in Slots : Works(c, t)) =>
    store'.states[t] = Gone /\ disk'.states[t] = Gone

\* Every step but the first and the last of a callback.
LEMMA StepKeeps ==
  ASSUME IInv, TypeOK', Sound(store)', Sound(disk)', CodesKept, CodesOK',
         Unlocked \/ store'.users = store.users,
         opened' = opened, RecordsStayGone,
         \A c \in Slots : flows'[c] = flows[c] \/ flows'[c].at = "idle" \/ GoesOn(c)
  PROVE  IInv'
<1>1. ASSUME NEW c \in Slots, ~At(c, "idle")'
      PROVE  /\ ~At(c, "idle") /\ flows'[c].code = flows[c].code
             /\ flows[c].browser \in Browsers /\ flows'[c].browser = flows[c].browser
             /\ StateOf(c)' = StateOf(c) /\ IdentityOf(c)' = IdentityOf(c)
             /\ flows[c].code \in Codes /\ codes[flows[c].code] # NoCode
             /\ codes'[flows[c].code] # NoCode
             /\ codes'[flows[c].code].subject = codes[flows[c].code].subject
  <2>1. ~At(c, "idle") /\ flows'[c].code = flows[c].code /\ flows'[c].browser = flows[c].browser
    BY <1>1 DEF GoesOn, At
  <2>2. /\ flows[c].browser \in Browsers
        /\ flows[c].code \in Codes /\ codes[flows[c].code] # NoCode
    BY <2>1 DEF IInv, FlowsOK
  <2> QED BY <2>1, <2>2 DEF CodesKept, StateOf, IdentityOf
<1>2. FlowsOK'
  <2> SUFFICES ASSUME NEW c \in Slots, ~At(c, "idle")'
               PROVE  /\ flows'[c].browser \in Browsers
                      /\ flows'[c].code \in Codes /\ codes'[flows'[c].code] # NoCode
                      /\ flows'[c].at \in {"settle", "session"} =>
                           EmailOf[codes'[flows'[c].code].subject] # None
    BY DEF FlowsOK, At
  <2>1. flows'[c].at \in {"settle", "session"} => EmailOf[codes[flows[c].code].subject] # None
    BY <1>1 DEF IInv, FlowsOK, At, GoesOn
  <2> QED BY <1>1, <2>1
<1>3. SessionsOK'
  <2> SUFFICES ASSUME NEW c \in Slots, At(c, "session")' PROVE Owns(c)'
    BY DEF SessionsOK, SessionOwnsIdentity, Owns
  <2>1. ~At(c, "idle")'
    BY DEF At
  <2>2. CASE flows'[c] = flows[c]
    <3>1. At(c, "session") /\ Owns(c)
      BY <2>2 DEF At, IInv, SessionsOK, SessionOwnsIdentity, Owns
    <3>2. store'.users = store.users
      BY <3>1 DEF Unlocked
    <3> QED BY <1>1, <2>1, <2>2, <3>1, <3>2 DEF Owns, Owners, Known
  <2>3. CASE GoesOn(c)
    BY <2>3 DEF GoesOn, At
  <2> QED BY <2>1, <2>2, <2>3 DEF At
<1>4. UsedUp'
  <2>1. \A c \in Slots, t \in States : Works(c, t)' => Works(c, t)
    BY <1>1 DEF Works
  <2> QED BY <2>1 DEF IInv, UsedUp, RecordsStayGone
<1> QED BY <1>2, <1>3, <1>4 DEF IInv

\* A request of a browser that does not touch the codes and the callbacks.
LEMMA BrowserKeeps ==
  ASSUME IInv, UNCHANGED <<codes, key, flows, opened, crashes>>,
         cookie' \in [Browsers -> States \cup {None}], Sound(store)', Sound(disk)',
         Unlocked \/ store'.users = store.users, RecordsStayGone
  PROVE  IInv'
<1>1. TypeOK'
  BY DEF IInv, TypeOK, Sound
<1>2. CodesKept /\ CodesOK'
  BY DEF IInv, CodesKept, CodesOK
<1> QED BY <1>1, <1>2, StepKeeps

\* What both stores have is out of use already.
LEMMA RecordsAreGone ==
  ASSUME IInv,
         \A t \in States : /\ store.states[t] = Gone => store'.states[t] = Gone
                           /\ disk.states[t] = Gone => disk'.states[t] = Gone
  PROVE  RecordsStayGone
  BY DEF IInv, UsedUp, RecordsStayGone

\* What is saved is what is in memory, with the same records.
LEMMA SavedRecordsAreGone ==
  ASSUME IInv, NEW s, Saved(s), s.states = store.states
  PROVE  RecordsStayGone
  BY DEF IInv, UsedUp, RecordsStayGone, Saved

-----------------------------------------------------------------------------
(* Browsers, the provider and time                                         *)

LEMMA StartRedirectKeeps ==
  ASSUME IInv, NEW b \in Browsers, NEW p \in Providers, NEW t \in FreshStates, StartRedirect(b, p, t)
  PROVE  IInv'
<1> DEFINE r == [provider |-> p, linking |-> store.login[b]]
           s == [store EXCEPT !.states[t] = r]
<1>1. t \in States /\ store.login[b] \in UserIds \cup {None}
  BY DEF FreshStates, IInv, TypeOK, StoreOK
<1>2. Sound(s)
  BY <1>1, StateIsSound DEF IInv
<1>3. \A x \in States \ {t} : s.states[x] = store.states[x]
  BY DEF IInv, Sound, StoreOK
<1>4. store' = s /\ disk' = s
  BY DEF StartRedirect, Saved
<1>5. opened[t] = 0 /\ \A c \in Slots : ~Works(c, t)
  BY DEF FreshStates, IInv, FlowsOK, Works, StateOf
<1>6. RecordsStayGone
  BY <1>3, <1>4, <1>5 DEF RecordsStayGone, IInv, UsedUp
<1>7. cookie' \in [Browsers -> States \cup {None}]
  BY <1>1 DEF StartRedirect, IInv, TypeOK
<1> QED BY <1>2, <1>4, <1>6, <1>7, BrowserKeeps DEF StartRedirect

LEMMA StateExpiresKeeps ==
  ASSUME IInv, NEW t \in States, StateExpires(t) PROVE IInv'
<1>1. Sound(store)' /\ Sound(disk)'
  BY StateIsSound DEF StateExpires, IInv
<1>2. /\ store'.users = store.users
      /\ \A x \in States : store'.states[x] \in {Gone, store.states[x]}
                           /\ disk'.states[x] \in {Gone, disk.states[x]}
  BY DEF StateExpires, IInv, Sound, StoreOK
<1>3. RecordsStayGone
  BY <1>2, RecordsAreGone
<1> QED BY <1>1, <1>2, <1>3, BrowserKeeps DEF StateExpires, IInv, TypeOK

LEMMA MismatchedStateKeeps ==
  ASSUME IInv, NEW b \in Browsers, NEW p \in Providers, NEW t \in States, MismatchedState(b, p, t)
  PROVE  IInv'
<1>1. Sound(store)' /\ Sound(disk)'
  BY StateIsSound DEF MismatchedState, IInv
<1>2. /\ store'.users = store.users /\ disk' = disk
      /\ \A x \in States : store'.states[x] \in {Gone, store.states[x]}
  BY DEF MismatchedState, IInv, Sound, StoreOK
<1>3. RecordsStayGone
  BY <1>2, RecordsAreGone
<1> QED BY <1>1, <1>2, <1>3, BrowserKeeps DEF MismatchedState, IInv, TypeOK

\* A request that saves its change of users and logins.
LEMMA SavedKeeps ==
  ASSUME IInv, NEW s, Saved(s), Sound(s), s.states = store.states, Unlocked,
         UNCHANGED <<cookie, codes, key, flows, opened, crashes>>
  PROVE  IInv'
<1>1. Sound(store)' /\ Sound(disk)'
  BY DEF Saved
<1>2. RecordsStayGone
  BY SavedRecordsAreGone
<1>3. cookie' \in [Browsers -> States \cup {None}]
  BY DEF IInv, TypeOK
<1> QED BY <1>1, <1>2, <1>3, BrowserKeeps

LEMMA RegisterKeeps ==
  ASSUME IInv, NEW b \in Browsers, NEW u \in FreshUsers, NEW e \in Emails, Register(b, u, e)
  PROVE  IInv'
<1> DEFINE s1 == WithUser(store, u, e, {})
           s  == [s1 EXCEPT !.login[b] = u]
<1>1. u \in UserIds \ Known(store) /\ Sound(store)
  BY DEF FreshUsers, IInv
<1>2. Sound(s1) /\ Known(s1) = Known(store) \cup {u} /\ s1.states = store.states
  <2> DEFINE ids == {}
  <2>1. /\ ids \in SUBSET Identities
        /\ \A i \in ids : Owners(store, i) = {}
        /\ \A i, j \in ids : i = j
    OBVIOUS
  <2>2. \A v \in Known(store) : store.users[v].email # e
    BY DEF Register
  <2> HIDE DEF ids
  <2>3. LET s2 == WithUser(store, u, e, ids)
        IN  Sound(s2) /\ Known(s2) = Known(store) \cup {u} /\ s2.states = store.states
    BY <1>1, <2>1, <2>2, NewUserIsSound
  <2> QED BY <2>3 DEF ids
<1>3. Sound(s)
  BY <1>2, LoginIsSound
<1>4. s.states = store.states
  BY <1>1 DEF Sound, StoreOK, WithUser
<1>5. [store EXCEPT !.users[u].email = e, !.login[b] = u] = s
  <2>1. store.users[u] = Nobody
    BY <1>1 DEF Known
  <2>2. [store.users[u] EXCEPT !.email = e] = [email |-> e, identities |-> {}]
    BY <2>1, SMTT(40) DEF Nobody
  <2> QED BY <1>1, <2>2 DEF Sound, StoreOK, WithUser
<1> QED BY <1>3, <1>4, <1>5, SavedKeeps DEF Register

LEMMA LogInOutKeeps ==
  ASSUME IInv, NEW b \in Browsers,
         LogOut(b) \/ \E u \in Known(store) : LogIn(b, u)
  PROVE  IInv'
<1>1. PICK u \in Known(store) \cup {None} :
        /\ Unlocked /\ Saved([store EXCEPT !.login[b] = u])
        /\ UNCHANGED <<cookie, codes, key, flows, opened, crashes>>
  BY DEF LogIn, LogOut
<1> DEFINE s == [store EXCEPT !.login[b] = u]
<1>2. Sound(store)
  BY DEF IInv
<1>3. Sound(s)
  BY <1>2, LoginIsSound
<1>4. s.states = store.states
  BY <1>2 DEF Sound, StoreOK
<1> QED BY <1>1, <1>3, <1>4, SavedKeeps

LEMMA UnlinkKeeps ==
  ASSUME IInv, NEW b \in Browsers, NEW p \in Providers, Unlink(b, p) PROVE IInv'
<1> DEFINE u == store.login[b]
           ids == {i \in store.users[u].identities : i[1] # p}
           s == [store EXCEPT !.users[u].identities = ids]
<1>1. Sound(store) /\ u \in Known(store) /\ u \in UserIds
  BY DEF Unlink, IInv, Sound, StoreOK, Known
<1>2. ids \in SUBSET Identities
  BY <1>1, KnownHasEmail
<1>3. \A i \in ids : Owners(store, i) \subseteq {u}
  BY <1>1, <1>2, OwnersOfSound DEF Owners
<1>4. \A i, j \in ids : i[1] = j[1] => i = j
  BY <1>1 DEF Sound, OnePerProvider
<1>5. Sound(s)
  BY <1>1, <1>2, <1>3, <1>4, IdentitiesAreSound
<1>6. s.states = store.states
  BY <1>1 DEF Sound, StoreOK
<1>7. Saved(s)
  <2>1. [store.users[u] EXCEPT !.identities = {i \in @ : i[1] # p}]
          = [store.users[u] EXCEPT !.identities = ids]
    BY <1>1 DEF Sound, StoreOK
  <2> QED BY <1>1, <2>1 DEF Unlink, Sound, StoreOK
<1> QED BY <1>5, <1>6, <1>7, SavedKeeps DEF Unlink

\* A step of the provider.
LEMMA ProviderKeeps ==
  ASSUME IInv, UNCHANGED <<store, disk, cookie, flows, opened, crashes>>,
         TypeOK', CodesKept, CodesOK'
  PROVE  IInv'
<1>1. RecordsStayGone
  BY RecordsAreGone
<1>2. Sound(store)' /\ Sound(disk)'
  BY DEF IInv
<1> QED BY <1>1, <1>2, StepKeeps

LEMMA AuthorizeKeeps ==
  ASSUME IInv, NEW t \in States, NEW k \in Codes, NEW x \in Subjects, Authorize(t, k, x)
  PROVE  IInv'
<1> DEFINE r == [status |-> "issued", subject |-> x, state |-> t,
                 provider |-> store.states[t].provider]
<1>1. r.provider \in Providers /\ r.state = t /\ r.subject = x /\ r.status = "issued"
  BY DEF Authorize, IInv, Sound, StatesNamed
<1>2. codes[k] = NoCode /\ codes' = [codes EXCEPT ![k] = r]
  BY DEF Authorize
<1>3. \A j \in Codes : codes'[j] = IF j = k THEN r ELSE codes[j]
  BY <1>2 DEF IInv, TypeOK
<1>4. r \in [status : {"none", "issued", "redeemed", "lost"},
             provider : Providers \cup {None}, state : States \cup {None},
             subject : Subjects \cup {None}]
  BY <1>1
<1> HIDE DEF r
<1>5. TypeOK'
  BY <1>2, <1>4 DEF Authorize, IInv, TypeOK
<1>6. CodesKept /\ CodesOK'
  BY <1>1, <1>2, <1>3 DEF IInv, CodesKept, CodesOK
<1> QED BY <1>5, <1>6, ProviderKeeps DEF Authorize

\* A change of the status of codes that there are.
LEMMA StatusKept ==
  ASSUME IInv,
         codes' \in [Codes -> [status : {"none", "issued", "redeemed", "lost"},
                               provider : Providers \cup {None}, state : States \cup {None},
                               subject : Subjects \cup {None}]],
         \A k \in Codes :
           \/ codes'[k] = codes[k]
           \/ /\ codes[k].status = "issued"
              /\ \E st \in {"redeemed", "lost"} : codes'[k] = [codes[k] EXCEPT !.status = st]
  PROVE  CodesKept /\ CodesOK'
<1>1. ASSUME NEW k \in Codes
      PROVE  /\ codes'[k].provider = codes[k].provider /\ codes'[k].subject = codes[k].subject
             /\ codes'[k].state = codes[k].state
             /\ codes[k] # NoCode <=> codes'[k] # NoCode
             /\ codes[k].status # "none" => codes'[k].status # "none"
  BY DEF IInv, TypeOK, NoCode
<1> QED BY <1>1 DEF CodesKept, CodesOK, IInv

LEMMA ProviderRestartsKeeps == ASSUME IInv, ProviderRestarts PROVE IInv'
<1>1. codes' \in [Codes -> [status : {"none", "issued", "redeemed", "lost"},
                            provider : Providers \cup {None}, state : States \cup {None},
                            subject : Subjects \cup {None}]]
  BY SMTT(40) DEF ProviderRestarts, IInv, TypeOK
<1>2. CodesKept /\ CodesOK'
  BY <1>1, StatusKept DEF ProviderRestarts
<1>3. TypeOK'
  <2>1. key' \in 0..MaxFaults
    BY DEF ProviderRestarts, IInv, TypeOK
  <2> QED BY <1>1, <2>1 DEF ProviderRestarts, IInv, TypeOK
<1> QED BY <1>2, <1>3, ProviderKeeps DEF ProviderRestarts

LEMMA CrashKeeps == ASSUME IInv, Crash PROVE IInv'
<1>1. \A c \in Slots : flows'[c].at = "idle"
  BY DEF Crash, NoFlow
<1>2. crashes' \in 0..MaxFaults
  BY DEF Crash, IInv, TypeOK
<1>3. TypeOK'
  BY <1>2 DEF Crash, NoFlow, IInv, TypeOK
<1>4. Sound(store)' /\ Sound(disk)'
  BY DEF Crash, IInv
<1>5. FlowsOK' /\ SessionsOK'
  BY <1>1 DEF FlowsOK, SessionsOK, SessionOwnsIdentity, At
<1>6. UsedUp'
  BY <1>1 DEF Crash, IInv, UsedUp, Works, At
<1>7. CodesOK'
  BY DEF Crash, IInv, CodesOK
<1> QED BY <1>3, <1>4, <1>5, <1>6, <1>7 DEF IInv

-----------------------------------------------------------------------------
(* Callbacks                                                               *)

\* What the type invariant says of a callback.
FlowRecords ==
  [at : {"idle", "exchange", "profile", "settle", "session"},
   browser : Browsers \cup {None},
   code : Codes \cup {None}, linking : UserIds \cup {None},
   key : 0..MaxFaults, user : UserIds \cup {None}]

LEMMA NoFlowIsIdle == NoFlow \in FlowRecords /\ NoFlow.at = "idle"
  BY DEF NoFlow, FlowRecords

\* A step of callback c that leaves f, and nothing in the stores but users.
LEMMA CallbackKeeps ==
  ASSUME IInv, NEW c \in Slots, NEW f \in FlowRecords, Goes(c, f),
         UNCHANGED <<cookie, key, opened, crashes>>,
         Sound(store)', Sound(disk)', RecordsStayGone, Unlocked \/ store'.users = store.users,
         CodesKept, CodesOK',
         codes' \in [Codes -> [status : {"none", "issued", "redeemed", "lost"},
                               provider : Providers \cup {None}, state : States \cup {None},
                               subject : Subjects \cup {None}]],
         f.at = "idle" \/ GoesOn(c)
  PROVE  IInv'
<1>1. flows' \in [Slots -> FlowRecords] /\ \A d \in Slots : flows'[d] = IF d = c THEN f ELSE flows[d]
  BY DEF Goes, IInv, TypeOK, FlowRecords
<1>2. TypeOK'
  BY <1>1 DEF IInv, TypeOK, Sound, FlowRecords
<1>3. \A d \in Slots : flows'[d] = flows[d] \/ flows'[d].at = "idle" \/ GoesOn(d)
  BY <1>1
<1> QED BY <1>2, <1>3, StepKeeps

\* A step that changes nothing but the callback.
LEMMA QuietKeeps ==
  ASSUME IInv, NEW c \in Slots, NEW f \in FlowRecords, Goes(c, f),
         UNCHANGED <<store, disk, cookie, codes, key, opened, crashes>>,
         f.at = "idle" \/ GoesOn(c)
  PROVE  IInv'
<1>1. Sound(store)' /\ Sound(disk)' /\ CodesKept /\ CodesOK'
  BY DEF IInv, CodesKept, CodesOK
<1>2. RecordsStayGone
  BY RecordsAreGone
<1> QED BY <1>1, <1>2, CallbackKeeps DEF IInv, TypeOK

\* A running callback, and one that takes the next step.
LEMMA Going ==
  ASSUME IInv, NEW c \in Slots
  PROVE  /\ flows[c] \in FlowRecords
         /\ ~At(c, "idle") => /\ flows[c].code \in Codes /\ codes[flows[c].code] # NoCode
                              /\ StateOf(c) \in States /\ flows[c].browser \in Browsers
                              /\ IdentityOf(c) \in Identities
  BY DEF IInv, TypeOK, FlowRecords, FlowsOK, CodesOK, StateOf, IdentityOf, Identities

LEMMA ConsumeStateKeeps ==
  ASSUME IInv, NEW c \in Slots, NEW b \in Browsers, NEW k \in Codes, ConsumeState(c, b, k)
  PROVE  IInv'
<1> DEFINE t == codes[k].state
           s == [store EXCEPT !.states[t] = Gone]
           f == [NoFlow EXCEPT !.at = "exchange", !.browser = b, !.code = k,
                               !.linking = store.states[t].linking]
<1>1. codes[k] # NoCode /\ t \in States /\ codes[k].provider \in Providers
      /\ store.states[t].provider = codes[k].provider
  BY DEF ConsumeState, IInv, CodesOK
<1>2. store.states[t] # Gone
  BY <1>1 DEF Gone
<1>3. opened[t] = 0 /\ \A d \in Slots : ~Works(d, t)
  BY <1>1, <1>2 DEF IInv, UsedUp, TypeOK
<1>4. Sound(s)
  BY <1>1, StateIsSound DEF IInv
<1>5. s.users = store.users /\ \A x \in States : s.states[x] = IF x = t THEN Gone ELSE store.states[x]
  BY DEF IInv, Sound, StoreOK
<1>6. store' = s /\ disk' = s /\ flows' = [flows EXCEPT ![c] = f]
      /\ UNCHANGED <<cookie, codes, key, opened, crashes>> /\ Unlocked
  BY DEF ConsumeState, Consumed, Saved, Goes
<1>7. f \in FlowRecords /\ f.at = "exchange" /\ f.browser = b /\ f.code = k
  <2>1. store.states[t].linking \in UserIds \cup {None}
    BY <1>1 DEF IInv, TypeOK, StoreOK
  <2> QED BY <2>1, NoFlowIsIdle DEF NoFlow, FlowRecords
<1> HIDE DEF f, s
<1>8. \A d \in Slots : flows'[d] = IF d = c THEN f ELSE flows[d]
  BY <1>6 DEF IInv, TypeOK
<1>9. TypeOK'
  BY <1>4, <1>6, <1>7 DEF IInv, TypeOK, FlowRecords, Sound
<1>10. FlowsOK'
  BY <1>1, <1>6, <1>7, <1>8 DEF IInv, FlowsOK, At
<1>11. SessionsOK'
  BY <1>6, <1>7, <1>8 DEF SessionsOK, SessionOwnsIdentity, Unlocked, At
<1>12. \A d \in Slots, x \in States : Works(d, x)' <=> IF d = c THEN x = t ELSE Works(d, x)
  BY <1>6, <1>7, <1>8 DEF Works, At, StateOf
<1>13. UsedUp'
  BY <1>3, <1>5, <1>6, <1>12 DEF IInv, UsedUp
<1>14. CodesOK'
  BY <1>6 DEF IInv, CodesOK
<1> QED BY <1>4, <1>6, <1>9, <1>10, <1>11, <1>13, <1>14 DEF IInv

LEMMA ExchangeCodeKeeps ==
  ASSUME IInv, NEW c \in Slots, ExchangeCode(c) PROVE IInv'
<1> DEFINE k == flows[c].code
           f == IF codes[k].status = "issued" THEN [flows[c] EXCEPT !.at = "profile", !.key = key]
                ELSE NoFlow
<1>1. k \in Codes /\ flows[c] \in FlowRecords /\ ~At(c, "idle")
  BY Going DEF ExchangeCode, At
<1>2. /\ f \in FlowRecords
      /\ (f.at = "idle" \/ (f.at = "profile" /\ f.code = k /\ f.browser = flows[c].browser))
  BY <1>1, NoFlowIsIdle DEF FlowRecords, IInv, TypeOK
<1>3. codes' = [codes EXCEPT ![k].status = IF @ = "issued" THEN "redeemed" ELSE @] /\ Goes(c, f)
      /\ UNCHANGED <<store, disk, cookie, key, opened, crashes>>
  BY DEF ExchangeCode
<1> HIDE DEF f
<1>4. codes' \in [Codes -> [status : {"none", "issued", "redeemed", "lost"},
                            provider : Providers \cup {None}, state : States \cup {None},
                            subject : Subjects \cup {None}]]
  BY <1>1, <1>3, SMTT(40) DEF IInv, TypeOK
<1>5. \A j \in Codes :
        \/ codes'[j] = codes[j]
        \/ /\ codes[j].status = "issued"
           /\ codes'[j] = [codes[j] EXCEPT !.status = "redeemed"]
  BY <1>1, <1>3 DEF IInv, TypeOK
<1>6. CodesKept /\ CodesOK'
  BY <1>4, <1>5, StatusKept
<1>7. RecordsStayGone /\ Sound(store)' /\ Sound(disk)'
  BY <1>3, RecordsAreGone DEF IInv
<1>8. f.at = "idle" \/ GoesOn(c)
  BY <1>1, <1>2, <1>3 DEF GoesOn, Goes, IInv, TypeOK
<1> QED BY <1>2, <1>3, <1>4, <1>6, <1>7, <1>8, CallbackKeeps

LEMMA FetchProfileKeeps ==
  ASSUME IInv, NEW c \in Slots, FetchProfile(c) PROVE IInv'
<1>1. flows[c] \in FlowRecords /\ ~At(c, "idle") /\ flows[c].at = "profile"
  BY Going DEF FetchProfile, At
<1>2. PICK f \in {[flows[c] EXCEPT !.at = "settle"], NoFlow} :
        /\ Goes(c, f)
        /\ f # NoFlow => EmailOf[codes[flows[c].code].subject] # None
        /\ UNCHANGED <<store, disk, cookie, codes, key, opened, crashes>>
  BY DEF FetchProfile, ClaimsAccepted
<1>3. /\ f \in FlowRecords
      /\ (f = NoFlow \/ (f.at = "settle" /\ f.code = flows[c].code /\ f.browser = flows[c].browser))
  BY <1>1, NoFlowIsIdle DEF FlowRecords
<1>4. f.at = "idle" \/ GoesOn(c)
  BY <1>1, <1>2, <1>3, NoFlowIsIdle DEF GoesOn, Goes, IInv, TypeOK
<1> QED BY <1>2, <1>3, <1>4, QuietKeeps

LEMMA GivesUp ==
  ASSUME IInv, NEW c \in Slots, Goes(c, NoFlow),
         UNCHANGED <<store, disk, cookie, codes, key, opened, crashes>>
  PROVE  IInv'
  BY NoFlowIsIdle, QuietKeeps

\* A callback that is about to log in its user.
LEMMA SettlesKeeps ==
  ASSUME IInv, NEW c \in Slots, At(c, "settle"), Unlocked, NEW u \in UserIds,
         Goes(c, [flows[c] EXCEPT !.at = "session", !.user = u]),
         UNCHANGED <<cookie, codes, key, opened, crashes>>,
         Sound(store)', Sound(disk)', RecordsStayGone,
         Owners(store', IdentityOf(c)) = {u}, flows[c].linking \in {None, u}
  PROVE  IInv'
<1> DEFINE f == [flows[c] EXCEPT !.at = "session", !.user = u]
<1>1. flows[c] \in FlowRecords /\ ~At(c, "idle")
  BY Going DEF At
<1>2. f \in FlowRecords /\ f.at = "session" /\ f.user = u
      /\ f.code = flows[c].code /\ f.browser = flows[c].browser /\ f.linking = flows[c].linking
  BY <1>1 DEF FlowRecords
<1>3. flows'[c] = f
  BY DEF Goes, IInv, TypeOK
<1> HIDE DEF f
<1>4. Owns(c)'
  BY <1>2, <1>3 DEF Owns, IdentityOf
<1>5. GoesOn(c)
  BY <1>1, <1>2, <1>3, <1>4 DEF GoesOn, At
<1>6. CodesKept /\ CodesOK'
  BY DEF IInv, CodesKept, CodesOK
<1>7. codes' \in [Codes -> [status : {"none", "issued", "redeemed", "lost"},
                            provider : Providers \cup {None}, state : States \cup {None},
                            subject : Subjects \cup {None}]]
  BY DEF IInv, TypeOK
<1> QED BY <1>2, <1>5, <1>6, <1>7, CallbackKeeps DEF f

LEMMA LinkIdentityKeeps ==
  ASSUME IInv, NEW c \in Slots, LinkIdentity(c) PROVE IInv'
<1> DEFINE u == flows[c].linking
           i == IdentityOf(c)
           s == [store EXCEPT !.users[u].identities = @ \cup {i}]
           ids == store.users[u].identities \cup {i}
<1>1. ~At(c, "idle") /\ i \in Identities /\ Sound(store) /\ Sound(disk)
  BY Going DEF LinkIdentity, At, IInv
<1>2. CASE ~MayLink(u, i)
  BY <1>2, GivesUp DEF LinkIdentity
<1>3. CASE MayLink(u, i)
  <2>1. u \in Known(store) /\ u \in UserIds
    BY <1>3 DEF MayLink, Known
  <2>2. store.users[u].identities \subseteq Identities
    BY <1>1, <2>1, KnownHasEmail
  <2>3. ids \in SUBSET Identities
    BY <1>1, <2>2
  <2>4. \A j \in ids : Owners(store, j) \subseteq {u}
    BY <1>1, <1>3, <2>1, <2>2, OwnersOfSound DEF MayLink, Owners
  <2>5. \A j, l \in ids : j[1] = l[1] => j = l
    BY <1>1, <1>3, <2>1 DEF MayLink, Sound, OnePerProvider
  <2>6. s = [store EXCEPT !.users[u].identities = ids] /\ s.states = store.states
    BY <1>1, <2>1 DEF Sound, StoreOK
  <2>7. Sound(s) /\ Known(s) = Known(store)
    BY <1>1, <2>1, <2>3, <2>4, <2>5, <2>6, IdentitiesAreSound
  <2>8. Owners(s, i) = {u}
    <3>1. s.users[u].identities = ids
      BY <1>1, <2>1 DEF Sound, StoreOK
    <3> QED BY <1>1, <2>1, <2>7, <3>1, OwnersOfSound DEF Owners
  <2>9. /\ store' = s /\ disk' = disk /\ Unlocked /\ At(c, "settle")
        /\ Goes(c, [flows[c] EXCEPT !.at = "session", !.user = u])
        /\ UNCHANGED <<cookie, codes, key, opened, crashes>>
    BY <1>3 DEF LinkIdentity
  <2>10. RecordsStayGone
    BY <2>6, <2>9, RecordsAreGone
  <2>11. Sound(store)' /\ Sound(disk)'
    BY <1>1, <2>7, <2>9
  <2> HIDE DEF s
  <2> QED BY <2>1, <2>8, <2>9, <2>10, <2>11, SettlesKeeps
<1> QED BY <1>2, <1>3

LEMMA FindUserKeeps ==
  ASSUME IInv, NEW c \in Slots, FindUser(c) PROVE IInv'
<1>1. IdentityOf(c) \in Identities /\ Sound(store) /\ Sound(disk)
  BY Going DEF FindUser, At, IInv
<1>2. PICK u \in Owners(store, IdentityOf(c)) : Goes(c, [flows[c] EXCEPT !.at = "session", !.user = u])
  BY DEF FindUser
<1>3. Owners(store, IdentityOf(c)) = {u} /\ u \in UserIds
  BY <1>1, OwnersOfSound DEF Known
<1>4. RecordsStayGone
  BY RecordsAreGone DEF FindUser
<1> QED BY <1>1, <1>2, <1>3, <1>4, SettlesKeeps DEF FindUser

LEMMA CreateUserKeeps ==
  ASSUME IInv, NEW c \in Slots, NEW u \in FreshUsers, CreateUser(c, u) PROVE IInv'
<1> DEFINE i == IdentityOf(c)
           e == EmailOf[i[2]]
           ids == {i}
           s == WithUser(store, u, e, ids)
<1>1. i \in Identities /\ Sound(store) /\ i[2] = codes[flows[c].code].subject
  BY Going DEF CreateUser, At, IInv, IdentityOf
<1>2. e \in Emails
  <2>1. i[2] \in Subjects
    BY <1>1 DEF Identities
  <2>2. e # None
    BY <1>1 DEF CreateUser, At, IInv, FlowsOK
  <2> QED BY <2>1, <2>2
<1>3. u \in UserIds \ Known(store)
  BY DEF FreshUsers
<1>4. \A v \in Known(store) : store.users[v].email # e
  BY DEF CreateUser, EmailFree, WithEmail
<1>5. /\ ids \in SUBSET Identities /\ i \in ids
      /\ \A j \in ids : Owners(store, j) = {}
      /\ \A j, l \in ids : j = l
  BY <1>1 DEF CreateUser
<1>6. /\ Saved(s) /\ Unlocked /\ At(c, "settle") /\ flows[c].linking = None
      /\ Goes(c, [flows[c] EXCEPT !.at = "session", !.user = u])
      /\ UNCHANGED <<cookie, codes, key, opened, crashes>>
  BY DEF CreateUser, WithUser
<1> HIDE DEF i, e, ids
<1>7. Sound(s) /\ Known(s) = Known(store) \cup {u} /\ s.states = store.states
  BY <1>1, <1>2, <1>3, <1>4, <1>5, NewUserIsSound
<1>8. Owners(s, i) = {u}
  <2>1. s.users[u] = [email |-> e, identities |-> ids]
    BY <1>1, <1>3 DEF Sound, StoreOK, WithUser
  <2>2. u \in Owners(s, i)
    BY <1>3, <1>5, <1>7, <2>1 DEF Owners
  <2> QED BY <1>1, <1>7, <2>2, OwnersOfSound
<1>9. RecordsStayGone
  BY <1>6, <1>7, SavedRecordsAreGone
<1> HIDE DEF s
<1>10. Sound(store)' /\ Sound(disk)' /\ Owners(store', i) = {u}
  BY <1>6, <1>7, <1>8 DEF Saved
<1> QED BY <1>3, <1>6, <1>9, <1>10, SettlesKeeps DEF i

LEMMA OpenSessionKeeps ==
  ASSUME IInv, NEW c \in Slots, OpenSession(c) PROVE IInv'
<1> DEFINE b == flows[c].browser
           t == StateOf(c)
           s == [store EXCEPT !.login[b] = flows[c].user]
<1>1. ~At(c, "idle") /\ b \in Browsers /\ t \in States /\ Sound(store)
      /\ IdentityOf(c) \in Identities
  BY Going DEF OpenSession, At, IInv
<1>2. flows[c].user \in Known(store)
  <2>1. Owners(store, IdentityOf(c)) = {flows[c].user}
    BY DEF OpenSession, IInv, SessionsOK, SessionOwnsIdentity
  <2> QED BY <2>1 DEF Owners
<1>3. Sound(s) /\ s.users = store.users /\ s.states = store.states
  <2>1. Sound(s)
    BY <1>1, <1>2, LoginIsSound
  <2>2. s.users = store.users /\ s.states = store.states
    BY <1>1 DEF Sound, StoreOK
  <2> QED BY <2>1, <2>2
<1>4. /\ store' = s /\ disk' = s /\ UNCHANGED <<codes, key, crashes>>
      /\ cookie' = [cookie EXCEPT ![b] = None]
      /\ opened' = [opened EXCEPT ![t] = @ + 1]
      /\ flows' = [flows EXCEPT ![c] = NoFlow]
  BY DEF OpenSession, Saved, Goes
<1>5. Works(c, t) /\ opened[t] = 0
  BY <1>1 DEF IInv, UsedUp, Works
<1>6. \A d \in Slots : flows'[d] = IF d = c THEN NoFlow ELSE flows[d]
  BY <1>4 DEF IInv, TypeOK
<1>7. \A x \in States : opened'[x] = IF x = t THEN 1 ELSE opened[x]
  BY <1>4, <1>5 DEF IInv, TypeOK
<1> HIDE DEF s, t, b
<1>8. TypeOK'
  <2>1. opened' \in [States -> {0, 1}]
    BY <1>4, <1>7 DEF IInv, TypeOK
  <2>2. flows' \in [Slots -> FlowRecords]
    BY <1>4, NoFlowIsIdle DEF IInv, TypeOK, FlowRecords
  <2> QED BY <1>1, <1>3, <1>4, <2>1, <2>2 DEF IInv, TypeOK, FlowRecords, Sound
<1>9. FlowsOK'
  BY <1>4, <1>6, NoFlowIsIdle DEF IInv, FlowsOK, At
<1>10. SessionsOK'
  <2> SUFFICES ASSUME NEW d \in Slots, At(d, "session")' PROVE Owns(d)'
    BY DEF SessionsOK, SessionOwnsIdentity, Owns
  <2>1. flows'[d] = flows[d] /\ At(d, "session")
    BY <1>6, NoFlowIsIdle DEF At
  <2>2. Owns(d)
    BY <2>1 DEF IInv, SessionsOK, SessionOwnsIdentity, Owns
  <2> QED BY <1>3, <1>4, <2>1, <2>2 DEF Owns, Owners, Known, IdentityOf
<1>11. UsedUp'
  <2>1. \A d \in Slots, x \in States : Works(d, x)' <=> d # c /\ Works(d, x)
    BY <1>4, <1>6, NoFlowIsIdle DEF Works, At, StateOf
  <2>2. store.states[t] = Gone
    BY <1>1, <1>5 DEF IInv, UsedUp
  <2> QED BY <1>1, <1>3, <1>4, <1>5, <1>7, <2>1, <2>2 DEF IInv, UsedUp
<1>12. CodesOK'
  BY <1>4 DEF IInv, CodesOK
<1> QED BY <1>3, <1>4, <1>8, <1>9, <1>10, <1>11, <1>12 DEF IInv

-----------------------------------------------------------------------------
(* The theorems                                                            *)

LEMMA InitSound == Init => IInv
<1> SUFFICES ASSUME Init PROVE IInv
  OBVIOUS
<1>1. Sound(store) /\ Sound(disk)
  BY EmptyIsSound DEF Init
<1>2. TypeOK
  BY <1>1 DEF Init, TypeOK, Sound, NoFlow, NoCode
<1>3. CodesOK /\ FlowsOK /\ SessionsOK
  BY DEF Init, CodesOK, FlowsOK, SessionsOK, SessionOwnsIdentity, At, NoFlow
<1>4. UsedUp
  BY DEF Init, UsedUp, Works, At, NoFlow
<1> QED BY <1>1, <1>2, <1>3, <1>4 DEF IInv

LEMMA NextSound == IInv /\ [Next]_vars => IInv'
<1> SUFFICES ASSUME IInv, [Next]_vars PROVE IInv'
  OBVIOUS
<1>1. ASSUME NEW b \in Browsers,
             \/ \E p \in Providers, s \in FreshStates : StartRedirect(b, p, s)
             \/ \E p \in Providers, s \in States : MismatchedState(b, p, s)
             \/ \E u \in FreshUsers, e \in Emails : Register(b, u, e)
             \/ \E u \in Known(store) : LogIn(b, u)
             \/ \E p \in Providers : Unlink(b, p)
             \/ LogOut(b)
      PROVE  IInv'
  BY <1>1, StartRedirectKeeps, MismatchedStateKeeps, RegisterKeeps, LogInOutKeeps, UnlinkKeeps
<1>2. ASSUME NEW c \in Slots, Callback(c) PROVE IInv'
  <2>1. CASE RefuseEmail(c) \/ RequestFails(c)
    BY <2>1, GivesUp DEF RefuseEmail, AnswerKnownEmail, RequestFails
  <2> QED BY <1>2, <2>1, ConsumeStateKeeps, ExchangeCodeKeeps, FetchProfileKeeps,
             LinkIdentityKeeps, FindUserKeeps, CreateUserKeeps, OpenSessionKeeps DEF Callback
<1>3. ASSUME NEW t \in States, StateExpires(t) \/ \E k \in Codes, x \in Subjects : Authorize(t, k, x)
      PROVE  IInv'
  BY <1>3, StateExpiresKeeps, AuthorizeKeeps
<1>4. CASE ProviderRestarts \/ Crash
  BY <1>4, ProviderRestartsKeeps, CrashKeeps
<1>5. CASE UNCHANGED vars
  <2>1. CodesKept /\ CodesOK' /\ TypeOK'
    BY <1>5 DEF vars, IInv, CodesKept, CodesOK, TypeOK
  <2> QED BY <1>5, <2>1, ProviderKeeps DEF vars
<1> QED BY <1>1, <1>2, <1>3, <1>4, <1>5 DEF Next

LEMMA AlwaysSound == Spec => []IInv
  BY InitSound, NextSound, PTL DEF Spec

\* The stores have their types, and nobody is logged in who is not known.
THEOREM TypeCorrect == Spec => []TypeOK
<1>1. IInv => TypeOK
  BY DEF IInv
<1> QED BY <1>1, AlwaysSound, PTL

\* However many callbacks overlap, a social account never has two owners.
THEOREM IdentitiesHaveOneUser == Spec => []IdentityOfOneUser
<1>1. ASSUME NEW s, Sound(s), NEW i \in Identities PROVE Cardinality(Owners(s, i)) <= 1
  <2>1. CASE Owners(s, i) = {}
    BY <2>1, FS_EmptySet
  <2>2. CASE \E u : u \in Owners(s, i)
    <3>1. PICK u \in Owners(s, i) : TRUE
      BY <2>2
    <3>2. Owners(s, i) = {u}
      BY <1>1, <3>1, OwnersOfSound
    <3>3. Cardinality(Owners(s, i)) = 1
      BY <3>2, FS_Singleton
    <3> QED BY <3>3
  <2> QED BY <2>1, <2>2
<1>2. IInv => IdentityOfOneUser
  BY <1>1 DEF IInv, IdentityOfOneUser
<1> QED BY <1>2, AlwaysSound, PTL

\* Nobody ever has two social accounts of one provider.
THEOREM UsersHaveOneIdentity == Spec => []OneIdentityPerProvider
<1>1. IInv => OneIdentityPerProvider
  BY DEF IInv, Sound, OnePerProvider, OneIdentityPerProvider
<1> QED BY <1>1, AlwaysSound, PTL

\* No two users ever have one address, whether social sign-ups race with each
\* other or with a registration.
THEOREM AddressesAreUnique == Spec => []OneUserPerEmail
<1>1. ASSUME NEW s, Sound(s), NEW u \in Known(s), NEW v \in Known(s),
             s.users[u].email = s.users[v].email
      PROVE  u = v
  <2>1. u \in UserIds /\ v \in UserIds
    BY DEF Known
  <2> QED BY <1>1, <2>1, KnownHasEmail DEF Sound, OneEmail
<1>2. IInv => OneUserPerEmail
  BY <1>1 DEF IInv, OneUserPerEmail
<1> QED BY <1>2, AlwaysSound, PTL

\* A state record opens at most one session, whatever is reloaded, authorized
\* again, lost or interrupted by a crash.
THEOREM StatesOpenOnce == Spec => []StateOpensOnce
<1>1. ASSUME IInv, NEW t \in States
      PROVE  LET working == {c \in Slots : ~At(c, "idle") /\ StateOf(c) = t}
             IN  /\ opened[t] + Cardinality(working) <= 1
                 /\ opened[t] + Cardinality(working) > 0 =>
                      store.states[t] = Gone /\ disk.states[t] = Gone
  <2> DEFINE working == {c \in Slots : ~At(c, "idle") /\ StateOf(c) = t}
  <2>1. opened[t] \in {0, 1}
    BY <1>1 DEF IInv, TypeOK
  <2>2. opened[t] = 1 => store.states[t] = Gone /\ disk.states[t] = Gone
    BY <1>1 DEF IInv, UsedUp
  <2>3. CASE working = {}
    <3>1. Cardinality(working) = 0
      BY <2>3, FS_EmptySet
    <3> QED BY <2>1, <2>2, <3>1
  <2>4. CASE \E c : c \in working
    <3>1. PICK c \in working : TRUE
      BY <2>4
    <3>2. Works(c, t) /\ c \in Slots
      BY DEF Works
    <3>3. /\ store.states[t] = Gone /\ disk.states[t] = Gone /\ opened[t] = 0
          /\ \A d \in Slots : Works(d, t) => d = c
      BY <1>1, <3>2 DEF IInv, UsedUp
    <3>4. working = {c}
      BY <3>2, <3>3 DEF Works
    <3>5. Cardinality(working) = 1
      BY <3>4, FS_Singleton
    <3> QED BY <3>3, <3>5
  <2> QED BY <2>3, <2>4
<1>2. IInv => StateOpensOnce
  BY <1>1 DEF StateOpensOnce
<1> QED BY <1>2, AlwaysSound, PTL

\* A callback that opens a session does so for the owner of the social account.
THEOREM SessionsOwnIdentities == Spec => []SessionOwnsIdentity
<1>1. IInv => SessionOwnsIdentity
  BY DEF IInv, SessionsOK
<1> QED BY <1>1, AlwaysSound, PTL

================================================================================
