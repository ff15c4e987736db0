------------------------------- MODULE OAuthFlow -------------------------------
(***************************************************************************)
(* Social sign-in: start_oauth_redirect, oauth_callback and                *)
(* unlink_oauth_provider of web/src/app.rs with web/src/oauth.rs, and the  *)
(* provider they talk to (tools/fake-oauth-provider).                      *)
(*                                                                         *)
(* A callback takes the write lock of the store twice: to consume the      *)
(* state record, and, after two requests to the provider, to link, find or *)
(* create the user.  In between other callbacks and requests run.  `store` *)
(* is the memory of the process and `disk` what was saved last.            *)
(*                                                                         *)
(* A state token stands for its nonce and its PKCE verifier, which are     *)
(* made with it.  A record that has expired counts as gone: it is removed  *)
(* at the next use and accepted by nobody.  A code remembers the redirect  *)
(* it came with, so that a browser can follow it again (reload, back).     *)
(***************************************************************************)
EXTENDS Naturals, FiniteSets

CONSTANTS
  Providers, Facebook, Microsoft,
  Subjects,      \* people as a provider knows them (provider_user_id)
  EmailOf,       \* the e-mail claim of a subject, or None
  VerifiedOf,    \* its email_verified claim: "true", "false" or "absent"
  Emails, UserIds, Browsers, States, Codes,
  Slots,         \* callbacks in progress at the same time
  None,
  MaxFaults      \* bound: crashes of the web process and restarts of the provider

ASSUME NoneAssumption ==
  None \notin Emails \cup UserIds \cup Browsers \cup States \cup Codes \cup Subjects \cup Providers
ASSUME ClaimsAssumption ==
  /\ EmailOf \in [Subjects -> Emails \cup {None}]
  /\ VerifiedOf \in [Subjects -> {"true", "false", "absent"}]
ASSUME BoundAssumption == MaxFaults \in Nat

VARIABLES
  store, disk,   \* users, oauth_states, and who is logged in at each browser
  cookie,        \* the oauth_state cookie of each browser
  codes,         \* the provider's issued_codes
  key,           \* the provider's signing key, new at each start
  flows,         \* the callbacks in progress
  opened,        \* sessions opened with each state record, lost ones included
  crashes

vars == <<store, disk, cookie, codes, key, flows, opened, crashes>>

Nobody  == [email |-> None, identities |-> {}]
Gone    == [provider |-> None, linking |-> None]
NoCode  == [status |-> "none", provider |-> None, state |-> None, subject |-> None]
NoFlow  == [at |-> "idle", browser |-> None, code |-> None, linking |-> None, key |-> 0,
            user |-> None]

EmptyStore ==
  [users  |-> [u \in UserIds |-> Nobody],
   states |-> [s \in States |-> Gone],
   login  |-> [b \in Browsers |-> None]]

Known(s) == {u \in UserIds : s.users[u] # Nobody}

StateOf(c)    == codes[flows[c].code].state
IdentityOf(c) == <<codes[flows[c].code].provider, codes[flows[c].code].subject>>

At(c, at) == flows[c].at = at

Goes(c, flow) == flows' = [flows EXCEPT ![c] = flow]

\* A callback that holds the lock to open its session keeps everybody else out.
Unlocked == \A c \in Slots : ~At(c, "session")

Init ==
  /\ store = EmptyStore /\ disk = EmptyStore /\ key = 0 /\ crashes = 0
  /\ cookie = [b \in Browsers |-> None]
  /\ codes = [k \in Codes |-> NoCode]
  /\ flows = [c \in Slots |-> NoFlow]
  /\ opened = [s \in States |-> 0]

\* Requests that change the store and save it, in one go.
Saved(s) == store' = s /\ disk' = s

-----------------------------------------------------------------------------
(* The browser and the provider                                            *)

\* A token is new: neither a record, a code nor a session has had it.
FreshStates ==
  {s \in States : /\ store.states[s] = Gone /\ disk.states[s] = Gone /\ opened[s] = 0
                  /\ \A b \in Browsers : cookie[b] # s
                  /\ \A k \in Codes : codes[k].state # s}

\* start_oauth_redirect: a logged-in user is going to link the provider.
StartRedirect(b, p, s) ==
  /\ Unlocked
  /\ Saved([store EXCEPT !.states[s] = [provider |-> p, linking |-> store.login[b]]])
  /\ cookie' = [cookie EXCEPT ![b] = s]
  /\ UNCHANGED <<codes, key, flows, opened, crashes>>

StateExpires(s) ==
  /\ store.states[s] # Gone
  /\ store' = [store EXCEPT !.states[s] = Gone]
  /\ disk' = [disk EXCEPT !.states[s] = Gone]
  /\ UNCHANGED <<cookie, codes, key, flows, opened, crashes>>

\* authorize_response: a code for the challenge and the nonce of the state.  The
\* provider does not see the cookie: any browser may follow the redirect.
Authorize(s, k, subject) ==
  /\ store.states[s] # Gone
  /\ codes[k] = NoCode
  /\ codes' = [codes EXCEPT ![k] = [status |-> "issued", subject |-> subject, state |-> s,
                                    provider |-> store.states[s].provider]]
  /\ UNCHANGED <<store, disk, cookie, key, flows, opened, crashes>>

\* The codes and the key of the provider are only in memory.
ProviderRestarts ==
  /\ key + crashes < MaxFaults
  /\ key' = key + 1
  /\ codes' = [k \in Codes |-> IF codes[k].status = "issued"
                               THEN [codes[k] EXCEPT !.status = "lost"] ELSE codes[k]]
  /\ UNCHANGED <<store, disk, cookie, flows, opened, crashes>>

\* The other ways to sign up, log in and log out.
Register(b, u, e) ==
  /\ Unlocked
  /\ \A v \in Known(store) : store.users[v].email # e
  /\ Saved([store EXCEPT !.users[u].email = e, !.login[b] = u])
  /\ UNCHANGED <<cookie, codes, key, flows, opened, crashes>>

LogIn(b, u) ==
  /\ Unlocked
  /\ Saved([store EXCEPT !.login[b] = u])
  /\ UNCHANGED <<cookie, codes, key, flows, opened, crashes>>

LogOut(b) ==
  /\ Unlocked
  /\ store.login[b] # None
  /\ Saved([store EXCEPT !.login[b] = None])
  /\ UNCHANGED <<cookie, codes, key, flows, opened, crashes>>

\* unlink_oauth_provider
Unlink(b, p) ==
  /\ Unlocked
  /\ store.login[b] # None
  /\ Saved([store EXCEPT !.users[store.login[b]].identities = {i \in @ : i[1] # p}])
  /\ UNCHANGED <<cookie, codes, key, flows, opened, crashes>>

-----------------------------------------------------------------------------
(* oauth_callback                                                          *)

\* Faulty variants: the record stays; its removal is not saved.
ConsumeKept(s)    == UNCHANGED <<store, disk>>
ConsumeUnsaved(s) == store' = [store EXCEPT !.states[s] = Gone] /\ UNCHANGED disk

Consumed(s) == Saved([store EXCEPT !.states[s] = Gone])

\* The cookie is advisory: the browser may have none, but not that of another
\* redirect.
CookieAllows(b, s) == cookie[b] \in {None, s}

\* A consumed or expired record is an error.
ConsumeState(c, b, k) ==
  /\ Unlocked
  /\ At(c, "idle")
  /\ codes[k] # NoCode
  /\ LET s == codes[k].state
     IN  /\ CookieAllows(b, s)
         /\ store.states[s].provider = codes[k].provider
         /\ Consumed(s)
         /\ Goes(c, [NoFlow EXCEPT !.at = "exchange", !.browser = b, !.code = k,
                                   !.linking = store.states[s].linking])
  /\ UNCHANGED <<cookie, codes, key, opened, crashes>>

\* The callback of another provider: an error, after the record has been removed
\* from memory and before anything is saved.
MismatchedState(b, p, s) ==
  /\ Unlocked
  /\ CookieAllows(b, s)
  /\ store.states[s] # Gone /\ store.states[s].provider # p
  /\ store' = [store EXCEPT !.states[s] = Gone]
  /\ UNCHANGED <<disk, cookie, codes, key, flows, opened, crashes>>

\* token_response redeems a code once, and signs the token with its key.
ExchangeCode(c) ==
  /\ At(c, "exchange")
  /\ LET k == flows[c].code
     IN  /\ codes' = [codes EXCEPT ![k].status = IF @ = "issued" THEN "redeemed" ELSE @]
         /\ Goes(c, IF codes[k].status = "issued"
                    THEN [flows[c] EXCEPT !.at = "profile", !.key = key] ELSE NoFlow)
  /\ UNCHANGED <<store, disk, cookie, key, opened, crashes>>

\* What verify_oidc_id_token asks of the claims.  Microsoft does not say
\* whether an address is verified; Facebook's are taken as they are.
ClaimsAccepted(p, subject) ==
  /\ EmailOf[subject] # None
  /\ p \in {Facebook, Microsoft} \/ VerifiedOf[subject] = "true"

\* The keys, or the profile, are fetched after the token: a token signed with
\* a key that is no longer published is an error.
FetchProfile(c) ==
  /\ At(c, "profile")
  /\ LET p  == codes[flows[c].code].provider
         ok == /\ ClaimsAccepted(p, codes[flows[c].code].subject)
               /\ p # Facebook => flows[c].key = key
     IN  Goes(c, IF ok THEN [flows[c] EXCEPT !.at = "settle"] ELSE NoFlow)
  /\ UNCHANGED <<store, disk, cookie, codes, key, opened, crashes>>

Owners(s, identity) == {u \in Known(s) : identity \in s.users[u].identities}

\* Faulty variant: a second identity of the provider.
MayLinkSecond(u, identity) ==
  u \in Known(store) /\ Owners(store, identity) \subseteq {u}

\* Faulty variant: whether another user has the identity is not asked again.
MayLinkStale(u, identity) ==
  /\ u \in Known(store)
  /\ \A i \in store.users[u].identities : i[1] = identity[1] => i = identity

\* The user exists, no other user has the identity, and the user has no other
\* identity of the provider.
MayLink(u, identity) ==
  /\ u \in Known(store)
  /\ Owners(store, identity) \subseteq {u}
  /\ \A i \in store.users[u].identities : i[1] = identity[1] => i = identity

LinkIdentity(c) ==
  /\ At(c, "settle") /\ Unlocked
  /\ flows[c].linking # None
  /\ LET u == flows[c].linking
         may == MayLink(u, IdentityOf(c))
     IN  /\ store' = IF may THEN [store EXCEPT !.users[u].identities = @ \cup {IdentityOf(c)}]
                            ELSE store
         /\ Goes(c, IF may THEN [flows[c] EXCEPT !.at = "session", !.user = u] ELSE NoFlow)
  /\ UNCHANGED <<disk, cookie, codes, key, opened, crashes>>

FindUser(c) ==
  /\ At(c, "settle") /\ Unlocked
  /\ flows[c].linking = None
  /\ \E u \in Owners(store, IdentityOf(c)) :
       Goes(c, [flows[c] EXCEPT !.at = "session", !.user = u])
  /\ UNCHANGED <<store, disk, cookie, codes, key, opened, crashes>>

WithEmail(e) == {u \in Known(store) : store.users[u].email = e}

\* Faulty variants: log in to the account with the address; create another.
AnswerByEmail(c, e) ==
  Goes(c, [flows[c] EXCEPT !.at = "session", !.user = CHOOSE u \in WithEmail(e) : TRUE])

AnswerKnownEmail(c, e) == Goes(c, NoFlow)

\* "An account already exists with this email."
RefuseEmail(c) ==
  /\ At(c, "settle") /\ Unlocked
  /\ flows[c].linking = None
  /\ Owners(store, IdentityOf(c)) = {}
  /\ WithEmail(EmailOf[IdentityOf(c)[2]]) # {}
  /\ AnswerKnownEmail(c, EmailOf[IdentityOf(c)[2]])
  /\ UNCHANGED <<store, disk, cookie, codes, key, opened, crashes>>

EmailIgnored(e) == TRUE

EmailFree(e) == WithEmail(e) = {}

\* The new user is placed under a sponsor, which saves the store.
CreateUser(c, u) ==
  /\ At(c, "settle") /\ Unlocked
  /\ flows[c].linking = None
  /\ Owners(store, IdentityOf(c)) = {}
  /\ EmailFree(EmailOf[IdentityOf(c)[2]])
  /\ Saved([store EXCEPT !.users[u] = [email |-> EmailOf[IdentityOf(c)[2]],
                                       identities |-> {IdentityOf(c)}]])
  /\ Goes(c, [flows[c] EXCEPT !.at = "session", !.user = u])
  /\ UNCHANGED <<cookie, codes, key, opened, crashes>>

\* Still under the same lock.  The answer sets one cookie and clears the other.
OpenSession(c) ==
  /\ At(c, "session")
  /\ Saved([store EXCEPT !.login[flows[c].browser] = flows[c].user])
  /\ cookie' = [cookie EXCEPT ![flows[c].browser] = None]
  /\ opened' = [opened EXCEPT ![StateOf(c)] = @ + 1]
  /\ Goes(c, NoFlow)
  /\ UNCHANGED <<codes, key, crashes>>

\* A request to the provider fails, or its answer is lost.
RequestFails(c) ==
  /\ flows[c].at \in {"exchange", "profile"}
  /\ Goes(c, NoFlow)
  /\ UNCHANGED <<store, disk, cookie, codes, key, opened, crashes>>

\* The process dies; the next one loads what was saved.
Crash ==
  /\ key + crashes < MaxFaults
  /\ crashes' = crashes + 1
  /\ store' = disk
  /\ flows' = [c \in Slots |-> NoFlow]
  /\ UNCHANGED <<disk, cookie, codes, key, opened>>

FreshUsers == UserIds \ (Known(store) \cup Known(disk))

Callback(c) ==
  \/ \E b \in Browsers, k \in Codes : ConsumeState(c, b, k)
  \/ ExchangeCode(c) \/ FetchProfile(c)
  \/ LinkIdentity(c) \/ FindUser(c) \/ RefuseEmail(c)
  \/ \E u \in FreshUsers : CreateUser(c, u)
  \/ OpenSession(c) \/ RequestFails(c)

Next ==
  \/ \E b \in Browsers :
       \/ \E p \in Providers, s \in FreshStates : StartRedirect(b, p, s)
       \/ \E p \in Providers, s \in States : MismatchedState(b, p, s)
       \/ \E u \in FreshUsers, e \in Emails : Register(b, u, e)
       \/ \E u \in Known(store) : LogIn(b, u)
       \/ \E p \in Providers : Unlink(b, p)
       \/ LogOut(b)
  \/ \E s \in States : StateExpires(s) \/ \E k \in Codes, x \in Subjects : Authorize(s, k, x)
  \/ \E c \in Slots : Callback(c)
  \/ ProviderRestarts \/ Crash

Spec == Init /\ [][Next]_vars

-----------------------------------------------------------------------------
(* Properties, of the store in memory and of the saved one.                *)

Identities == Providers \X Subjects

StoreOK(s) ==
  /\ s.users \in [UserIds -> [email : Emails \cup {None}, identities : SUBSET Identities]]
  /\ s.states \in [States -> [provider : Providers \cup {None},
                              linking : UserIds \cup {None}]]
  /\ s.login \in [Browsers -> UserIds \cup {None}]
  /\ \A b \in Browsers : s.login[b] # None => s.login[b] \in Known(s)

\* The stores have their types, whoever is logged in is a known user, and a state
\* record has opened one session or none.
TypeOK ==
  /\ StoreOK(store) /\ StoreOK(disk)
  /\ cookie \in [Browsers -> States \cup {None}]
  /\ codes \in [Codes -> [status : {"none", "issued", "redeemed", "lost"},
                          provider : Providers \cup {None}, state : States \cup {None},
                          subject : Subjects \cup {None}]]
  /\ key \in 0..MaxFaults /\ crashes \in 0..MaxFaults
  /\ flows \in [Slots -> [at : {"idle", "exchange", "profile", "settle", "session"},
                          browser : Browsers \cup {None},
                          code : Codes \cup {None}, linking : UserIds \cup {None},
                          key : 0..MaxFaults, user : UserIds \cup {None}]]
  /\ opened \in [States -> {0, 1}]

\* A social account belongs to one user, although callbacks that link it, log
\* in with it and create a user for it overlap between their two locks.
IdentityOfOneUser ==
  \A s \in {store, disk}, i \in Identities : Cardinality(Owners(s, i)) <= 1

\* A user has at most one social account of each provider.
OneIdentityPerProvider ==
  \A s \in {store, disk}, u \in UserIds :
    \A i, j \in s.users[u].identities : i[1] = j[1] => i = j

\* Two callbacks for one new address do not make two users of it, nor does a
\* sign-up between the two locks of a callback.
OneUserPerEmail ==
  \A s \in {store, disk} : \A u, v \in Known(s) :
    s.users[u].email = s.users[v].email => u = v

\* A state record is used once: reloads, a second code for the same record,
\* lost answers and a crash never open a second session with it, and while a
\* callback works with it, it is neither in memory nor on disk.
StateOpensOnce ==
  \A s \in States :
    LET working == {c \in Slots : ~At(c, "idle") /\ StateOf(c) = s}
    IN  /\ opened[s] + Cardinality(working) <= 1
        /\ opened[s] + Cardinality(working) > 0 =>
             store.states[s] = Gone /\ disk.states[s] = Gone

\* A session is only opened for a user who owns the social account by then,
\* and for the user who asked to link it if one did.
SessionOwnsIdentity ==
  \A c \in Slots : At(c, "session") =>
    /\ Owners(store, IdentityOf(c)) = {flows[c].user}
    /\ flows[c].linking \in {None, flows[c].user}
================================================================================
