------------------------------- MODULE WebAuth -------------------------------
(***************************************************************************)
(* Sign-up, login and sessions of the web application (web/src/app.rs) and *)
(* the store they work on (web/src/rfn_store.rs).                          *)
(*                                                                         *)
(* Every process of the application loads the whole store once, serves its *)
(* requests from that copy under one lock, and writes the whole copy back: *)
(* to the key-value store or, when that fails, to a file.  A process is    *)
(* single-threaded and no request awaits between two uses of the store, so *)
(* that a request is one step of its process.  It may however die between  *)
(* the two saves of a first login (place_in_matrix saves too).             *)
(*                                                                         *)
(* Left out: what is only displayed (names, devices, times, the whitelist  *)
(* flag of a session), the requests the rate limiter refuses, and the      *)
(* accounts' points and matrices, which are those of WebSaga.              *)
(***************************************************************************)
EXTENDS Naturals, FiniteSets

CONSTANTS
  Processes,     \* processes of the application, each with its own copy
  UserIds, Emails,
  Links,         \* tokens of magic links
  Challenges,    \* ids of passkey challenges
  States,        \* state parameters of OAuth redirects
  Slots,         \* session tokens
  None,          \* no value of an Option
  MaxLoads,      \* bound: loads of the store, by starts and restarts
  MaxFaults,     \* bound: saves and loads that do not reach the key-value store
  MaxExpired     \* bound: links, challenges and sessions that expire

ASSUME BoundsAssumption ==
  MaxLoads \in Nat /\ MaxFaults \in Nat /\ MaxExpired \in Nat

VARIABLES
  mem,       \* STATE_STORE of each process, or None before it is loaded
  kv,        \* the value of "rfn_state", or None
  file,      \* what get_state makes of rfn_store.json
  lapsed,    \* ids whose expires_at has passed
  loads, faults,
  opened,    \* history: sessions opened by a link or challenge, uses of a state
  refused    \* history: links used up by the error "User not found"

vars == <<mem, kv, file, lapsed, loads, faults, opened, refused>>

OneTime == Links \cup Challenges \cup States

ASSUME IdsAssumption ==
  /\ None \notin UserIds \cup Emails \cup OneTime
  /\ Links \cap Challenges = {} /\ Links \cap States = {} /\ Challenges \cap States = {}
ASSUME ProcessesAssumption == IsFiniteSet(Processes)

-----------------------------------------------------------------------------
(* The store                                                               *)

\* The seed and RfnState::default() have neither users nor sessions.
EmptyStore ==
  [users      |-> [u \in UserIds |-> None],       \* the email of each user
   passwords  |-> {},                             \* users with a password_hash
   passkeys   |-> {},                             \* users with a PasskeyRecord
   accounts   |-> {},                             \* keys of flushline_accounts
   links      |-> [l \in Links |-> None],
   challenges |-> [k \in Challenges |-> None],
   states     |-> {},                             \* keys of oauth_states
   sessions   |-> [c \in Slots |-> None]]

Running == {p \in Processes : mem[p] # None}

Stores == {mem[p] : p \in Running} \cup ({kv} \ {None}) \cup {file}

UsersOf(s) == {u \in UserIds : s.users[u] # None}

WithEmail(s, e) == {u \in UserIds : s.users[u] = e}

\* New ids are random: no copy of the store holds one yet.
NewUsers == {u \in UserIds : \A s \in Stores :
                s.users[u] = None
                  /\ \A k \in Challenges : s.challenges[k] = None \/ s.challenges[k].user # u}
NewLinks == {l \in Links : opened[l] = 0 /\ \A s \in Stores : s.links[l] = None}
NewChallenges == {k \in Challenges : opened[k] = 0 /\ \A s \in Stores : s.challenges[k] = None}
NewStates == {t \in States : opened[t] = 0 /\ \A s \in Stores : t \notin s.states}
NewSlots == {c \in Slots \ lapsed : \A s \in Stores : s.sessions[c] = None}

Session(u, origin) == [user |-> u, origin |-> origin]

WithSession(s, c, u, origin) == [s EXCEPT !.sessions[c] = Session(u, origin)]

\* The user's primary account, with its registration and matrix.
WithAccount(s, u) == [s EXCEPT !.accounts = @ \cup {u}]

WithUser(s, u, e) == [s EXCEPT !.users[u] = e, !.passwords = @ \ {u}]

\* authenticate_request accepts session c.
Authenticated(s, c) ==
  s.sessions[c] # None /\ c \notin lapsed /\ s.sessions[c].user \in UsersOf(s)

-----------------------------------------------------------------------------
(* save_state, get_state                                                   *)

\* A failed write of the key-value store is not reported: the store goes to
\* the file, if that can be written; a torn file reads as an empty store.
SaveState(s) ==
  \/ kv' = s /\ UNCHANGED <<file, faults>>
  \/ /\ faults < MaxFaults
     /\ faults' = faults + 1
     /\ file' \in {s, file, EmptyStore}
     /\ UNCHANGED kv

\* Faulty variant: the answer is given before anything is saved.
AnsweredUnsaved(p, s) == mem' = [mem EXCEPT ![p] = s] /\ UNCHANGED <<kv, file, faults>>

\* The request of process p ends with a save of s.
Answered(p, s) == mem' = [mem EXCEPT ![p] = s] /\ SaveState(s)

\* It ends with an error instead: what it has changed so far stays in memory.
Failed(p, s) == mem' = [mem EXCEPT ![p] = s] /\ UNCHANGED <<kv, file, faults>>

\* Faulty variant: an error of place_in_matrix ends the request there.
CutShort(p, s) == mem' = [mem EXCEPT ![p] = s] /\ SaveState(s)

\* The process dies after place_in_matrix has saved s.
Cut(p, s) == mem' = [mem EXCEPT ![p] = None] /\ SaveState(s)

NothingOpened == UNCHANGED <<lapsed, loads, opened, refused>>

Opened(x) == opened' = [opened EXCEPT ![x] = @ + 1] /\ UNCHANGED <<lapsed, loads, refused>>

Init ==
  /\ mem = [p \in Processes |-> None]
  /\ kv = None /\ file = EmptyStore
  /\ lapsed = {} /\ loads = 0 /\ faults = 0
  /\ opened = [x \in OneTime |-> 0]
  /\ refused = {}

\* get_state: the key-value store first; when it holds nothing or cannot be
\* read, the file.
Load(p) ==
  /\ mem[p] = None /\ loads < MaxLoads
  /\ loads' = loads + 1
  /\ \/ kv # None /\ mem' = [mem EXCEPT ![p] = kv] /\ UNCHANGED faults
     \/ kv = None /\ mem' = [mem EXCEPT ![p] = file] /\ UNCHANGED faults
     \/ /\ faults < MaxFaults /\ faults' = faults + 1
        /\ mem' = [mem EXCEPT ![p] = file]
  /\ UNCHANGED <<kv, file, lapsed, opened, refused>>

\* The process ends, or crashes; what it had not saved is gone.
Die(p) ==
  /\ mem[p] # None
  /\ mem' = [mem EXCEPT ![p] = None]
  /\ UNCHANGED <<kv, file, lapsed, loads, faults, opened, refused>>

Known(x) == \E s \in Stores :
  \/ x \in Links /\ s.links[x] # None
  \/ x \in Challenges /\ s.challenges[x] # None
  \/ x \in Slots /\ s.sessions[x] # None

Expire(x) ==
  /\ Cardinality(lapsed) < MaxExpired
  /\ x \notin lapsed /\ Known(x)
  /\ lapsed' = lapsed \cup {x}
  /\ UNCHANGED <<mem, kv, file, loads, faults, opened, refused>>

-----------------------------------------------------------------------------
(* Magic links                                                             *)

\* request_magic_link, for a known address or a new user u without an account.
\* Whether the email is delivered changes nothing in the store.
RequestMagicLink(p, e, l, u) ==
  LET s  == mem[p]
      s1 == IF u = None THEN s ELSE WithUser(s, u, e)
  IN  /\ u = None <=> WithEmail(s, e) # {}
      /\ Answered(p, [s1 EXCEPT !.links[l] = [email |-> e, used |-> FALSE]])
      /\ NothingOpened

Usable(s, l) == s.links[l] # None /\ ~s.links[l].used /\ l \notin lapsed

\* Faulty variant: the token stays usable.
NotSpent(s, l) == s

Spent(s, l) == [s EXCEPT !.links[l].used = TRUE]

\* The user has changed the address since: the link is used up in memory.
MagicLinkOfNobody(p, l) ==
  /\ Usable(mem[p], l)
  /\ WithEmail(mem[p], mem[p].links[l].email) = {}
  /\ Failed(p, Spent(mem[p], l))
  /\ refused' = refused \cup {l}
  /\ UNCHANGED <<lapsed, loads, opened>>

\* Faulty variants: the account of a first login is left to a later request;
\* it has the address as its key.
FirstLoginBare(s, u) == s
FirstLoginByEmail(s, u) == [s EXCEPT !.accounts = @ \cup {s.users[u]}]

\* The account, if this is the user's first login.
FirstLogin(s, u) == WithAccount(s, u)

LoginViaMagicLink(p, l, c) ==
  /\ Usable(mem[p], l)
  /\ \E u \in WithEmail(mem[p], mem[p].links[l].email) :
       LET s == FirstLogin(Spent(mem[p], l), u)
       IN  \/ Answered(p, WithSession(s, c, u, l)) /\ Opened(l)
           \/ u \notin mem[p].accounts /\ Cut(p, s) /\ NothingOpened

-----------------------------------------------------------------------------
(* Passwords and the profile                                               *)

RegisterWithPassword(p, e, u, c) ==
  LET s == WithAccount([WithUser(mem[p], u, e) EXCEPT !.passwords = @ \cup {u}], u)
  IN  /\ WithEmail(mem[p], e) = {}
      /\ Answered(p, WithSession(s, c, u, None)) \/ Cut(p, s)
      /\ NothingOpened

LoginWithPassword(p, u, c) ==
  /\ u \in mem[p].passwords
  /\ Answered(p, WithSession(mem[p], c, u, None))
  /\ NothingOpened

\* Faulty variant: the address may be another user's.
EmailUnchecked(s, u, e) == TRUE

EmailAvailable(s, u, e) == WithEmail(s, e) \subseteq {u}

UpdateUserProfile(p, c, e) ==
  /\ Authenticated(mem[p], c)
  /\ LET u == mem[p].sessions[c].user
     IN  /\ EmailAvailable(mem[p], u, e)
         /\ Answered(p, [mem[p] EXCEPT !.users[u] = e])
  /\ NothingOpened

-----------------------------------------------------------------------------
(* Sessions                                                                *)

\* Whoever has the token; the store is saved even if the token is unknown.
Logout(p, c) ==
  /\ Answered(p, [mem[p] EXCEPT !.sessions[c] = None])
  /\ NothingOpened

\* The flag is displayed and nothing else, but the store is saved.
ToggleSessionWhitelist(p, c) ==
  /\ Authenticated(mem[p], c)
  /\ Answered(p, mem[p])
  /\ NothingOpened

RevokeSession(p, c, d) ==
  /\ Authenticated(mem[p], c)
  /\ mem[p].sessions[d] # None
  /\ mem[p].sessions[d].user = mem[p].sessions[c].user
  /\ Answered(p, [mem[p] EXCEPT !.sessions[d] = None])
  /\ NothingOpened

OtherSessions(s, c) ==
  {d \in Slots \ {c} : s.sessions[d] # None /\ s.sessions[d].user = s.sessions[c].user}

RevokeOtherSessions(p, c) ==
  /\ Authenticated(mem[p], c)
  /\ LET gone == OtherSessions(mem[p], c)
     IN  Answered(p, [mem[p] EXCEPT !.sessions =
           [d \in Slots |-> IF d \in gone THEN None ELSE mem[p].sessions[d]]])
  /\ NothingOpened

-----------------------------------------------------------------------------
(* Passkeys.  Credentials are stored and compared, never verified: which    *)
(* one a discoverable login presents is up to the client.                  *)

\* `told`: the answer has named the id, so that a client can finish with it.
Challenge(u, e, told) == [user |-> u, email |-> e, told |-> told]

WithChallenge(s, k, ch) == [s EXCEPT !.challenges[k] = ch]

RegisterPasskeyStart(p, c, k) ==
  /\ Authenticated(mem[p], c)
  /\ LET u == mem[p].sessions[c].user
     IN  Answered(p, WithChallenge(mem[p], k, Challenge(u, mem[p].users[u], FALSE)))
  /\ NothingOpened

\* Any challenge of the user will do, one of a login as well.
RegisterPasskeyFinish(p, c, k) ==
  /\ Authenticated(mem[p], c)
  /\ k \notin lapsed /\ mem[p].challenges[k] # None
  /\ mem[p].challenges[k].user = mem[p].sessions[c].user
  /\ Answered(p, [mem[p] EXCEPT !.challenges[k] = None,
                                !.passkeys = @ \cup {mem[p].sessions[c].user}])
  /\ NothingOpened

\* login_passkey_start with is_signup: the new user's id is in the challenge.
StartSignup(p, e, k, u) ==
  /\ WithEmail(mem[p], e) = {}
  /\ Answered(p, WithChallenge(mem[p], k, Challenge(u, e, TRUE)))
  /\ NothingOpened

\* login_passkey_start, of the user with an address that has a passkey, or
\* without an address.
StartPasskeyLogin(p, k) ==
  /\ \E ch \in {Challenge(u, mem[p].users[u], TRUE) : u \in mem[p].passkeys}
                \cup {Challenge(None, None, TRUE)} :
       Answered(p, WithChallenge(mem[p], k, ch))
  /\ NothingOpened

\* The expiry of a challenge is not looked at when it is finished.
MayFinish(s, k) == s.challenges[k] # None /\ s.challenges[k].told

\* Faulty variant: the challenge is only read.
Kept(s, k) == s

Removed(s, k) == [s EXCEPT !.challenges[k] = None]

\* Whom a finished challenge logs in.
Claimed(s, k) == IF s.challenges[k].user = None THEN s.passkeys ELSE {s.challenges[k].user}

LoginPasskeyFinish(p, k, c) ==
  /\ MayFinish(mem[p], k)
  /\ \E u \in Claimed(mem[p], k) \cap UsersOf(mem[p]) :
       Answered(p, WithSession(Removed(mem[p], k), c, u, k))
  /\ Opened(k)

\* Either finish fails after the removal: no such user, a taken address, no
\* user or address in the record, or a malformed credential.
PasskeyFinishFails(p, k) ==
  /\ MayFinish(mem[p], k)
  /\ Failed(p, Removed(mem[p], k))
  /\ NothingOpened

\* register_passkey_finish_signup gets as far as inserting the user, whose id
\* may be that of a user who has changed the address since: their account is
\* in `accounts` already, and WebSaga.SignUp has it start from nothing.
SignsUp(s, k) ==
  /\ s.challenges[k].user # None
  /\ WithEmail(s, s.challenges[k].email) = {}

\* The user is inserted before the credential is parsed.
SignupFails(p, k) ==
  /\ MayFinish(mem[p], k) /\ SignsUp(mem[p], k)
  /\ LET ch == mem[p].challenges[k]
     IN  Failed(p, WithUser(Removed(mem[p], k), ch.user, ch.email))
  /\ NothingOpened

FinishSignup(p, k, c) ==
  /\ MayFinish(mem[p], k) /\ SignsUp(mem[p], k)
  /\ LET ch == mem[p].challenges[k]
         s1 == WithUser(Removed(mem[p], k), ch.user, ch.email)
         s2 == WithAccount([s1 EXCEPT !.passkeys = @ \cup {ch.user}], ch.user)
     IN  \/ Answered(p, WithSession(s2, c, ch.user, k)) /\ Opened(k)
         \/ Cut(p, s2) /\ NothingOpened

-----------------------------------------------------------------------------
(* The state records of OAuth redirects; the rest of a callback is that of  *)
(* OAuthFlow.                                                              *)

StartRedirect(p, t) ==
  /\ Answered(p, [mem[p] EXCEPT !.states = @ \cup {t}])
  /\ NothingOpened

ConsumeState(p, t) ==
  /\ t \in mem[p].states
  /\ Answered(p, [mem[p] EXCEPT !.states = @ \ {t}])
  /\ Opened(t)

-----------------------------------------------------------------------------
ByMagicLink(p) ==
  \/ \E e \in Emails, l \in NewLinks, u \in NewUsers \cup {None} : RequestMagicLink(p, e, l, u)
  \/ \E l \in Links : MagicLinkOfNobody(p, l) \/ \E c \in NewSlots : LoginViaMagicLink(p, l, c)

ByPassword(p) == \E c \in NewSlots :
  \/ \E e \in Emails, u \in NewUsers : RegisterWithPassword(p, e, u, c)
  \/ \E u \in UserIds : LoginWithPassword(p, u, c)

InSession(p) == \E c \in Slots :
  \/ Logout(p, c) \/ ToggleSessionWhitelist(p, c) \/ RevokeOtherSessions(p, c)
  \/ \E d \in Slots : RevokeSession(p, c, d)
  \/ \E e \in Emails : UpdateUserProfile(p, c, e)
  \/ \E k \in NewChallenges : RegisterPasskeyStart(p, c, k)
  \/ \E k \in Challenges : RegisterPasskeyFinish(p, c, k)

ByPasskey(p) ==
  \/ \E k \in NewChallenges : StartPasskeyLogin(p, k)
                              \/ \E e \in Emails, u \in NewUsers : StartSignup(p, e, k, u)
  \/ \E k \in Challenges :
       \/ PasskeyFinishFails(p, k) \/ SignupFails(p, k)
       \/ \E c \in NewSlots : LoginPasskeyFinish(p, k, c) \/ FinishSignup(p, k, c)

ByProvider(p) ==
  \/ \E t \in NewStates : StartRedirect(p, t)
  \/ \E t \in States : ConsumeState(p, t)

Next ==
  \/ \E p \in Processes : Load(p)
  \/ \E p \in Running :
       ByMagicLink(p) \/ ByPassword(p) \/ InSession(p) \/ ByPasskey(p) \/ ByProvider(p) \/ Die(p)
  \/ \E x \in Links \cup Challenges \cup Slots : Expire(x)

Spec == Init /\ [][Next]_vars

-----------------------------------------------------------------------------
(* Properties                                                              *)

LinkRecords      == [email : Emails, used : BOOLEAN]
ChallengeRecords == [user : UserIds \cup {None}, email : Emails \cup {None}, told : BOOLEAN]
SessionRecords   == [user : UserIds, origin : Links \cup Challenges \cup {None}]

StoreSet ==
  [users      : [UserIds -> Emails \cup {None}],
   passwords  : SUBSET UserIds,
   passkeys   : SUBSET UserIds,
   accounts   : SUBSET UserIds,
   links      : [Links -> LinkRecords \cup {None}],
   challenges : [Challenges -> ChallengeRecords \cup {None}],
   states     : SUBSET States,
   sessions   : [Slots -> SessionRecords \cup {None}]]

ASSUME NoneAssumption == None \notin LinkRecords /\ None \notin StoreSet

\* Every copy of the store keeps its types.
TypeOK ==
  /\ mem \in [Processes -> StoreSet \cup {None}]
  /\ kv \in StoreSet \cup {None} /\ file \in StoreSet
  /\ lapsed \subseteq Links \cup Challenges \cup Slots
  /\ loads \in 0..MaxLoads /\ faults \in 0..MaxFaults
  /\ opened \in [OneTime -> Nat] /\ refused \subseteq Links

\* No copy of the store has two users with one address, whichever of the three
\* ways to sign up and the change of a profile they come from, and whatever
\* became of the address between the two requests of a sign-up by passkey.
OneUserPerEmail ==
  \A s \in Stores, u, v \in UserIds :
    s.users[u] # None /\ s.users[u] = s.users[v] => u = v

\* Whoever has a session, a password or a passkey is a user with an account,
\* in every copy: the users that a link request and a failed sign-up leave
\* behind have none of them, and a first login cut short leaves the account.
MembersHaveAccounts ==
  \A s \in Stores :
    LET logged == {s.sessions[c].user : c \in {d \in Slots : s.sessions[d] # None}}
    IN  logged \cup s.passwords \cup s.passkeys \subseteq s.accounts \cap UsersOf(s)

\* A copy that has the session of a link or a challenge has it used up, and
\* has no second session of it: the two are saved, lost and loaded together.
SpentWithItsSession ==
  \A s \in Stores, c \in Slots :
    s.sessions[c] # None /\ s.sessions[c].origin # None =>
      LET x == s.sessions[c].origin
      IN  /\ x \in Links => s.links[x] # None /\ s.links[x].used
          /\ x \in Challenges => s.challenges[x] = None
          /\ \A d \in Slots : s.sessions[d] # None /\ s.sessions[d].origin = x => d = c

\* With one process, each further use of a link, a challenge or a state record
\* takes a save that did not reach the key-value store: no crash, and no death
\* in the middle of a first login, makes one valid again.
ReplayTakesAFault == \A x \in OneTime : opened[x] <= 1 + faults

\* With one process and no fault, the saved store has exactly the sessions and
\* the links, spent or not, that the process answers from: no logout, revocation
\* or login is undone by a restart, no link that was mailed is lost and no spent
\* one is fresh again.  Only the spending of a link that was answered with the
\* error "User not found" may still be unsaved.
SessionsSurvive ==
  LET saved == IF kv = None THEN EmptyStore ELSE kv
  IN  faults = 0 =>
        \A p \in Running :
          /\ mem[p].sessions = saved.sessions
          /\ \A l \in Links \ refused : mem[p].links[l] = saved.links[l]

\* A link that is used up without a session was answered with an error, or the
\* process died while it served the link: one link for each death.
LostLinks ==
  LET lost(s) == {l \in Links \ refused : s.links[l] # None /\ s.links[l].used /\ opened[l] = 0}
  IN  Cardinality(UNION {lost(s) : s \in Stores}) <= loads - Cardinality(Running)

\* With any number of processes and faults, no copy of the store lets a link, a
\* challenge or a state record through twice: each use takes another load.
EachUseTakesALoad == \A x \in OneTime : opened[x] <= loads

==============================================================================
