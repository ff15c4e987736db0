# MaxPayout: specifications and proofs

MaxPayout pays members of a referral network for two things: filling their
forced matrix ("matrix cycled") and finishing the five-tier flushline ("flushline
graduated").  A member who has done both gets a free duplicate account.  This
directory holds TLA+ modules of that program, the configurations that TLC checks
them with, and proofs that TLAPS checks.

Source references are relative to the repository (`src/` here).

## The system

| part | state it keeps | operations | talks to |
| --- | --- | --- | --- |
| coordinator daemon (`coordinator/src/worker.rs`) | none of its own; the `processed` column of two outbox tables | poll a batch, run a handler per row, flag the row | handlers, PostgreSQL |
| coordinator handlers (`coordinator/src/lib.rs`) | `orchestrator_inbox_log`, `orchestrator_coordination_states` | `handle_matrix_cycled`, `handle_flushline_graduated`, `check_and_spawn_free_account_tx` | context crates through `*_tx` repositories, one transaction per event |
| context crates (`matrix`, `flushline`, `sponsor_allocator`, `potbonus`) | matrices, flushline accounts, sponsor pool, pot bonus registrations | `cycle`, `force_cycle`, `allocate_sponsor`, ... | git submodules, empty in the repository: external |
| API (`api/src`) | users, magic links, passkeys, challenges, sessions (PostgreSQL); rate-limit windows (memory) | sign up, award points, log in, list and revoke sessions | context repositories; starts the daemon in its own process |
| web store (`web/src/rfn_store.rs`) | one `RfnState` value: users, sessions, matrices, slots, points, sponsor pool, coordination states; a cached copy per process and a saved blob | `award_points`, `place_in_matrix`, `check_and_spawn_free_account`, `allocate_sponsor`, `save_state` | key-value store or file; called by every server function |
| web identity (`web/src/app.rs`) | parts of `RfnState` | magic link, password, passkey, session and whitelist server functions | web store |
| web OAuth (`web/src/oauth.rs`, `app.rs`) | `oauth_states` | start redirect, consume state, exchange code, verify identity, link or log in | identity providers over HTTP |
| web dashboard and views (`web/src/app.rs`) | none | queries, Leptos components | web store |
| fake OAuth provider (`tools/fake-oauth-provider`) | issued codes | authorize, token, keys | the web OAuth flow in tests |

How they interact: the API commits a matrix cycle or a graduation together with
an outbox row; the daemon, a task of the same process, polls those rows once a
second and runs one handler transaction per row; the handler changes the
contexts, which may insert further outbox rows.  The web application does not
use PostgreSQL: it runs the same saga synchronously inside a request, on its own
copy of the store.

What is hard here, with the lines, is listed under `hazards` in `PROJECT.json`:
replays after a crash between a commit and the flag, lost commit answers, two
daemons on one row, a coordination row that is read early and written back whole,
errors that must roll back everything, rows that fail for good at the head of the
queue; in the web store a saga that recurses through three functions and saves
the whole store from the middle of the recursion; processes that cache that store
and overwrite each other's; API logins whose statements interleave; OAuth
callbacks that give up the store's lock for two requests to the provider.

What makes each part correct:

* daemon: every event takes effect exactly once, none is lost, none is held up
  by another one's failure;
* handlers: one free account per account that has both cycled and graduated, no
  account without both;
* web store: the same promise without a daemon; every account that owns a matrix
  can always be placed under; points, cycles and graduation events agree; what
  was saved is a state the program can go on from;
* API and web identity: a link or a challenge opens one session, and exactly how
  often more when requests overlap, saves fail or processes share a store; nobody
  revokes a session of somebody else; an e-mail belongs to one user, and a
  session to the user who earned it;
* OAuth: a state record is used once, by the user it was issued for, for the
  purpose it was issued for.

## Modules

| module | models | role |
| --- | --- | --- |
| `Saga` | what the orchestrator promises | abstract specification |
| `Coordinator` | `worker.rs` and `lib.rs` of the coordinator, the API calls that publish | core model, properties, inductive invariants |
| `MCCoordinator` | | TLC instances of `Coordinator` |
| `CoordinatorProofs` | | TLAPS proofs about `Coordinator` |
| `WebSaga` | `rfn_store.rs` and the requests of `app.rs` that place and award | model and properties |
| `MCWebSaga` | | TLC instances of `WebSaga` |
| `WebSagaProofs` | | TLAPS proofs about `WebSaga`: who is paid, and what a crash costs an owner |
| `WebSagaBooksProofs` | | TLAPS proofs about `WebSaga`: points and cards, places, allocations |
| `ApiAuth` | `auth.rs` and the session middleware of the API | model and properties |
| `MCApiAuth` | | TLC instances of `ApiAuth` |
| `ApiAuthProofs` | | TLAPS proofs about `ApiAuth` |
| `ApiAuthLinksProofs` | | TLAPS proof about `ApiAuth`: the links that are lost |
| `OAuthFlow` | the OAuth server functions of `app.rs`, `oauth.rs`, the fake provider | model and properties |
| `MCOAuthFlow` | | TLC instance of `OAuthFlow` |
| `OAuthFlowProofs` | | TLAPS proofs about `OAuthFlow` |
| `WebAuth` | the identity server functions of `app.rs`; loading and saving of `rfn_store.rs` | model and properties |
| `MCWebAuth` | | TLC instances of `WebAuth` |
| `WebAuthProofs` | | TLAPS proofs about `WebAuth`: every copy of the store is consistent |
| `WebAuthUsesProofs` | | TLAPS proofs about `WebAuth`: uses, losses and restarts |

`Coordinator` composes the daemon, its handlers and the producers of the API, and
is related to `Saga` by refinement.  The other components meet through a store and
not through calls, so each of their modules carries what it needs of the others:
`WebAuth` has the save inside a first login's placement, `OAuthFlow` the other ways
to log in and sign up, and `WebSaga` the sign-ups that create an account.

### Saga

Three variables: the published events, how often each took effect, and the free
accounts of each account.  `SagaConsume` is one atomic step: an event takes
effect and the number of free accounts becomes a function of the set of events
consumed so far.  There is no flag, inbox, transaction or daemon in it.

### Coordinator

`Workers` are the daemons, one for each running API process.  The tables are
`outbox` and `processed` (both outbox tables; `RowsOf` tells which), `inbox`
(`orchestrator_inbox_log`), `coord` (`orchestrator_coordination_states`, where an
absent row equals a row with three FALSE flags, as
`get_or_create_coordination_state` has it), and two counters that stand for the
contexts: `applied` counts how often the effects of an event were committed,
`spawns` the free accounts of an account.  `poolOpen` stands for the sponsor pool,
which is in a crate that is not in the repository: it only decides whether
`allocate_sponsor` succeeds, and changes at any time.

Each daemon has a program counter and its local variables; the transaction it has
open is in `row`, `emits` and `spawn` until `Commit` copies it to the tables.

| action | code |
| --- | --- |
| `Poll`, `EndBatch` | the two SELECTs of `worker.rs` and the loop around them |
| `ConsumeDuplicate`, `Consume` | `mark_event_consumed`, with and without a unique violation |
| `Read` | `get_or_create_coordination_state` and the flag set on the copy |
| `Forward` | the calls into the sponsor, pot bonus and flushline contexts; graduations become outbox rows of the transaction |
| `Save` | `save_coordination_state` |
| `SpawnNothing`, `SpawnFreeAccount`, `SpawnFails` | the three ways through `check_and_spawn_free_account_tx` |
| `Commit` | `tx.commit()` |
| `Mark` | `UPDATE ... SET processed = TRUE`, outside the transaction |
| `StatementFails`, `CommitUnacknowledged`, `PollOrMarkFails` | an error of a statement, of COMMIT after it took effect, of the SELECT or the UPDATE |
| `Crash`, `Restart` | the process dies or aborts the daemon on shutdown; it is started again |
| `Publish`, `PoolChanges` | `signup_user` and `award_points` of the API; the sponsor pool |

Transactions run at READ COMMITTED, PostgreSQL's default, which no code changes.
A SELECT sees committed rows and locks nothing; an INSERT of a key that an open
transaction has inserted waits for it (`InboxFree`); an upsert waits for the
transaction that wrote the row (`HoldsRow`).  Whatever locks the context crates
take inside `Forward`, the coordination row is read before they are called, so
they do not change what `Read` may see.

A few operators are marked "Faulty variant": each is a plausible mistake in the
definition after it, and the properties are checked to catch it.

### WebSaga

The web application runs the saga inside a request, under the write lock of its
store.  `store` is that value in memory, `disk` the value last written by
`save_state`.  The call structure is a list, `todo`, of what the request still has
to do, the next call first: an action takes the first call and puts the calls it
makes in its place.  A request can start when the list is empty, since the lock is
held throughout.  Every action contains at most one save, at its end, so a crash
between two actions covers a crash anywhere.  A process that ends without a crash
(Spin may end one after any request) loses nothing, as every request ends with the
store saved; it is no step of its own.

| action | code |
| --- | --- |
| `SignUp` | `register_with_password`; the same lines in the magic link, passkey and OAuth sign-ups, and `register_passkey_finish_signup` with the id of an existing user, whose account it starts anew |
| `AddDownline` | `create_downline_account`, `simulate_downline_signup` |
| `RequestAward` | the `award_points` server function |
| `PlaceNowhere`, `PlaceInMatrix`, `RefillMatrix` | `place_in_matrix`: no Filling matrix; the slot and, if it is the last, the cycle; the fresh matrix after the points |
| `AwardPoints` | `SagaCoordinator::award_points` up to its save |
| `CheckNothing`, `CheckAllocates`, `SpawnFreeAccount` | `check_and_spawn_free_account`: its early returns, `allocate_sponsor` with its save, the account and its placement |
| `SaveState` | the other calls of `save_state` |
| `Crash` | the process dies, and `get_state` loads the saved store |

`freeOf` records which account a free account was made for; the code only keeps
the user both belong to.  The sponsor of a request is any id (for a new account,
any but its own): a cookie or a parameter may name anything.  `signups`, which the
code does not keep, counts how often a user has signed up.  More than once is
possible: `register_passkey_finish_signup` takes the id of its challenge, which may
come from a login by passkey of a user who has changed address since
(`web/src/app.rs:2698`).  `AsI32` keeps the width of the points:
`Half` is 2^31 in the program, and a sum beyond it wraps.

### ApiAuth

No handler of `auth.rs` opens a transaction: it runs two to five statements on the
pool, each of which commits by itself.  A request occupies a slot of `Slots`, and
`req` holds the statement it runs next with the values it has read.  A statement
that decides everything is an action; requests of the other slots run in between,
and `Dropped` ends a request before its next statement (an error, a client that
hangs up, a shutdown: axum drops the future).

| action | code |
| --- | --- |
| `RequestMagicLink` | `request_magic_link` |
| `ReadLink`, `SpendLink`, `FindUser`, `CreateUser`, `OpenSession` | the statements of `login_via_magic_link`, in their order |
| `CheckAddress`, `Register` | `register_password_user`: SELECT EXISTS, INSERT |
| `ReadPassword`, `OpenSession` | `login_password_user` |
| `Authenticate` | `auth_middleware` of a session that is valid: what it has read is an argument of the handler |
| `ReadExpired`, `Purge` | `auth_middleware` of an expired one: the SELECT and the DELETE |
| `RevokeSession`, `RevokeOthers` | `revoke_session`, `revoke_other_sessions` |
| `StartRegistration`; `ReadLatest`, `SavePasskey`, `DeleteChallenge` | `register_passkey_start`, `register_passkey_finish` |
| `StartLogin`; `ReadChallenge`, `OpenSession`, `DeleteChallenge` | `login_passkey_start`, `login_passkey_finish` |
| `LinkExpires`, `ChallengeExpires`, `SessionExpires` | `expires_at` passes; all challenges live equally long, so the oldest expires first |

A user is its address (UNIQUE, never updated).  A deleted session keeps its owner
and origin in the model, so that "who opened it" can be asked later; `Listed` and
`Rows` see only the rows that are there.

### OAuthFlow

A callback takes the write lock twice: to consume the state record and, after the
exchange of the code and the fetch of keys or profile, to settle who is logged in.
Between the two it awaits, the process serves other requests, and it may die.
`flows` holds the callbacks in progress; `Unlocked` keeps everybody out between
`LinkIdentity`, `FindUser` or `CreateUser` and `OpenSession`, which are one locked
section.  They are two actions because placing a new user under a sponsor saves
the store in the middle, so that a crash there leaves the user and no session.

| action | code |
| --- | --- |
| `StartRedirect` | `start_oauth_redirect`, with the cookie it sets |
| `Authorize` | the provider's `authorize`, followed in any browser |
| `ConsumeState` | `oauth_callback` up to its first save: cookie, state record, provider; any browser whose cookie does not name another state (`CookieAllows`) |
| `MismatchedState` | the same with a provider that is not the record's: the record is gone from memory and nothing is saved |
| `ExchangeCode` | the token request, and the provider's `token`: a code is redeemed once |
| `FetchProfile` | `verify_oidc_id_token` with the keys fetched now, or Facebook's profile; `ClaimsAccepted` |
| `LinkIdentity`, `FindUser`, `RefuseEmail`, `CreateUser` | the four ways through the second lock |
| `OpenSession` | the session, its save and the two cookies |
| `RequestFails`, `ProviderRestarts`, `Crash` | a provider that does not answer, one that has lost its codes and key, a web process that dies |
| `Register`, `LogIn`, `LogOut`, `Unlink` | the other requests that touch users, identities and logins |

A code remembers the redirect it was issued for, so a browser can follow it again
and a redirect can be authorized twice.

### WebAuth

A request of the web application holds the write lock of its process from its
first to its last use of the store and does not await in between (the mail of a
magic link is sent after the save).  A process is a single-threaded WebAssembly
instance.  So a request is one action of its process.  What is not atomic is the
store: `mem[p]` is the copy process `p` loaded, `kv` and `file` are what was saved.
`SaveState` may miss the key-value store and write the file instead, whole, torn
or not at all; `Load` takes the file when the key-value store holds nothing or
fails.  `Failed` is a request that changed memory and answered with an error
before its save; `Cut` a process that dies after the save inside `place_in_matrix`
and before the request's own.

| action | code |
| --- | --- |
| `RequestMagicLink`, `LoginViaMagicLink`, `MagicLinkOfNobody` | `request_magic_link`, `login_via_magic_link` and its error for an address nobody has any more |
| `RegisterWithPassword`, `LoginWithPassword`, `UpdateUserProfile` | the functions of those names |
| `Logout`, `ToggleSessionWhitelist`, `RevokeSession`, `RevokeOtherSessions` | the same; the whitelist flag itself is only displayed |
| `RegisterPasskeyStart`, `RegisterPasskeyFinish` | the same |
| `StartSignup`, `StartPasskeyLogin` | `login_passkey_start`, with and without `is_signup` |
| `LoginPasskeyFinish`, `FinishSignup`, `PasskeyFinishFails`, `SignupFails` | `login_passkey_finish`, `register_passkey_finish_signup` and their errors after the challenge has been removed |
| `StartRedirect`, `ConsumeState` | the two saves of an OAuth state record |
| `Load`, `Die`, `Expire` | `get_state` on first use, the end of a process, `expires_at` |

That Spin may run several instances of the application at once is external: nothing
in the repository limits it to one, so it is a constant, `Processes`.

## Runs

| run | question | bounds | result |
| --- | --- | --- | --- |
| `one_daemon` | does one daemon implement the saga, through every crash, error, replay and lost commit answer? | 1 daemon, 2 accounts, 3 cycles and 3 graduations, batches of 2, 2 faults | holds |
| `two_daemons` | is every event exactly-once, and no spawn unearned, when two processes poll the same rows? | 2 daemons (symmetric), 2 accounts, 2 + 2 events, batches of 2, 1 fault | holds |
| `liveness` | is every row processed in the end, and does a row that waits for a sponsor hold up others? | 2 daemons, 2 accounts, 2 + 1 events, batches of 2, 1 fault, fairness | holds |
| `two_daemons_duplicate` | are duplicate spawns prevented with two daemons? | 2 daemons, 2 cycles and 1 graduation of one account, no fault | violated |
| `two_daemons_lost` | is the free account created when both criteria are met with two daemons? | 2 daemons, 1 cycle and 1 graduation of one account, no fault | violated |
| `web_saga` | are points, events, free accounts, matrices and allocations consistent, in memory and on disk, and what do a crash and a repeated sign-up cost? | the seeded sponsor, 3 new ids (symmetric), 3 sign-ups, matrices of 2 slots, awards of 6 and 30, 1 crash | holds |
| `web_saga_unplaced` | is a free account placed under its sponsor? | the same, no crash | violated |
| `api_links` | whose are the sessions, how often does a link open one, when is it lost, who revokes what? | 2 overlapping requests, 2 users, 2 links, 2 sessions, 1 expired row, 1 dropped request | holds |
| `api_passkeys` | how often does a challenge open a session, whose passkey does it make? | 2 overlapping requests, 2 users, 2 challenges, 3 sessions, none dropped | holds |
| `oauth_flow` | is a state record used once, and do identities and addresses keep one user? | 2 overlapping callbacks, 2 providers, 2 subjects with one address, 2 users, 1 browser, 2 states, 2 codes, 1 crash or provider restart | holds |
| `web_auth` | one process: is every copy of the store consistent, does it survive deaths and failed saves, what is lost? | 2 users, 2 addresses, 1 link, 1 challenge, 2 sessions, 2 loads, 1 fault | holds |
| `web_store` | several processes: how often can something single-use be used? | 2 processes, 1 user, 2 addresses, 1 link, 1 state record, 1 session, 3 loads, 1 fault, 1 expiry | holds |

The bounds.  Two accounts are enough for rows of different accounts to share a
batch and for one to be stuck while the other proceeds; in `one_daemon` account
`a1` has two cycles and two graduations, so that flags are set again after the
spawn reset them and the second qualification is reached.  A batch of two leaves
rows for the next poll.  Two faults allow a crash during the recovery from an
error; every single fault can hit every step.  With two daemons, two events per
table already give all pairings of handlers: same event, same account, different
accounts.  The number of faults is the only bound on behaviours besides the
number of events.

In `web_saga` a matrix of two slots has the owner and one account, so three new
accounts give an owner two cycles, or one inside which the free account is spawned.
Three sign-ups (`MaxSignUps`) start one account three times, or two users' with one
of them anew; downlines are not counted.
Awards go to accounts with at most `MaxPoints` = 0 points: 6 and then a cycle is
exactly 15, 30 completes two cards at once, and a cycle adds 9 to anything.  `Half`
is 64, which no sum of the run reaches.

In `api_links` and `api_passkeys` two slots give every pairing of handlers and
every interleaving of their statements; two users are the fewest that can be
confused.  Links and challenges share no table or column, so they are checked in
two instances: the first needs a dropped request and an expired row, the second a
third session (a login to register a passkey with, and two logins by passkey).
In `oauth_flow` the two subjects share an address, which is verified for one and
unknown for the other: Google accepts the first only, Facebook both, so linking,
login, refusal and creation all meet both.  Two states and two codes allow a
reload, a second authorization of one redirect and two redirects of one browser.
Microsoft differs from the two in the claims alone, which `ClaimsAccepted` covers.
`web_auth` has one process that is loaded twice: an end, a crash or a cut first
login and the life after it.  `web_store` has two processes and a restart of one;
its one session slot is reused after logouts that reach every copy.

In all these runs ids are used up and the model then stops, as the cfg files say
with CHECK_DEADLOCK FALSE; the program draws ids at random and goes on.

Fairness (`FairSpec`).  A running daemon keeps executing: tokio schedules the
task, the interval ticks, and PostgreSQL answers or fails.  A stopped process is
started again, as a deployment does.  Nothing is assumed of the producers, of the
sponsor pool or of faults, except that faults are finitely many.
`EventuallyProcessed` is conditional on the pool keeping room from some point
on: without it the handlers of qualifying rows fail for ever, and the code retries
them for ever.  `ClosedPoolHoldsUpNobodyElse` makes no such assumption but needs
fewer waiting rows than the LIMIT of the query: with fifty rows that fail on
every attempt, the batch never holds another row.

### Two daemons

`two_daemons_duplicate` and `two_daemons_lost` show one cause: the coordination
row is read without a lock when the handler starts and written back whole when it
ends.  With one API process the daemon handles one row at a time and nothing goes
wrong: `one_daemon` and the theorems below cover that.  With two (a second
replica, or the overlap of a rolling deployment) the later of two handlers of one
account overwrites what the earlier wrote.  The design document asks for the
opposite (`docs/design/high_level_coordination_plan.md:45` and `:385`).

The cause is the only one.  `CopiesApart` says that no two daemons hold copies of
one account's coordination row at a time, which is what a lock taken by the SELECT
would give, and `CoordinatorImplementsSagaApart` proves that any number of daemons
then implement the saga, through the same crashes, replays and lost commits.

A related remark: the comment of `coordinator/src/lib.rs:280` says the flags are
reset "so they can qualify again if possible".  They cannot:
`new_account_spawned` is never reset, and `NoDuplicateSpawn` is what the condition
at line 204 makes of it.

### The web store

`web_saga` states what a crash costs, and no more: each one can leave one owner
without a matrix that others could be placed in (`OwnersHaveAMatrix`), because
`award_points` saves a store in which the matrix has cycled and the fresh one does
not exist; and each can lose one allocation of a sponsor (`AllocationsMatchSpawns`),
because `allocate_sponsor` saves before the account exists.  A free account is
never lost: it stays owed until the next points (`QualifiedIsPaid`).

It also states what a sign-up over an existing account costs.  The account starts
again with no points, no cycles and no graduation, and its user gets one more
matrix that is filling, while the events, the coordination flags, the free account
and the old matrices stay.  So cards are completed a second time and have a second
event (`CyclesMatchPoints` bounds them by the number of starts), an owner may have
as many filling matrices as starts (`OwnersHaveAMatrix`), and an account may have
its free account and not be graduated: what remains is that it was earned once, by
a completed card and a filled matrix, and that the flag which no sign-up resets
still keeps it from being made twice (`FreeAccountEarnedOnce`).

`web_saga_unplaced` needs no fault.  The pool only holds the seeded sponsor, which
owns no matrix, so step 4 of the spawn (`web/src/rfn_store.rs:484`) does nothing.

A downline made by `create_downline_account` gets a matrix with no slots, so the
first account placed under it takes slot 1, which elsewhere is the owner's.

### Single use

"Used once" is what every login record is for, and each of the three stores gives
a different answer.

* API (PostgreSQL): a link is read in one transaction and spent in another, by an
  UPDATE without a condition on `used` (`api/src/auth.rs:218`).  Two requests that
  overlap each open a session.  `LinkOpensOnce` is what remains true: the link is
  spent before any session exists, so requests that begin later are refused and
  each of the overlapping ones opens at most one.  A passkey challenge is deleted
  after the session exists, so the same holds only while no request is dropped in
  between (`ChallengeOpensOnce`).  The price of spending first is `LinksLost`: a
  dropped request, or one that loses the race to create its user, costs the link.
* one web process: `ReplayTakesAFault`.  Every use is saved before its session is
  announced; only a save that missed the key-value store brings a record back.
* several web processes: a record that one copy has used up is still good in the
  others.  `EachUseTakesALoad` bounds it by the number of loads, which is exact:
  two processes that have both loaded a link both accept it.  The comment at
  `web/src/app.rs:2938` calls the persisted state record the "replay-prevention
  source of truth"; it is, for each process's copy.
* `OAuthFlow` looks at one process in detail: while a callback works with a state
  record it is neither in memory nor on disk (`StateOpensOnce`).

`SessionsSurvive` says the same of sessions and links together: while no save has
missed the key-value store, what a new process would load has exactly the sessions
and the links, fresh or spent, that the running one answers from.  The one exception
is a link that was answered with "User not found": it is spent in memory and the
request returns before its save, so a restart may make it fresh again.
`SessionsSurvive` and `ReplayTakesAFault` are statements about one process, and
`web_store` does not check them: with two, the save of one undoes a revocation or a
logout of the other.

## Proofs

`CoordinatorProofs` proves, for every set of daemons, accounts and events, every
batch limit and every number of faults (the assumptions are `EventsAssumption`
and `LimitsAssumption` of `Coordinator`, which TLC evaluates in every run):

* `TypeCorrect`, `EffectsOnce`, `NothingLost`, `SpawnsAreEarned`: type correctness,
  `ExactlyOnce`, `ProcessedTookEffect` and `SpawnIsEarned`;
* `OneSpawnEachApart`, `QualifiedIsPaidApart`, `CoordinatorImplementsSagaApart`:
  `NoDuplicateSpawn`, `QualifiedHasFreeAccount` and the refinement of `Saga`, as long
  as `CopiesApart` holds;
* for a single daemon, which cannot violate `CopiesApart`, the same three without a
  condition: `OneSpawnEach`, `QualifiedIsPaid`, `CoordinatorImplementsSaga`.

None of these is inductive.  `ExactlyOnce` needs to know that the event of an open
transaction is not in the inbox yet and in no other open transaction
(`TxIsFresh`), which is what the unique key gives.  `SpawnIsEarned` needs the
meaning of every flag, in the table and in each handler's stale copy
(`FlagsAreEarned`): a flag may be missing, but it is never set without its event.
That is why it survives two daemons and `QualifiedHasFreeAccount` does not.
`IInv` is the conjunction.  `SerialInv` adds the converse: the stored row tells
exactly which criteria are met (`RowIsExact`), and each handler's copy is the stored
row with its own flag set (`CopyIsCurrent`).  A commit keeps the copies of the other
daemons current when they are of other accounts (`OthersStayCurrent`), and that is
the one place where `CopiesApart` is used.  The refinement
follows: a commit of a fresh event is `SagaConsume`, `Publish` is `SagaPublish`, and
every other step leaves the saga's variables alone.

`ApiAuthProofs` proves every property of `ApiAuth` but one, for any number of slots,
users, links, challenges, sessions and faults.  `IInv` adds to `TypeOK` what a
request may rely on at each statement (`Fits`: its item is of the kind that statement
works on, and of the request's user), that the slot of a login does not hold its link
again nor its challenge except to delete it (`Spent`), and that two sessions of one
item have different slots (`Apart`).  `Onward` says how the tables may change at all
(users stay, used links stay used, a challenge stays what it was
made for), and every action is shown to change them so.
`RevokedByOwner` and `PasswordsAreOfRegistration` are action properties that follow
from it step by step.
`ApiAuthLinksProofs` proves the remaining one, `LinksLost`, for every finite set of
slots.  The requests that have looked for user `e` in vain and not yet inserted him
are `Late(e)`; once he is registered each of them will cost its link.  `LinksBound`
counts them together with the links already stranded, and has its slack of one slot
because the request that registers him is not late.

`OAuthFlowProofs` proves all six invariants of `OAuthFlow`.  `Sound(s)` is what the
store in memory and the saved store both satisfy, so that `Crash` preserves it;
`FlowsOK` says what a callback between its locks may rely on, its code and the
claims it has verified, and nothing about users: those are asked again under the
second lock.  `UsedUp` says that only one callback works with a state record, and
none with one that has opened a session, and that neither store has such a record.

`WebAuthProofs` proves four invariants.  `Good(s)` is one predicate on a copy of the
store, kept by every request and therefore by every save, lost save, load and
overwrite.  `WebAuthUsesProofs` proves the four properties that count.  Every request
is shown once to be `Served`: which records it uses up, how it ends (saved, failed,
cut short) and which links it may lose; each property follows from that shape.

* `UsesAreBounded`: for each record, the uses so far plus the running copies in which
  it is still live are at most the loads, since a load adds a copy and a use or a
  death takes one away (`UInv`);
* `ReplaysTakeFaults`, for one process: a record that the next load may still find
  live counts as one use to come, which only a fault can add to (`RInv`);
* `RestartsKeepSessions`, for one process: without a fault nothing is ever read from
  the file, and the copy in memory has the sessions and the links of the key-value
  store but for the links that were refused (`Agree`, `SInv`);
* `LostLinksAreDeaths`: links lost in any copy and running processes together are at
  most the loads (`LInv`).

`WebSagaProofs` proves, for any pool and set of accounts, any matrix size, any
awards (those that wrap included) and any number of crashes, that free accounts
are earned, that qualified accounts are paid and what a crash costs an owner.
`Consistent(s)` holds of every store that is ever saved; `Plan` describes what may
be left of a request after its first call (saves, and at most one refill), which
turns the recursion into a finite case analysis; `SavesAtEnd` relates memory and
disk, `MatricesLost` counts the owners without a matrix against the crashes and the
pending refill, `Owned` bounds the filling matrices of an owner by its starts, `NextIsPaid`
says who may be owed an account just now.  What a free account rests on is a card
event and a cycled matrix (`Earned`), which no sign-up takes away, and not the
graduation, which one does.

`WebSagaBooksProofs` proves the rest of `WebSaga`, with the same generality.

* `StoresKeepTypes`: an open matrix has a place left, so that `PlaceInMatrix` never
  adds to a full one, and points stay within `I32` because `AsI32` puts them there;
* `CardsMatchPoints`: as long as `NothingWraps`, that is, no award and no sum reaches
  `Half`, cycle count and graduation are those of the points, the last events those of
  the completed cards (`LastAre`), and each card has at most one event for each start
  of the account (`Numbered`); a sign-up adds a start and no event, so both survive it
  (`CardsMatch`).
  The hypothesis is needed: an award of 2^31 or more makes the points negative and
  the cards completed before remain.  Every state of `web_saga` satisfies it, so that
  run checks the property without a condition;
* `AllocationsAreSpent`: the sum of all allocations is the number of free accounts,
  one more while a free account is being made, and one more for each crash at the
  most (`AInv`).  The sum is a fold over a set, a recursive function whose equation
  is not given but has to be proved (`IterationExists`, by the size of the set);
  `SumOfOneMore` is what the invariant uses.

The assumptions are the named ASSUMEs of the modules: ids of different kinds are
distinct, bounds are naturals, the sets of processes, slots and accounts are finite,
a matrix has at least two slots.  None restricts how many of anything there are.

So every invariant and action property that a passing run checks has a theorem.
Only model-checked:

* the two liveness properties, `EventuallyProcessed` and
  `ClosedPoolHoldsUpNobodyElse`: fairness is out of the prover's reach.

And some statements are false, so that there is nothing to prove:

* the refinement, `NoDuplicateSpawn` and `QualifiedHasFreeAccount` for two daemons
  without `CopiesApart`;
* `ReplayTakesAFault` and `SessionsSurvive` for two processes;
* `CyclesMatchPoints` for awards that wrap.

## Not modelled

* Views (`web/src/app.rs`, components; `main.rs`, `lib.rs`), static files and the
  Spin entry point (`server.rs`, `build.rs`): rendering and input/output, no
  protocol state.
* The dashboard's figures, `resolve_tier_progress`, `get_queue_stats`,
  `get_active_sessions`, `derive_device_name`: read-only, shown and used for nothing.
* The API's rate limiter: it refuses a request before it begins and shares no state
  with a handler.
* The context crates (`matrix`, `flushline`, `sponsor_allocator`, `potbonus`), git
  submodules whose source is not here: modelled as far as their callers see them.
  Three hazards wait for them (whether they lock what they load, which events they
  raise).
* Cryptography, formats, wording and logs: a signature or a hash is valid or not.
  The web application stores and compares passkey credentials and verifies no
  signature; the model says which challenge a client finishes, not with what.
