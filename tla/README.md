# night-chat in TLA+

night-chat (`src/`) is a chat server in Rust: actix-web handlers over PostgreSQL (sqlx), WebSockets
(actix-ws) for live delivery, e-mail for activation and password reset, Google sign-in, a rate limiter.
This directory holds TLA+ models of it, TLC configurations that check them on small instances, and TLAPS
proofs of the most important results for instances of any size. Paths are relative to the repository root.

    tlc -workers 2 -config ChatRelay_reconnect.cfg MCChatRelay      # a run
    tlapm ChatRelay_proofs.tla                                      # the proofs of a module

## 1. The system

| Component | Source | State | Operations |
|---|---|---|---|
| Message sending | `src/src/handlers/message.rs` | `messages` table | `send_message` |
| Message queries | `message.rs`, `utils/user_utils.rs` | reads `messages`, `users` | `get_messages_by_user_id`, `get_chat_partners`, `get_all_contacts` |
| Live connections | `src/src/handlers/ws_handler.rs` | `WsSessions`, a map from user to `Session` behind an `RwLock`; one bounded channel and one task per connection | `ws_handler`, the spawned task |
| Sign-up, activation | `src/src/routes/signup.rs` | `users`, `tokens` | `signup`, `activate_user_handler` |
| Login, logout, passwords | `routes/login.rs`, `logout.rs`, `password.rs` | `users`, `tokens` | `login`, `logout`, `reset_password` (asks for a mail), `handle_password_reset`, `set_password_account` |
| Google sign-in | `src/src/oauth/oauth.rs` | `oauth_states`, `oauth_accounts`, `users`, `tokens` | `oauth`, `redirect_uri` |
| Middlewares, routing | `src/src/middlewares/auth.rs`, `socket_auth.rs`, `server.rs` | reads `tokens` | router, `auth_middleware`, `socket_auth_middleware` |
| Rate limiter | `src/src/middlewares/rate_limit.rs`, `server.rs` | one cell per client address (governor) | `extract`, `exceed_rate_limit_response` |
| Field rules | `src/src/domain/*.rs` | none | parsers of name, e-mail, password; Argon2 |
| E-mail | `src/src/utils/email.rs` | none | `EmailClient::build`, `send_email` |
| Start-up | `configuration.rs`, `telemetry.rs`, `main.rs`, `lib.rs`, `home.rs` | none | fixed replies, settings |

How they interact. Handlers share the database and, in one process, the `WsSessions` map. `send_message`
reads the map and writes into the channel of *another* user's connection; `ws_handler` and its task write the
map. Handlers of the account routes meet only in the rows of `users` and `tokens`, where PostgreSQL's row
locks, the UNIQUE index on `users.email` and READ COMMITTED decide. The middlewares read what the account
routes wrote. Mails carry a token's plaintext from a handler to the user, who brings it back.

What is hard:

* every `.await` of `send_message` is a point where the receiver may connect, reconnect, close, break or fill
  its channel; a `Session` that was cloned under the lock is used after it;
* the map is keyed by the user, so a user's two connections, or an old task and a new connection, write the
  same key;
* a process restart loses the map and the sockets and keeps the tables;
* transactions on one user overlap: sign-ups with one address, resets with one token, a reset during a login;
  a COMMIT whose answer is lost was applied all the same;
* mails arrive late or never; tokens expire while they travel;
* a page that comes back from Google is reloaded or opened twice, an exchange fails or hangs after its state
  was deleted, two callbacks of one Google account race for a row;
* the limiter has to tell clients apart that all come over the proxy's connection, on every worker alike;
* three pieces of code in three files (middleware, lookup, token) must agree on what is hashed how often.

What makes each part correct is stated in its module under *Properties* and summarised below.

## 2. Modules

| Module | What it is |
|---|---|
| `Mailbox` | Abstract: what senders and receivers are promised. No sockets, no handlers, nothing volatile. |
| `ChatRelay` | `send_message`, `ws_handler` and its task, sockets, clients, restarts. Implements `Mailbox`. |
| `ChatQueries` | The three queries as functions of `ChatRelay`'s tables. |
| `ChatRelay_proofs` | Proofs about `ChatRelay`. |
| `ChatQueries_proofs` | Proofs about what the queries return, on top of `ChatRelay_proofs`. |
| `Credentials` | Abstract: what sign-up, activation, reset and logout promise. No transactions, no locks, no rows. |
| `Accounts` | The handlers that write `users` and `tokens`. Implements `Credentials`. |
| `Accounts_proofs` | Proofs about `Accounts`. |
| `Credentials_proofs` | Proof that `Accounts` implements `Credentials`. |
| `AuthGate` | From the router through the middlewares to the handler. |
| `AuthGate_proofs` | Proofs about `AuthGate`. |
| `SignIn` | Abstract: what signing in with Google promises. No states, no codes, no handlers. |
| `OAuthFlow` | `oauth` and `redirect_uri`, statement by statement, and Google. Implements `SignIn`. |
| `OAuthFlow_proofs` | Proofs about `OAuthFlow`. |
| `RateLimit` | The key extractor, the limiter's cells, the refusal and the wait it announces. |
| `RateLimit_proofs` | Proofs about `RateLimit`. |
| `MCChatRelay`, `MCAccounts`, `MCAuthGate`, `MCOAuthFlow`, `MCRateLimit` | Instances for TLC. |

### ChatRelay

One request `h` is one run of `send_message`, cut at every `.await` and at the lock:
`Submit` (empty payload or oneself: refused) → `CheckReceiver` (SELECT EXISTS; then `created_at` is taken) →
`Insert` → `Lookup` (clone the receiver's Session under the read lock) → `PreCheck` (`Session::text` looks at
the shared closed flag) → `Send`, which waits for room in the channel, or `SendFails`. A failed push is logged
and answered 201. `QueryFails` is the `?` after an await; a failing INSERT may have been applied. `Dropped` is
the handler's future being dropped while it waits.

One connection `c` is a handshake with its map entry (`Connect`, one step: nothing can refer to the connection
before the entry is there), and a task: `TaskPing` (`pong().await.unwrap()`, which panics on a broken
socket), `TaskClose`/`TaskCloseSent`, `TaskStreamEnd`, `TaskRemove` (`map.remove(&user_id)`). `ClientFrame`,
`Drain` (the socket takes a frame from the channel), `Disconnect` and `Restart` are the environment.
A stream item that is an error is ignored by the task (`_ => {}`), like a text frame, and has no action.

`newest`, `snapshot` and `before` are history variables: which connection a user opened last, what a fetch
right after connecting had to contain, what had been answered when a request arrived. The clock that stamps
`created_at` is assumed to have moved on between any two rows of one process. If two rows had the same stamp,
`ORDER BY created_at` alone would leave their order to the database.

### ChatQueries

The GET handlers read and change nothing, so each is a function of the tables in the state in which its query
runs. `ORDER BY created_at ASC` is `InOrder`: the sequence of a set of rows that is sorted by stamp. That there is
one is part of what `ChatQueries_proofs` shows.

### Accounts

An operation `o` is one run of a handler with its stages; `account`, `hash` and `tokens` are the tables, `lock`
is the row lock an open transaction holds on a user's row, `known` are the tokens whose plaintext has left the
server. A statement that writes a locked row waits; a commit makes all of a transaction's writes visible
and may lose its answer; `Fails` is any failing query, panic, dropped request or crash, which rolls an open
transaction back. The password hash is modelled by the password it was made of; what `set_password_account`
stores is `Garbage`, which no password verifies against. `activate_user_handler` and `reset_password` are
modelled although no route reaches them (`server.rs:93-134`), and the routes under `/account` although the
gate below never lets a request through: handlers are modelled as called, with the `User` the middlewares are
written to supply (`HasSession`).

### AuthGate

A request is taken by the first registered scope whose prefix fits, then by that scope's middleware
(`Authenticate`: token, digest, UTF-8; `Query`: `get_user_from_token`), then by a resource that fits in path and
method (`Dispatch`: a handler or 404; a route given to a scope guards its resource by the method, so that a wrong
method goes on to the next resource). Strings are model values and a digest is a term `<<"sha256", s>>`: the only thing
assumed of SHA-256 is that a digest, 32 bytes, is not one of the 25-character tokens. `Utf8` is the set of
strings whose digest happens to be UTF-8; nothing depends on which they are. actix-web's router is external;
`Recognize`, `Matches` and `Dispatch` model it as `server.rs` uses it.

### OAuthFlow

A flow `f` is one run of `oauth`: its row in `oauth_states` with the PKCE verifier, and the redirect, which may be
lost. A code `k` is what Google issues when somebody agrees; going back and agreeing again makes another code
of the same flow. The callback's URL has a code and a state, which are independent parameters: `Return` takes
any code that was issued and the state of any redirect, be they of one flow or of two (a state nobody was sent is
`ReturnDenied`). Nothing ties a callback to the browser that began the flow. What ties a code to a state is
PKCE alone: the verifier sent is the state's, the challenge Google compares it with is the code's flow's
(`Accepts`). New flows, codes and callbacks are taken in a fixed order (`NextFlow`, `NextCode`, `NextCallback`),
since unused ones are interchangeable. A callback `c` is one run of `redirect_uri`, cut at its awaits: `VerifyState` (the DELETE that
returns the verifier) → `Exchange` → `UserInfo` → `FindLink` (stored link?) → `FindUser` (a user with this
address?) → `InsertLink` or `CreateUser` → `StoreToken`. Each statement commits by itself and may be applied
although its answer is lost; the new-user branch alone is in a transaction, whose INSERT lacks columns that
are NOT NULL, so `CreateUser` can only fail. `Fails` is any other failure, a dropped request or a crash; since all
state is in the tables, a restart is the failure of every callback under way.

Google is external, taken from how the code uses it: a code is exchanged once and with the verifier that fits
the challenge. `reads` is how Google reads a challenge that comes without a method, as the redirect has it
(`oauth.rs:55`); RFC 7636 says as plain. `Agree` binds a code to a Google account, and that account's address
may change at any time. The handlers are modelled as called, although as registered the callback takes POST,
not the GET that a redirect makes (`server.rs:107`), and the configuration is not wrapped in `web::Data`
(`server.rs:95`).

`Accounts` has the same callback from `find_or_create_oauth_user` on, as one of eight operations that write
`users` and `tokens`; here the matter is how it gets there, and `signup` is only the row it leaves.

### RateLimit

A request is keyed and counted in one step, `Count`: the middleware does both before its first await, and the
library's map updates a cell atomically. `Extract` is the code's: which text it takes (the header's or the
connection's) and by which parser. Text is an address with or without a port, because the two parsers differ
in just that. `Tell` is the refusal, which reads the clock again (`wait_time_from`) and cuts off the fraction of
a second. The cell itself (generic cell rate algorithm) is the library's, and external: `tat` is its theoretical
arrival time, a request passes if that is at most `Burst` intervals ahead, and a cell that is met for the first
time starts one interval ahead. `Limiter` says which set of cells a worker uses: all of them one. A restart
clears the cells and is not modelled.

## 3. Runs

| Run | Shows | Bounds |
|---|---|---|
| `relay_reconnect` | `TypeOK`, `RegistrySound`, `NoGap`, `ImplementsMailbox` | 2 connections (a reconnect, a replacement), 1 send, 2 users and a uuid that is nobody's, channel of 1, 1 unread frame |
| `relay_liveness` | `StreamOrder`, `HistoryFaithful`, `ListsAgree`; `SettlesOrStuck`, `BrokenIsUnregistered` under `FairSpec` | 1 connection, 2 sends that race for a channel of 1 with the client's Pings |
| `relay_panic` (violation) | `DisconnectUnregisters` fails | 1 connection |
| `relay_replaced` (violation) | `ConnectedIsRegistered` fails | 2 connections |
| `accounts_safety` | `TypeOK`, `ActivationHonoured`, `ActivationUsesTokensUp`, `OneWinner`, `ResetUsesTokenUp`, `ResetTakesEffect`, `LogoutFinal`, `WaitsAreShort`, `PasswordByOwner`, `ImplementsCredentials` | 3 operations out of all eight, 2 addresses with or without a row, 2 passwords, terms of 1, clock to 1 |
| `accounts_liveness` | `Answers` under `FairSpec` | 3 operations out of all eight, clock to 1 |
| `accounts_expiry` (violation) | `ResetTokenNotExpired` fails | a request and a reset |
| `accounts_setpw` (violation) | `SetPasswordWorks` fails | a Google callback and a set-password |
| `gate_all` | `TypeOK`, `PublicOnly` | every route and prefix, 2 tokens, 2 users, two orders of registration |
| `gate_valid` (violation) | `ValidAdmitted` fails | one token, scopes as `run_server` registers them; the request that is refused goes to `/ws` |
| `oauth_all` | `TypeOK`, `OneTimeUse`, `OwnFlow`, `StaleStatesRefused`, `ImplementsSignIn`; `OnlyGoogleKeepsWaiting` under `FairSpec` | 2 flows, 2 codes, 2 callbacks, 1 Google account, 2 addresses, terms of 1, clock to 2 |
| `limits_all` | `TypeOK`, `OwnFault`, `PaceServed`, `RateKept`, `WaitSuffices` | 4 requests, 2 addresses (one may be the proxy's), 2 workers, half seconds, an interval of 1.5 s, bursts of 2, clock to 6 |

Why the bounds are enough to be interesting. A race needs two parties and something they race for: two
connections of one user for the map entry, two sends (or a send and a Pong) for one free slot, two sign-ups
for an address, a request and two resets for one token,
a request and a reset and a login that sees the outcome, two callbacks for one link or one state. Terms of one
with a clock to two let a state be fresh, in its second term and stale. The limiter's clock runs past the
time in which a cell refills; two requests at once exhaust a new cell, a third is refused, and the fourth comes
back after the refusal. The interval is no whole number of seconds so that cutting off a fraction shows. A channel of one
slot is full after one frame, so waiting, waking and failing all happen; the real capacity (32) only makes
the same states rarer. Connections, requests and operations are used once: a model value stands for one run,
not for a thread. Symmetry is used in safety runs only.

Refinement: `ChatRelay!ImplementsMailbox` instantiates `Mailbox` with `stored <- messages`,
`acked <- Created`, `heard <- Heard` (what a user's connections have carried). INSERT is `Store`, a push with
its answer is `NotifyAndReply`, any other 201 is `Reply`; all else stutters, restarts included.
`Accounts!ImplementsCredentials` instantiates `Credentials` with `secret <- hash`, `valid` and `held` as the
credentials of the rows in `tokens` and of those whose plaintext is known, `fresh` as the operations that have
neither stored a token nor found one valid, and `open` as those that have found theirs valid and have not
committed. A sign-up's commit is `SignUp`, `StoreToken` is `Issue`, a mail that arrives is `Mailed`; a handler
that finds its token (or its user, for set-password and logout, whose middleware has looked) does `Present`, its
commit does `Perform`, its failure `Abandon` or `Discard`, and a commit whose answer is lost is `Perform` all the
same; the rest stutters. `Credentials` knows no time, so it does not speak of expiry; and it leaves open what
`set_password_account` writes (finding 4) and which of the user's other reset tokens outlive a reset.
`OAuthFlow!ImplementsSignIn` instantiates `SignIn` with `agreed` read off the codes, `bound <- links` and
`sessions` as the pairs of flow and user of the tokens stored. INSERT into `oauth_accounts` is `Bind`, the token
is `Open`; what goes on before, and all that fails, stutters.

Fairness. `ChatRelay!Fairness`: tokio runs what is runnable and the database answers or fails (WF); the channel
hands free slots out first come, first served, so a waiting sender and a waiting Pong are strongly fair (SF).
Clients promise nothing: they need not read, close or ping. So `SettlesOrStuck` has to allow a receiver that
stays connected and never reads; it holds the *sender's* HTTP request. `Accounts!FairSpec`: a query that waits
for no row is answered and blocking threads finish (WF on `Step`); that a query may also fail is not relied
upon. `OAuthFlow!FairSpec` is fair to the statements of a callback (WF on `Database`) and to nothing else: the
HTTP client has no timeout (`oauth.rs:110`), so Google may keep a callback for ever, and nobody has to come back
from it.

`CHECK_DEADLOCK FALSE` is set for `Accounts`, `AuthGate`, `OAuthFlow` and `RateLimit`, whose bounded operations
get used up.

## 4. What was found

1. `ws_handler.rs:43`: a Ping that was read before the socket broke makes the Pong's `unwrap` panic, and the
   `map.remove` after the loop is skipped; the dead entry stays until the user reconnects (`relay_panic`).
2. `ws_handler.rs:55`: the end of a user's older connection removes the entry of the newer one; that user is
   online and gets nothing live (`relay_replaced`).
3. `password.rs:158`: a reset token is accepted after its expiry, against the comments (`accounts_expiry`).
4. `password.rs:259`: `set_password_account` stores a digest of the Argon2 string or panics; the account's
   password is lost (`accounts_setpw`).
5. `socket_auth.rs:29`, `auth.rs:63`: tokens are hashed twice, the first digest has to be UTF-8; every
   session is refused with 500 or 401 (`gate_valid`; `PublicOnly` is proved for every instance).

Three more where code and comments disagree. They follow from one line each, and a property would only repeat
that line, so there is none; the models do what the code does:

6. `server.rs:102`: `/v1/api` is registered before the longer prefixes and takes their requests, which get 404;
   "create routes for message prefix /messages" (line 111) and "also auth-protected" (line 127) say that there
   are such routes. `AuthGate` has the order of registration as a constant, and `PublicOnly` is proved for
   every order.
7. `oauth.rs:55`: the redirect leaves out `code_challenge_method`, which the struct says to send to `/authorize`
   and calls 'Always "S256"' (`oauth_utils.rs:8-11`). With a Google that goes by the RFC's default nobody ever signs
   in. `OAuthFlow` has a Google of either kind (`reads`), and its properties hold with both.
8. `rate_limit.rs:52`: the peer's address has no port and is parsed as a socket address, so whoever is "not coming
   from the reverse proxy" and is to be counted by the "peer IP" (the comment at line 45) gets 500; with `0.0.0.0`,
   as in production, that is everybody. `RateLimit` has such clients (`Extract`).

What holds, proved or checked, and is no less a matter to argue about:

9. `rate_limit.rs:70`: `after` is cut off to whole seconds; waiting just that long may be too short by less than
   one second. One second more is always enough (`WaitSuffices`).
10. `server.rs:86`: a client that was idle gets `burst + 1` requests through, the promised rate plus one (`RateKept`).
11. `oauth.rs:203`: a state lives for two terms, twenty minutes, not ten, and never longer (`StaleStatesRefused`).
12. `oauth.rs:249`: the new-user branch cannot insert its row and never commits; who has no account gets neither a
    link nor a session (`ImplementsSignIn`).

Seen while reading, without a property: two overlapping resets can both succeed with one token; activation
accepts any unexpired token of the user, not only an activation token (`signup.rs:254`); sign-up answers 400
after its commit if the mail cannot be built; the length check of passwords is never true
(`subscriber_password.rs:26`, against the tests at lines 98 and 103); a reset does not ask for the rules at all
(`password.rs:123`); the host `localhost` is no IP address and
makes `server.rs:77` panic; the OAuth handlers take `web::Data<AppConfig>`, which `server.rs:95` does not wrap,
and the callback is registered for POST; `main.rs` does not run what it builds; `EmailClient::build` reads
`email_templates/welcome_email.html` and `.txt` (`email.rs:90`, `98`) where the repository has `welcome.html` and
`welcome.txt`, and panics.

## 5. Proofs

`ChatRelay_proofs` proves, from `RelayAssumption` alone and for any sets of users, connections and requests:

* `Invariance`: `Spec => []IInv`. The safety properties are not inductive. `NoGap` for an *answered* send
  needs to know what an unanswered one will do: that its row is there before the lookup (`RowFirst`), that the
  entry now in the map is its target or fetched the row (`LookupOrSnapshot`), that an answer with a target
  means pushed, closed or broken (`Settled`). `RegistrySound` compares the map with `newest`, which pins down
  whose task may still remove an entry. `StreamOrder` needs that only answered requests are in a channel's
  history (`PushedSound`) and that what was answered before stays so (`BeforeSound`).
* `TypeCorrect`, `RegistryCorrect`, `NoGapCorrect`, `StreamOrderCorrect`: the invariants of the runs.
* `MailboxImplemented`: `Spec => MB!Spec`; initial states map to initial states and, under `IInv`, every step
  maps to a step of `Mailbox` or stutters.

The step lemmas are organised by who moves: a handler changes the map not at all and the connections only by a
push (`HandlerFrame`); a task, client or socket touches no request and no row (`ConnFrame`).

`ChatQueries_proofs` proves, from the same assumption:

* `QueriesInvariance`: `Spec => []QInv`, which adds to `IInv` that there are finitely many rows, that no two have
  one stamp (`Stamped`), that what had been answered when a request came is stamped before it (`StampedBefore`),
  and that a row is between two different users who exist (`Paired`).
* `HistoryCorrect`: both parties read the same history, with every answered message, none of them behind one that
  was only sent after its answer. The sorted sequence is shown to exist: the place of a row is one more than the
  number of older rows, which is a bijection onto `1..Cardinality` (`Places`), so its inverse is the list
  (`Listed`).
* `ListsCorrect`: partners, histories and contacts agree.

`Accounts_proofs` proves, from `AccountsAssumption` and for any sets of addresses, passwords and operations,
every safety property of `accounts_safety` (here and in `Credentials_proofs`):

* `AccountsInvariant`: `Spec => []IInv`. What makes the properties inductive: who is about to commit holds the
  row and nobody else does (`LockSound`), so that a sign-up at its commit still finds no row (`RowThere`); a
  transaction was told to delete tokens of its own user and scope only (`DropsSound`); a handler's token is
  known, of its user, and of the scope it has asked for (`Presented`). A token that is known was drawn by an
  operation that has ended, which is why a deleted one never comes back.
* `AccountsTypes`, `LogoutsAreFinal`, `SignupHasOneWinner` (from `Winner`, which starts at the commit, and from
  `Single`: two sign-ups of one address that were answered with success are the same).
* `ActivationsAreHonoured`, an action property: an activation with the token of a sign-up's mail is refused only if
  the token has expired or the account is active already; the token stays in the table until then (`TokenStays`).
* `PasswordsAreTheOwners`, an action property: the very step that changes a password, the commit of a reset or the
  UPDATE of a set-password, is one of a handler that was called with a proper credential of that account.
* `NobodyWaitsForTheWaiting`: the transaction others wait for is about to commit, waits for nobody and holds that
  one row (from `LockSound`). `Answers` itself, which is liveness, TLC checks for three
  operations; this is the part of it that is safety, for any number of them.
* `ResetTokensAreUsedUp`: the DELETE of a reset has found its own token or somebody deleted it before
  (`ResetGone`), so that who comes later does not find it (`ResetOrder`).
* `ResetsTakeEffect`: while a finished reset is alone, the row holds its password, and a login under way that
  came later has read just that (`ResetHolds`); being alone is lost for good (`AloneBefore`).

`Credentials_proofs` goes on from that invariant:

* `CredentialsInvariant`: `Spec => []CInv`, which adds what a step of the abstract specification asks for: who
  stores a token, or writes a password, has found the row (`RowFor`), what is written was handed in (`Given`), and
  the DELETE of an activation at its commit has taken *all* activation tokens of its user (`DropsAll`). The last is
  not obvious: it was made some steps before. It holds because only a sign-up's commit adds such a token, and
  where there is a row no sign-up reaches its commit.
* `ActivationTokensAreUsedUp`: an active account has no activation token, whichever token it was activated with.
* `CredentialsImplemented`: `Spec => CR!Spec`; every step of every handler, its failures and its lost answers
  included, is a step of `Credentials` or stutters.

The lemmas of `Accounts_proofs` first say who writes tokens, rows and locks (`TokenWrites`, `RowWrites`, `LockWrites`) and which step
brings a handler where (`Moves`); each part of the invariant then has one lemma that uses those.

`AuthGate_proofs` proves from `AuthGateAssumption`, for any tokens, users, paths and clients:

* `GateCorrect`: `Spec => [](TypeOK /\ PublicOnly)`, with `Keyed` (a lookup under way carries a digest) as
  the strengthening: no row holds the digest of a digest. It holds for every order of registration.
* `GateTypes`: the same invariant gives the types, among them that no row holds a plaintext.

`OAuthFlow_proofs` proves, from `OAuthAssumption` and for any flows, codes, callbacks, accounts and terms, every
safety property of `oauth_all`:

* `Invariance`: `Spec => []IInv`. A callback under way came with an issued code and the state of a started flow,
  not always of one flow (`Called`); who is past the exchange has a code of its state's flow, because Google has
  compared the two (`Bound`; digests are terms, so distinct for distinct verifiers, and the one assumption is that
  no challenge is a verifier, which a plain-reading Google would mistake for it); who
  is past the check has deleted a row that is gone for good and nobody else is past it (`Checked`, which holds
  `OneTimeUse`); `expires_at` is the start plus the term (`Timed`); who is about to store a token holds the user
  its Google account is linked with, and who is about to link one holds a user with a row (`Linked`).
* `OAuthTypes`, `StatesAreUsedOnce`, `CodesStayWithTheirStates` (`OwnFlow`: whoever gets a session by the state of a
  flow has agreed in that flow), and the action property `StaleNeverPass`.
* `SignInImplemented`: `Spec => SI!Spec`. A token is `Open` because `OneTimeUse` keeps a second callback of its
  flow away from `StoreToken`, and because of `OwnFlow` the account is one that agreed in that flow; a row in `oauth_accounts` is `Bind` because of the UNIQUE index.

`RateLimit_proofs` proves, from `RateLimitAssumption` and for any requests, clients, workers, interval and burst,
every property of `limits_all`:

* `Invariance`, `LimiterTypes`, `WaitIsEnough`: whoever is counted is counted as the client that the
  proxy named (`Keyed`); until another request of the client passes, its cell stays where a refused request found
  it (`Pending`); what the client is told, and a second, reaches up to that time (`Announced`).
* `RefusedForOwn`, `RateIsKept`: an admission moves the cell by one interval, from now or from where it was, so
  the cell's time is bounded from above and from below by the number of requests admitted since any moment; a
  refusal says that it is far ahead, an admission that it is not. The number is a cardinality, and a step adds
  one to it or none.
* `PaceIsServed`: a client is refused only if it had a request admitted less than an interval ago. A cell is at
  most the burst's tolerance and one interval past the client's last admission (`Charged`), however many
  requests came before that one and however far they had moved it.

Only model-checked: liveness (`SettlesOrStuck`, `BrokenIsUnregistered`, `Answers`, `OnlyGoogleKeepsWaiting`),
which needs ENABLED and is beyond the prover; and the properties that are violated, for which TLC has the
counterexample. Every other property of a run is a theorem.

## 6. Not modelled

* The field rules: predicates on text (`domain/*.rs`) without state. The handlers' models take their outcome, a
  form that is refused or not and a password that verifies or not. Argon2 and SHA-256 are terms.
* Templates, SMTP, logging, settings, start-up, home page: pure I/O, fixed replies. That a mail is built and
  delivered, built and lost, or not built is in `Accounts`.
* More than one server process; the map and the cells are per process and the code has no notion of another. A
  restart is modelled where it matters to a promise (`ChatRelay`), and elsewhere as the failure of what is under way.
* That the limiter's map only grows (nothing calls `retain_recent`).

## 7. Plan

1. Accounts and gate composed, so that the sessions of `AuthGate` are those that `Accounts` stores; worthwhile once
   the middlewares admit anybody.
2. The limiter in front of `Accounts`, as the bound on guesses of a password.
