# authd: TLA+ models, model checking and proofs

authd is a gRPC service that keeps user accounts in SQLite, signs short-lived
access tokens (JWT) and hands out refresh tokens whose sessions live in the
memory of the process. These modules model what its calls do when several of
them run at a time, fail half-way, meet an account that an administrator is
changing, or lose the process.

Paths are relative to the repository's root. `main.go` without a directory is
`internal/service/main.go`; `sqlite` is `pkg/database/sqlite/main.go`.

## 1. Inventory

| Component | State | Operations | Interacts with |
|---|---|---|---|
| Refresh sessions (`main.go`) | `refreshSessions` under `refreshSessionsMu`, `nextRefreshPurgeUnixNano` under nothing | `Login`, `RefreshToken`, `Logout`, `purgeExpiredRefreshSessions` | store (accounts), settings (extend flag), clock |
| User administration (`main.go`) | none of its own | `CreateUser`, `UpdateUser`, `DeleteUser`, `EnsureBootstrapAdmin` | store, access tokens, roles |
| Access tokens (`main.go`) | none: the state is in the token | `signAccessToken`, `VerifyToken` | store at signing, clock |
| Roles (`internal/service/role.go`) | a constant table | `ResolvePermissions` | every authorised call |
| Read calls (`main.go`) | none | `GetProfile`, `ListUsers`, `CountUsers`, `ListRoles`, `GetAuthSettings` | store, settings |
| SQLite store (`sqlite`) | tables `users`, `user_roles`, the AUTOINCREMENT sequence, a pool of 4 connections | one transaction or statement per method | file, all calls |
| Runtime settings (`internal/config/settings.go`) | one flag in memory and in `authd-settings.toml` | `LoadSettings`, `SetRefreshTokenExtendOnRefresh`, getters | `RefreshToken`, `UpdateAuthSettings` |
| gRPC handlers (`internal/api/authServer/handler.go`) | none | message conversion, bearer token, `toStatusError` | service |
| Server (`internal/api/authServer/server.go`, `main.go` of the root) | listeners, socket file, error channel | `NewServer`, `Stop`, start-up order | process, file system |
| Configuration (`internal/config`) | none after start | `Load`, `validate` | everything, at start |
| Validation (`main.go`) | none | names, passwords, keywords, masks, page tokens | the calls |
| Generated code, schema, version, build and systemd files | - | - | - |

What makes each of them correct, and what is hard about it:

* **Refresh sessions.** A refresh token is single use: it buys at most one
  successor, a finished logout ends it, an error of `RefreshToken` leaves it
  usable, an expired one buys nothing. The lock is taken by each helper and
  never by a whole call, so a refresh reads a session, reads the account,
  signs, deletes the session and saves the new one as separate steps, with
  other calls between any two of them. The purge runs in every call, with the
  clock value that call took earlier, and its timestamp is a data race. The
  table does not survive the process; the tokens in clients' hands do.
* **User administration.** Only another account with the permission changes
  roles or `enabled`, or deletes. Names and ids belong to one account. The user
  limit holds. Calls are authorised by claims signed earlier, the limit is
  checked long before the insertion, and an update writes back columns that it
  read before.
* **Access tokens.** A token says what the account was when it was signed, so
  a demotion takes effect within one `access_token_ttl`.
* **Store.** A call's transaction is all or nothing, a page is a snapshot, and
  no call waits for a connection forever.
* **Settings.** What an answered update set is in force and survives a restart.
* **Server.** A stop answers the calls in flight and leaves no socket file; a
  start never removes what is not a socket.

`PROJECT.json` lists every hazard with its line and the properties that would
catch it.

## 2. Modules

| Module | What it is |
|---|---|
| `SingleUseTokens` | The promise about refresh tokens, without calls: a token is issued once and ends *replaced* by exactly one successor or *revoked* |
| `RefreshSessions` | The session calls step by step; `ImplementsSingleUseTokens` is its refinement of the promise |
| `RefreshSessionsProofs` | Proofs for it: types, single use, the refinement, lifetimes and the purge, answers |
| `MC_RefreshSessions` | Its symmetry sets for TLC |
| `Roles` | Roles and permissions |
| `UserAdmin` | Creating, updating, deleting accounts and the bootstrap over the tables, with tokens signed at any earlier time |
| `UserAdminProofs` | Proofs for it |
| `MC_UserAdmin` | Inputs and symmetry for TLC |
| `UserTable` | The promise of the store: a table of users whose operations happen at one instant |
| `UserStore` | The operations of `sqlite` statement by statement, with the pool, the write lock and snapshots; `ImplementsUserTable` is its refinement of the promise |
| `SettingsStore` | The runtime settings in memory and in their file, and the calls on them |
| `AccessTokens` | Signing, expiry and the calls a token authorises, against accounts that change |
| `PurgeThrottle` | The purge of sessions under a wall clock that goes on for ever and may be set back |
| `Pagination` | A client's walk over the pages of `ListUsers` while users change |
| `ServerLifecycle` | Listeners, socket file, signals, graceful stop and restart of one or two processes |
| `Config` | What `Load` accepts |
| `Startup` | The start of a process from `Load` to the listeners, over the files and tables it leaves behind |
| `UserStoreProofs`, `SettingsStoreProofs`, `PurgeThrottleProofs`, `ServerLifecycleProofs`, `StartupProofs` | Proofs for the modules of these names |
| `StatelessTokensProofs` | Proofs for `AccessTokens` and `Pagination`, the two kinds of tokens the server keeps nothing about |
| `MC_SettingsStore`, `MC_UserStore`, `MC_Pagination`, `MC_Startup` | Inputs and symmetry for TLC |

How they fit together. `RefreshSessions` sees accounts and settings as values
that others change at any moment; `UserAdmin` has those who change the accounts,
`SettingsStore` those who change the settings. Both take each transaction of the
store for one or two steps, and `UserStore` shows that the store lets them:
it implements `UserTable`, and what `UserAdmin` does to its tables are operations of
`UserTable` (`ActsOnUserTable`). `AccessTokens` has what a demotion or a deletion does
to the tokens that were signed before. `Startup` takes the place before all of
them: `ServesWhatIsAssumed` says that a process that serves has a configuration
with the assumptions the other modules state about their constants, and
`ServerLifecycle` takes over at its last step. `PurgeThrottle` looks once more at
the purge of `RefreshSessions`, without its monotonic and bounded clock.

Operators whose name ends in a suffix after an underscore (`Fresh_Reused`,
`UpdateWrite_ReadOutside`, ...) are faulty variants of the operator before the
underscore, each a bug one could plausibly write there. No specification uses
them. Replacing the operator by its variant violates the property that
`PROJECT.json` pairs with it, which shows that the property is about the code.

### RefreshSessions

| State | Code |
|---|---|
| `sessions` | `s.refreshSessions`; a token stands for its hash |
| `nextPurge` | `s.nextRefreshPurgeUnixNano` |
| `accounts` | the `users` table, as far as these calls read it |
| `extend` | `settings.RefreshTokenExtendOnRefresh` |
| `pc`, `req` | where each call is, and its local variables |
| `known` | the refresh tokens in clients' hands |
| `now` | the clock |
| `fate`, `heirs`, `sawEnabled`, `everExtended`, `LoginAt` | history, not in the code; no guard reads it except that a fresh token is one that was never used (`generateOpaqueToken`) |

A call is a chain of actions. Login: `StartLogin`, `LoginLookup` (account,
password, enabled, signing), the purge, `LoginSave`, `LoginStamp`
(`UpdateLastLogin`), `LoginReload`, `Return`. Refresh: `StartRefresh` (takes
`now`), the purge, `RefreshGet`, `RefreshUser` (account and every other step that
can fail), `RefreshRevoke`, `RefreshSetting`, `RefreshSave`, `Return`. Logout:
`StartLogout`, the purge, `LogoutDelete`, `Return`. The purge is `CheckPurge`,
`StampPurge`, `SweepExpired`. A step ends where the code releases the lock,
returns from the database or reads shared state again. `"internal"` stands for
every error that is no sentinel (database, cancelled context, signing, random
source). `Return` may lose the reply. The environment is `SetEnabled`,
`DeleteUser`, `SetExtend`, `Tick` and `Crash`.

`nextPurge` is a race in the code. The release builds target 64-bit machines,
where a read of an aligned `int64` returns some value that was written; the
model has exactly these outcomes.

Abstractions: the clock does not run backwards, hashes do not collide, random
tokens do not repeat, access tokens and client metadata are left out because no
branch of these calls depends on them. An account that is created later is one
that starts disabled.

### UserAdmin

| State | Code |
|---|---|
| `users` | tables `users` and `user_roles`: name, roles and `enabled` of each id, or `Nil` |
| `sequence` | the AUTOINCREMENT counter of `users` |
| `tokens` | claims of every access token signed so far |
| `pc`, `req` | where each call is, and its local variables, `req.row` being the row `sqlite.UpdateUser` has read |
| `stale` | update transactions whose snapshot a later commit has overtaken |
| `up` | the process runs and has bootstrapped |

`StartCreate`, `StartUpdate`, `StartDelete` are a call's checks of the token, the
permissions and the mask, in the order of the code; they read no table.
`CreateCount` is the user limit with the validation that follows,
`CreateInsert` the transaction of `sqlite.CreateUser`: it begins with a write,
so it holds the write lock from its first statement and is one step.
`sqlite.UpdateUser` begins with a read, so it is two steps, `UpdateRead` and
`UpdateWrite`. In WAL mode the read fixes a snapshot, and SQLite refuses the
write (`SQLITE_BUSY_SNAPSHOT`) if another connection committed since; this is
what `stale` records, also for the commits of `UpdateLastLogin`. `DeleteRow` is
one statement. `IssueToken` is a login or refresh of an enabled account, `Boot`
is `EnsureBootstrapAdmin` before the listeners, `Crash` the death of the process.

A token once signed is usable for good here. Real tokens expire, which allows
fewer behaviours, so every safety property carries over to any TTL.

### UserStore

| State | Code |
|---|---|
| `db` | the tables `users` (rows, AUTOINCREMENT counter) and `user_roles`, as committed |
| `writer` | the connection that holds SQLite's write lock |
| `stale` | transactions whose snapshot a commit has overtaken |
| `pc`, `req` | the next statement of each call; its parameters, its view of the tables and what it has read |
| `point` | history: the tables at the instant a call took effect |

A call waits for a connection (`Connect`), runs its statements (`Select`,
`ReadRow`, `ReadRoles`, `Insert`, `UpdateRow`, `Single`; `DeleteRoles` and one
`InsertRole` for each role are `replaceRoles`), commits (`Commit`) and answers
(`Return`). `Fails` ends it with an error at any statement:
a fault, a cancelled context, `busy_timeout`. SQLite is modelled from how the code
sets it up (WAL, foreign keys, deferred transactions): a transaction that begins
with its write waits for the lock, `UpdateUser` begins with a read and fails at
once when the lock is taken or its snapshot is old. `ReadRow` is `getUser`'s first
query, `ReadRoles` its second, for `GetUser`, `ListUsers`, and the re-reading at the
end of `CreateUser` and `UpdateUser`.

### SettingsStore

`settings` is the value behind the `RWMutex`, `writer` who holds it, `file` the
contents of `authd-settings.toml`: a value, absent, empty, or garbled. `UpdateLock`,
`UpdateOpen` (which truncates), `UpdateWrite`, `UpdateAssign` are
`SetRefreshTokenExtendOnRefresh` with `writeSettings`, `Read` the getter, which
`UpdateAuthSettings` calls once more for its answer. A write can fail before and
after the truncation, with a part or all of the file written; `Load` reads an
empty file as the defaults and refuses a garbled one, which an operator then has
to replace (`Repair`). The settings have one field. `torn` and `since` are history.

### AccessTokens

`tokens` are the signed claims, `accounts` the roles of each enabled account,
`lastHad` (history) when it last had them. The clock counts `Second` ticks to a
second, `NumericDate` drops the rest as the JWT library does. `ReadAccount` and
`Sign` are the two moments of Login and RefreshToken that matter here; `Present`
is `VerifyToken` with the permission check of each reading call, `Act` what comes
after it.

### PurgeThrottle

`left`, `wait`, `held` and `age` are the ends of the sessions, the timestamp, the
session a refresh has in hand and a call's clock reading, all as distances from
the clock, so that time never ends and the state space is still finite. `Check`,
`Stamp` and `Sweep` are `purgeExpiredRefreshSessions`, `SaveNew`, `Revoke`, `SaveHeld`
and `Finish` what the calls then do with the table, `SetBack` an adjustment of
the wall clock: `UTC().UnixNano()` has no monotonic reading.

### Pagination

`users` has `created_at` and whether the filter matches, `offset` is the page
token, `got` what the client has received. `NextPage` is `ListUsers` of service and
store; its snapshot is `UserStore`'s. `Create` takes any time of `Times`, because
`created_at` is read before the write lock is had.

### ServerLifecycle

`pc` is where a process is between `buildListeners` and its exit; `port` and `path`
are what the processes compete for; `listeners`, `calls`, `failed` belong to the
gRPC server; `mode` is the configuration, and whether systemd starts the process
or anyone does. `ListenTCP`, `Stat`, `Remove`, `ListenUnix` are `buildListeners` and
`prepareSocketPath`, `ReceiveSignal` and `ReceiveError` the `select` of `main`,
`CloseListener`, `ListenersClosed`, `Drained`, `Unlink` are `Stop`. gRPC, the kernel
and systemd are external, modelled as the code relies on them.

### Config and Startup

`Document` has a field for each entry that some check looks at; a text is blank,
refused later on, or fine. `Startup` goes through `Load`, `LoadSettings`
(`ReadSettings`, and where there is no file `CreateSettings`, which truncates
whatever is there by then, and `WriteSettings`), the two statements of `migrate`,
`New`, `EnsureBootstrapAdmin` (`CheckBootstrap`, `CountUsers`, `CreateBootstrap`) and
`Listen`, which fails while another process serves at the address. `Die` comes
between any two of them and may leave the settings file truncated or cut off in
the middle, which keeps later starts out until a `Repair`. `Edit` is an operator at
`authd.toml`; `Administer` and `UpdateSettings` are administrators at work once a
process serves. `early` is history: the starts that are about to create what was
not there when they looked.

## 3. Runs

| Run | Shows | Bounds |
|---|---|---|
| `refresh_races` | `SingleUse`, `RotationNotLost`, `EnabledDuringCall`, `LogoutFinal`, `ReplyCodes` and the refinement of `SingleUseTokens` under every race of two calls | 2 calls, 1 user, 3 tokens, clock stands; 86 034 states |
| `refresh_expiry` | the inductive invariant `IInv`, `FixedLifetime`, `RefreshNeverShortens`, `ExpiredNeverRedeemed`, `EndsOnlyWhenDue`, `RedeemedIsReplaced` | 2 calls, 2 tokens, clock 0..2, TTL 1, purge interval 2, no symmetry; 0.9 million states |
| `user_admin` | `NoLostUpdate`, `OthersOnly`, `LastAdminSurvives` and the refinement of `UserTable` | 2 calls, 2 ids, 2 names; 454 285 states |
| `user_limit` | `CountBound`, `UniqueUsernames`, `TokenIdentity` | 2 calls, 4 ids, 4 names, limit 2; 125 493 states |
| `max_users` | the limit as `authd.toml` states it, violated (section 5) | as `user_limit` |
| `settings_store` | `FileInStep`, `WrittenFirst`, `AnswerInForce`, `EveryCallAnswered` | 2 calls, both values, default false, any file at first; 5 765 states |
| `access_tokens` | `Lifetime`, `ActLag` | 1 call, 1 user, 1 token, 2 ticks to a second, TTL of a second and a half, clock 0..9; 242 506 states |
| `purge_throttle` | `PurgeNotPutOff`, `Backlog`, `EndedLeaves` | 2 calls, 2 sessions, TTL 2, interval 2, calls of 1, set back by 2 in all; 135 538 states |
| `user_store` | `ReadsOneState`, `NobodyStuck` and the refinement of `UserTable` | 2 calls of all seven operations, 2 connections, 2 ids, 2 names, 2 roles; 594 015 states |
| `pagination` | `MissesBounded`, `RepeatsBounded` | 4 ids, 2 times (so with ties), page sizes default, 1 and above the maximum, 3 changes; 239 298 states |
| `server_lifecycle` | `StartsKeepOut`, `AnsweredBeforeClose`, `StopEnds`, `ComesBack` | 2 processes, every choice of listeners, supervised or not, 2 kills, 1 signal; 154 319 states |
| `startup` | `ServesWhatIsAssumed`, `StartsChangeNothing`, `RightDocumentServes` | 2 processes, 29 documents, the shipped one and 28 that deviate from it, 1 edit or repair, 1 fault, 1 change by an administrator; 776 147 states |

Every module has its variables' types checked: `TypeOK` is a conjunct of
`LastAdminSurvives`, `IInv`, `FileInStep`, `Lifetime`,
`PurgeNotPutOff`, `ReadsOneState`, `RepeatsBounded`, `StartsKeepOut` and
`ServesWhatIsAssumed`.

Why the bounds are enough. Two calls make every race in question: the hazards
are about one step of one call between two steps of another, and the proofs
cover any number of calls. Three tokens give a login, its refresh and a
competing refresh. With a TTL of 1 and a clock up to 2 a session is fresh, at
its last instant, and expired; the purge interval of 2 exceeds the TTL, so
there are expired sessions the throttled purge has left, which is what
`ExpiredNeverRedeemed` needs. Four ids with a limit of 2 leave room for the two
insertions that go too far and for a new account after a deletion. `TokensLeft`
and `NewId <= MaxId` keep TLC within `Tokens` and `Ids`: calls that would draw
one more do not start. Bounds on data are named at the constants.

In `access_tokens` each property is about one token and one call, and a second
one does not change what the first may do; the clock runs past two lifetimes,
with signatures at both ticks of a second. Two connections and two calls are
the least that reach a pool with none left while every holder is at work. The
inputs of `user_store` are chosen so that half of an operation is no other one: who
is created with a role is never created without, and the update that gives a
second role takes `enabled` as well. Three
changes in `pagination` are one user joining and two leaving ahead of the token,
or two joining, around a walk of up to four pages. In `server_lifecycle` two
processes make every race for the path; two kills let a process die during the
recovery from a death. The documents of `startup` have a deviation for each
check of `validate` and of the start, on both sides of the limits.

Deadlock is checked in every run but three: a client's walk ends
(`pagination`), a stopped server stays stopped (`server_lifecycle`), and the faults
and edits of a start are bounded (`startup`).

Fairness. What each `FairSpec` assumes, and why the code lets it:

* `RefreshSessions`: weak fairness of the two steps after the revocation. They
  wait for a mutex that is held for a few map operations, and for the settings'
  lock, which an update holds while it writes a file; `SettingsStore` shows that
  such a reader is served. No other step is fair, and none needs to be.
  `RedeemedIsReplaced` allows for a crash: the token then counts as revoked.
* `SettingsStore`: weak fairness of the steps that wait for nothing, strong
  fairness of those that wait for the lock. A `sync.RWMutex` starves neither side:
  a waiting writer holds new readers off, readers that waited for a writer go
  before the next one.
* `PurgeThrottle`: time goes on and calls keep arriving (without calls nothing
  purges, and no property says so); a call that has started goes on.
* `ServerLifecycle`: the process goes on, systemd starts it, and a call that was
  accepted ends: all calls are unary and wait for the store and the settings
  only. There is no fairness of starts by hand, of signals, failures and kills.
* `Startup`: a process goes on, and is started again when it fails. Nothing is
  assumed of operators: a garbled settings file may stay.

`UserStore` needs none: that calls do not wait for each other in a circle is an
invariant there (`NobodyStuck`), without counting on `busy_timeout`.

## 4. Properties, in words

* `SingleUse`: a token has at most one successor, and has one only if a refresh
  took it out of the table. Of the two looks at the table in `RefreshToken` the
  second one (compare and delete) makes this true.
* `RotationNotLost`: a token that was redeemed and has no successor yet is held
  by exactly one call, which has no error exit left. Hence an error answer to a
  refresh never costs the client its session.
* `EnabledDuringCall`: whom Login or RefreshToken answers "ok" was enabled at some
  moment of that call. This is the strongest statement that is true: the account
  may be disabled before the answer is out.
* `LogoutFinal`: at the answer of a logout the token is out of the table. With
  the refinement it never comes back. A refresh that won the race has another
  token in its place, which the logout does not end.
* `FixedLifetime`, `RefreshNeverShortens`: with the extend setting off all
  descendants of a login end one TTL after it; with it on, or switched at any
  moment, a rotation does not move the end backwards.
* `PurgeWindow` (a part of `IInv`), `ExpiredNeverRedeemed`, `EndsOnlyWhenDue`: the purge cannot be
  switched off by the race on its timestamp, the refresh does not rely on it, and
  a sweep that waited for the lock takes nothing that is still good.
* `ReplyCodes`: a logout succeeds whatever has become of its token, so a retried
  one does too; a refresh that lost its race is told that the token is not good;
  `NotFound` says that the account does not exist at the answer. A login that
  answers it had found the account and lost it during the call. A refresh may
  answer it for an account deleted long before: `DeleteUser` leaves the sessions
  in the table, and each of them can still be presented (section 5).
* `RedeemedIsReplaced`: nothing a refresh does after the revocation keeps it from
  saving the successor, except the death of the process.
* `NoLostUpdate`: an update changes the columns of its mask only, although it
  writes all of them.
* `OthersOnly`: every change of rights and every deletion is a call of another
  account whose token grants it. What the account behind that token may do today
  is not asked, which the code accepts for one `access_token_ttl`.
* `LastAdminSurvives`: while a single account has ever held a token that can
  change others, an enabled administrator is left. Two administrators can remove
  each other with concurrent calls, or with tokens they keep after a demotion;
  without the premise the property is false.
* `CountBound`: each call in flight exceeds the limit by one at most.
* `UniqueUsernames`, `TokenIdentity`: names are unique, and a token never comes
  to name another account, over deletions, re-creations and restarts.
* `ActsOnUserTable`: although an update reads in one step and writes all columns in
  another, and a creation is checked long before it inserts, the tables change only
  by whole creations, deletions, and updates of the columns of one mask.
* `ImplementsUserTable`, `ReadsOneState`: a user
  and its roles are two tables and several statements; they change together or
  not at all, and what a call returns was in the tables at one instant. Hence no
  list reports a user with another one's roles, or fails because of a deletion.
* `NobodyStuck`: no operation waits for a second connection while it has one, and
  who has the write lock waits for nothing: while calls are in flight one of them
  waits for nobody (`SomebodyReady`), and such a call can take its next step.
* `FileInStep`, `WrittenFirst`: file and memory agree whenever no update is under
  way and none has failed, so a restart then puts the same value into force; a
  value takes effect only after it was written. What a failed or
  interrupted update leaves is another matter, section 5.
* `AnswerInForce`: no answer is older than its call, or than the caller's update.
* `EveryCallAnswered`: no error exit keeps the lock that every refresh needs.
* `Lifetime`: a token is good for more than the TTL less a second, and for no
  longer than the TTL, wherever in its second it was signed.
* `ActLag`: a right that an account has lost can be exercised for one TTL, the
  time of the call that signed the token and the time of the call that uses it.
* `PurgeNotPutOff`, `Backlog`, `EndedLeaves`: a clock that is set back delays the purge
  by as much as it was set back, and no race by more. A call that has passed the
  purge finds no session in the table that had ended one interval, and the longest
  call or set-back, before it read the clock, unless a sweep of another call is
  still to come that takes it. Without calls nothing is purged, so there is no
  bound in time alone; with calls coming in, each ended session goes in the end,
  the one a failed login has left behind included.
* `MissesBounded`, `RepeatsBounded`: offsets are not stable under changes,
  but each user who leaves the list ahead of the token hides one other at most,
  and each who joins it there shows one twice at most; undisturbed, a walk is
  complete and without repetition (`QuietWalk`), with any mixture of page sizes.
* `StartsKeepOut`: with a TCP address configured, a second start fails on it before
  it comes near the socket of the first.
* `AnsweredBeforeClose`, `StopEnds`, `ComesBack`: calls in flight are answered before
  the store is closed, a stop comes to its end, and a crash is recovered from
  whatever socket it left, with a socket that is the process's own.
* `ServesWhatIsAssumed`: however starts die, race each other and meet an edited
  file, no process serves with a configuration the other modules exclude, or
  without the tables. A start comes to its listeners only with a user in the
  table, unless two administrators have removed each other since it counted.
* `StartsChangeNothing`: no start changes an account. It adds one beside others, or
  overwrites settings that are there, only if there was none when it looked: two
  first starts may create two accounts, and the slower one may undo what an
  administrator has set meanwhile (section 5).
* `RightDocumentServes`: once the document is right and the settings file legible
  for good, and nothing below fails any more, a process that is started again and
  again serves, or finds its address held by another process. Half of a migration,
  a user without a server, a truncated settings file do not stand in the way. A
  garbled settings file does, until an operator replaces it.

## 5. Where code and documents disagree

One disagreement is a matter of interleaving and has a run, `max_users`:
`main.go:343` checks the limit long before the insertion, while
`conf/authd.toml:30` calls `max_users` the maximum; `CountBound` says by how much it
can be exceeded. The others were met while modelling and can be read off the
code; the models do what the code does.

| Code | Document |
|---|---|
| `main.go:266`: a refresh with a session of an account that does not exist any more answers `NotFound`; it takes no race, since `DeleteUser` leaves the sessions in the table (`ReplyCodes` lists the code for `RefreshToken`) | `doc/errors.md:39` gives `RefreshToken` `Unauthenticated` only |
| `main.go:226`: a login whose account is deleted while it runs answers `NotFound` (`ReplyCodes`) | `doc/errors.md:37` gives `Login` `Unauthenticated` and `InvalidArgument` only |
| `main.go:408`: the self check comes first, `ErrForbiddenFieldUpdate` is unreachable | the comment at `main.go:47` gives this very case as its example |
| `internal/config/settings.go:101`: the file is truncated and written in place; after a failed or interrupted write the next start takes the defaults, or refuses to start on a file cut off in the middle | `internal/config/settings.go:16` says the settings are persisted |
| `internal/api/authServer/handler.go:203`: `update_mask` of `UpdateAuthSettings` is never read | `proto/v1/auth.proto:195` declares it and the example at `README.md:223` sends it |
| `internal/api/authServer/server.go:130`: any socket at the path is removed, a live one too (`StartsKeepOut` holds only with a TCP address), and `:81`: a stop removes whatever is at the path, the socket of a successor too | the comment at `server.go:117` speaks of left-over sockets |
| root `main.go:78`: a listener that fails ends the process with status 0 | `systemd/authd.service:23` has `Restart=on-failure`, which does not restart it |
| `main.go:163`: count and creation of the first account are apart, so two first starts may create two; `main.go:171`: its roles need not be an administrator's | `conf/authd.toml:34` speaks of the administrator account of the first start on an empty table |
| `internal/config/settings.go:47` and `:52`: the look for the file and its creation are apart, so of two first starts the slower one overwrites what the other has created and an administrator has set since | the comment at `internal/config/settings.go:37` says the defaults are written when there is no file |
| `internal/config/settings.go:52`: the file is created from `[default_setting]`, false if it is missing | the repository's `README.md:46` says true |
| `internal/config/main.go:111`: the durations of `[server.keepalive]` are required | the example at `README.md:89-116`, said to have all required fields, has no such section |

## 6. Proofs

All theorems hold for every value of the constants that the modules'
`ConstantsAssumption` admits (`PagesAssumption` in `Pagination`): positive TTL and
purge interval; a default page size of one at least and a maximum not below it; `Nil`,
`None` and `Gone` outside the sets they are added to; a finite, non-empty set of calls and inputs of
the right type for `UserAdmin`; a TTL of a second at least, which `Load` insists on,
for `AccessTokens`. TLC evaluates the assumptions in every run. One theorem has a
hypothesis of its own, `LastAdminSurvivesHolds` below. Each inductive invariant
was checked by TLC on the run's constants before it was proved.

**RefreshSessionsProofs.** `TypeInv` is `TypeOK` with `LocalsOK`: at each location
the local variables that the next steps use have been set (`TypeCorrectness`).
`SingleUse` alone is not inductive: nothing in it keeps a call that is about to
save from saving for a token that already has a successor. `TokensOK` adds what
the lock gives: a live token was never redeemed, a call past the revocation
holds a redeemed token without successor, and no two calls hold the same one.
`RotationNotLost` is the converse of the second part. `FreshUnknown` says that a
token nobody saved is unknown to clients and calls, so a saved token is new. The
conjunction is inductive (`TokenInvNext`, one lemma per kind of step), which
gives `SingleUseHolds` and `RotationNotLostHolds`. `Refinement` then maps the
table and its history to the status of each token: saves are `Issue` and
`Replace`, the revocation is `Redeem`, logouts, sweeps and crashes are `Revoke`,
everything else stutters.

Lifetimes and the purge. `PurgeWindow` needs that no call holds a clock value from
the future; `RefreshNeverShortens` compares the expiry a refresh has computed
with that of the session it read, and can only be kept if no session a refresh
may read ends later than one TTL after the clock value that refresh took on
arrival. The latter is not obvious, because logins meanwhile save sessions that
do: it holds of the token a call presents, since a client cannot present a token
before it has been saved. This is where `FreshUnknown` is used again. `ClockOK`
is the conjunction (`ClockNext`, one lemma per kind of step), and with it the
whole of `IInv` is proved (`InvariantHolds`, `PurgeWindowHolds`,
`RefreshNeverShortensHolds`). `EndsOnlyWhenDue` uses that part too: a sweep
that had to wait for the lock compares with a reading of the past, so what it takes
has ended now. `FixedInv` is about the case that no refresh has seen the extend
setting on: each session in the table and in the hands of a call ends one TTL after
the login it descends from (`FixedLifetimeHolds`).

The table. `ReadOK` is about what a refresh has read: the session was good at the
refresh's reading of the clock, and as long as the token is live it is still that
session, since a token is never saved twice (`TokenInv`). With it the revocation
takes nothing that had ended (`ExpiredNeverRedeemedHolds`), and the token of a
logout stays out of the table until the answer (`LogoutFinalHolds`).

Accounts and answers. `AccountInv` says that `sawEnabled` has the account of every
call that got past its look at it, and that an answer `ErrUserNotFound` is about an
account that is gone (`EnabledDuringCallHolds`, `ReplyCodesHolds`).

**UserAdminProofs.** `TypeInv` (`TypeCorrectness`) adds to `TypeOK` that local
variables are set and `SnapshotOK`: a transaction that has not been overtaken would still read the
same row. It is needed for the types already: `UpdateWrite` writes a row back, and
only `SnapshotOK` says that the row is there. `IdentityInv` adds that no id or
token is above `sequence`, hence a new id is in nobody's token
(`TokenIdentityHolds`, `UniqueUsernamesHolds`). `LimitInv` counts: users plus calls
between check and insertion stay below the limit plus the calls
(`CountBoundHolds`); the proof rests on the library's facts about cardinalities.

`NoLostUpdateHolds` is `SnapshotOK` once more, now at the write: who gets to write
has read what is there. `AuthorisedInv` carries what a call's token granted from
its checks to its last step (`OthersOnlyHolds`). `LastAdminInv` says of the case
that one account alone has ever held a token that can change others: that account
is an enabled administrator, and before there is any such token the accounts are
those of the bootstrap (`LastAdminSurvivesHolds`). This theorem assumes
`"admin" \in BootstrapRoles`.
`conf/authd.toml` ships it so, the code does not insist on it (section 5), and
without it there may be no administrator from the first moment.

`ActsOnUserTableHolds` is a refinement that needs `SnapshotOK` as well: an update
writes `enabled` back as it was read, and is an update of its mask's columns alone
because that is what the row still has. With `Refinement` of `UserStoreProofs` the
two meet at one abstract table: the service is proved to use its operations only,
the store to implement them.

**SettingsStoreProofs.** `FileInStep` needs to know what the file holds while an
update is between its steps, and that no other update is: `WriterOK` says that a
call past `UpdateLock` is the one that has the lock, and that the file has its
value when it is about to assign. `AnswersOK` adds that the value in force is
among those in force since each call arrived. `StoreInv` is inductive, and
`WrittenFirst` follows since only `UpdateAssign` changes the value of a process
that serves.

**StatelessTokensProofs.** Of access tokens: `Truncation` bounds what `NewNumericDate` drops, for every
number of ticks to a second; `Lifetime` follows from it and from how tokens are
signed. `ActLag` adds up three delays: from the reading of the account to the
signature (`Rightful`, kept with the token), from the signature to the check (the
TTL), and from the check to what is done then (`CallOK`). `lastHad` only moves
forward (`NotedLater`), so none of the bounds is lost when accounts change.

Page tokens are offsets into a list that shifts. Everything rests on positions
being a bijection between the users listed and 1..n: they are unique because the
order is total (`PositionUnique`), and without gaps by counting (`PositionOnto`).
Hence what a page shows is a stretch of the list (`PageFacts`). A change touches
one row (`OneRow`), and moves nobody by more than one position. `MissesInv` adds to
`MissesBounded` that whoever has been listed all the time still is: a departure
ahead of the token takes one user at most past it, the one that was next.
`RepeatsBounded` alone is not inductive, since a page could consist of users received
before. `SeenEnough` keeps track of where they are: for every cut through the order,
all users before it were received, or as many as the token counts, except for
one for each arrival. So users received before come right after the token, and
at most as many as there were arrivals. `QuietWalkHolds` puts the two bounds
together: a walk nobody disturbed ahead of its token gives every user that was
listed all the time, and gives it once.

**ServerLifecycleProofs.** `PortOK` ties the address to its listeners: who has a
TCP listener has the address, and so does every process that serves or has come
past the address on its start. Two processes cannot both have it
(`StartsKeepOutHolds`). `CallsOK` says where calls can be in flight at all
(`AnsweredBeforeCloseHolds`).

**UserStoreProofs.** A call is at several statements, and the tables may change
between them. `SnapshotOK` says what a reader sees: the tables of the instant at
which it began, and those of now unless a commit has overtaken it. `WriterOK` says
what the one call with the write lock has made of them: `Created` or `Updated`
gives the whole difference between its view and the committed tables, with the
roles as far as `replaceRoles` has come with them, so its commit is one step of the
table.
`ReadOK` follows `getUser` through the users it still has to read. `StoreInv` is
inductive; `ReadsOneStateHolds` is what is left of `ReadOK` at the answer, and
`Refinement` maps every commit, failure and single statement to a step of
`UserTable` and everything else to a stutter. `SomebodyReadyHolds` is
the part of `NobodyStuck` without ENABLED: the call with the lock is at a statement
that waits for nothing, and if nobody has the lock, the calls with a connection can
go on, or there is a connection left.

**PurgeThrottleProofs.** Clock readings come from the future only as far as the
clock was set back since, and everything computed from them likewise
(`ReadingsOK`), which bounds the timestamp (`PurgeNotPutOffHolds`). `Backlog` alone
is not inductive: it speaks of calls that have passed the purge, and says nothing
of what a call that is about to stamp or to be throttled will find. `OldAreSwept`
measures from the last purge instead: what ended one interval and the slack before
it, some pending sweep will take. `SlackOK` ties the two together: no reading is
further behind another one, or behind the reading that stamped last, than the
longest call or set-back. A slow refresh may put an ended session back; `HeldOK`
says that it had not ended when that refresh read the clock (`BacklogHolds`).

**StartupProofs.** `BehindOK` collects what a start has behind it at each point: a
document that `Load` accepts, the tables it has migrated, a bootstrap account that
passed the checks where one is to be created, and a place in `early` where it is to
create a file or an account. It is stable under the steps of the
others because no start takes a table or an account away (`Steps`, proved for each
step of a start). For the last part of `ServesWhatIsAssumed` the administrator who
makes the one change must have an account after it, which is `GrantedOK`.
`StartsChangeNothingHolds` needs that part of `BehindOK`, and that whoever has a
write of the settings to finish is such a start or an update of a process that
serves (`WritesAreExpected`).

Checked with TLC only:

* The liveness properties `RedeemedIsReplaced`, `EveryCallAnswered`, `EndedLeaves`,
  `StopEnds`, `ComesBack` and `RightDocumentServes`: the prover does not handle
  fairness.
* The second half of `NobodyStuck`, that a call which is `Ready` has a step to take: it
  is about ENABLED.

## 7. Not modelled

Not modelled: generated code and the schema, the version constants, build
files; the conversion of messages in the handlers, and which status each error
of the other calls gets, a table with a row per error. Input validation is
modelled by its outcome: which characters make a name or a password valid, that
a password is trimmed before it is hashed and not before it is compared, how a
keyword is escaped for `LIKE`, and the syntax of page tokens are pure functions of
one text, for which unit tests do. Keepalive and the limits of gRPC are the
library's.
