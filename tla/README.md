# Task management: a TLA+ verification project

TLA+ models of the task-management service (Go, MySQL, Redis), TLC runs that
check them on small instances, and TLAPS proofs of the main results for every
instance. Line numbers refer to the repository at the commit this was written
for; `PROJECT.json` maps every definition to the lines it models.

## 1. The system

The service is a stateless HTTP API. Everything it remembers is in MySQL
(users, teams, memberships, tasks, history, comments), in Redis (refresh
tokens, revoked access tokens, cached task lists, rate-limit counters) and in
the client (cookie, bearer token, the task version it loaded). Any number of
requests, on any number of instances, interleave between two SQL statements or
two Redis commands; MySQL runs at READ COMMITTED, so a plain `SELECT` locks
nothing and two statements of one transaction see different data.

| Component | State | Operations | Hard behaviour | What makes it correct |
|---|---|---|---|---|
| RBAC (`service/rbac.go`) | none | `Can*`, `TaskPermissionsFor` | called with roles that may be stale | one owner; admins touch members only |
| TeamService (`service/team.go`, `repository/team.go`) | `teams`, `team_members` | create, rename, delete, invite, leave, transfer, change role, remove, list, stats | check and write are different statements; two rows locked one after the other; cascades | exactly one owner; roles checked are the roles committed; every change is one of the allowed kinds |
| TaskService (`service/task.go`, `repository/task.go`) | `tasks`, `task_history`, `task_comments` | create, update, delete, list, history, comments; `UnassignUser` for TeamService | optimistic version and row lock; two-statement unassignment; permission checks on other rows | no lost update; history replays the row; closed exactly while done; no task outlives its team; an assignee is a member |
| Transactions (`pkg/database/tx.go`) | open transactions, row locks | `WithinTx` | rollback on every error path, deadlock victims, lost commits | locks are released; all or nothing; who waits, waits for somebody who goes on or in a circle that is detected |
| Task-list cache (`cache/task.go`) | generation counter, pages, TTLs | `Get`, `Set`, `InvalidateTeam` | a reader races an invalidation; failures are swallowed; keys expire | no page older than the last invalidation is served |
| Sessions (`service/auth.go`, `cache/token.go`, `handler/auth.go`, `middleware/auth.go`) | refresh keys, black list, cookie | login, refresh, logout, bearer check | two tabs refresh at once; `GETDEL` then `SET`; lost replies | a token works once; a login never forks; logout is final |
| Circuit breaker, Redis client (`pkg/redisx`) | closed / open / half-open, counters | every Redis command | concurrent probes | fails fast, recovers |
| Rate limiter (`middleware/rate_limiter.go`) | counter and expiry per address | one Lua script | fails open | the limit holds per window; nobody is locked out for good |
| Pagination (`domain/cursor.go`, `ListTasks`, `repository/task.go`) | cursor in the client | filter, order, keyset, count | rows change between pages and between two statements; times tie | no row is skipped or repeated |
| Comments (`service/task.go`, `repository/task.go`) | `task_comments` | add, edit, delete | no transaction: task, role and comment are read in earlier statements; "no row changed" is taken for "not found" | no orphans; words change only by their author |
| Users (`service/auth.go`, `service/user.go`, `repository/user.go`) | `users` | register, password check, profile, password change | unique e-mail races; a hash is read one or two bcrypt runs before it is used | one account per address; a password is needed to log in or to change it |
| Application (`main.go`, `app/app.go`, `server.go`) | process, pools, listener, requests in flight | start, serve, drain, stop | signals before the port is bound; requests that do not end; failing backends | requests drain before the pools close; nothing stays open; it always stops |
| Migrations (`pkg/migrator`) | `schema_migrations`, the schema, an advisory lock | up, down | several replicas and images at once; killed in the middle of a file | a clean schema is that of its version; nobody serves without his migrations |
| Configuration, validation, logging, metrics, generated docs | none | parsing, output | - | - |

How they interact: TeamService calls TaskService's repository (`UnassignUser`)
inside its own transaction and the cache after it; TaskService reads
memberships owned by TeamService, in or outside its transactions; both
invalidate the cache after a commit, never inside; every authenticated request
passes the bearer check in Redis first.

`PROJECT.json` lists the hazards of this code line by line, with the property
that would catch each.

## 2. The modules

    RBAC ---- Store ---- TeamService --+
                 \------ TaskService --+-- Workspace -- WorkspaceProofs
    RBAC ---- Team -- Board, Work (abstract) .^    \--- MCWorkspace
    TaskCache -- TaskCacheProofs, MCTaskCache
    Sessions --- SessionsProofs,  MCSessions      (implements Session)
    RedisGuard - GuardProofs
    Lifecycle -- LifecycleProofs, MCLifecycle     (implements Migration)
    Team - Work -- Comments -- CommentsProofs, MCComments
    Pages ------ PagesProofs
    Accounts --- AccountsProofs,  MCAccounts

### Workspace: TeamService and TaskService over MySQL

`Store` has the tables of one team (`team`, `role`, `task`, `history`), the
InnoDB row locks (`memberLock`, `taskLock`) and the requests in flight: `pc[p]`
is the SQL statement request `p` executes next, `req[p]` what was asked for,
and `actorRole`, `targetRole`, `view`, `seen`, `audited` are the Go variables
the services carry from one statement to the next. `TeamService` and
`TaskService` have one action per statement another request can be interleaved
with; a write to rows the transaction has already locked is merged with the
commit that follows, unless another statement stands between them (`UpdateTask`
and its `RecordHistory`).

| Code | Actions |
|---|---|
| a request reaches a handler | `Request...` |
| `memberRole` (plain `SELECT`) | `ReadActor` |
| `GetMemberRoleForUpdate` | `LockActor`, `LockTarget`, `TransferTarget` |
| `CreateTeam`, `InviteMember`, `ChangeMemberRole`, `TransferOwnership` | the action of that name |
| `DeleteTeam` and its cascades | `DeleteTeamTasks`, `DeleteTeam` |
| `RemoveMember`, `LeaveTeam`, `UnassignUser` | `UnassignHistory`, `UnassignUpdate` |
| `CreateTask` | `ReadActor`, `CreateAssignee`, `CreateTask` |
| `UpdateTask`, `applyUpdate` | `LockTask`, `UpdateRole`, `UpdateAssignee`, `UpdateTask`, `RecordHistory` |
| `DeleteTask` | `LockTask`, `DeleteRole`, `DeleteTask` |
| `invalidate`, `invalidateTasks` | `Invalidate` |
| a COMMIT that was applied and whose reply is lost | `CommitTasks` to `commit_error`, `ReturnError` |
| any other error of MySQL or of the context | `Abort` |

What is abstracted: title, description, priority and due date are one value
(`content`), because the code treats them alike: one permission, one column
each in the history. `closed_at` is NULL or a time. A request that validation
refuses, or that names a user or a date that does not exist, is a request that
never arrives. Users are never deleted, and the ids the service generates
(UUIDs) are fresh, so an instance has one team. A `SELECT` sees committed rows; what a
transaction has written is kept in its own variables until it commits, which
is what READ COMMITTED shows to others.

InnoDB is external and modelled from what the code relies on: exclusive row
locks until commit or rollback, no gap locks, primary and foreign keys
(`TeamFree`: an `INSERT` into a child table waits for a parent that is being
deleted), cascades, and deadlock detection (`WaitsFor`, `Circle`, `Victim`).
The `DELETE` of a team takes the locks of its tasks before those of its
memberships: the constraints are unnamed, so their generated names
(`tasks_ibfk_1`, `team_members_ibfk_1`) decide, and this order is the one in
which it can meet a removal head-on. Within each of the two groups the locks
are taken at once, and the `teams` row counts as locked from the cascade on: an
`INSERT` that would have waited a little earlier goes first, which allows more
interleavings and not fewer.

`Team` says what the team endpoints promise with no requests, transactions or
locks: a team is founded with its owner, and each later change is one
indivisible join, regrade, hand-over, departure or dissolution. `Workspace`
implements it (`TeamContract`). `Board` extends `Team` with the tasks: created
open and assigned in a live team, edited one version at a time with a closing
time exactly while done, discarded, unassigned in the very step in which their
assignee leaves, gone in the step in which the team goes. `Workspace`
implements it too (`BoardContract`), and `TeamContract` follows. What `Board`
does not promise is what the code does not keep: a new assignee need not be a
member any more. Both refinement mappings are the identity on the committed
tables. `Work` extends `Team` with the tasks as others see them, absent, live
or deleted: created only in a live team, gone at the latest with it, never
back. `Workspace` implements it (`WorkContract`, a row mapped to its state), and
`Comments` is built on its steps.

Two invariants describe the locks. `LockHolders` (`Holds`) says which rows a
transaction may hold at each statement: none before its locking reads and none
after its end. `Waiting(p)` says, action by action, when a statement has to
wait, and `StuckMeansCircle` says that whenever every request in flight waits, some wait
for each other in a circle, the only thing InnoDB's detection looks for.

The audit trail is stated without replaying code: `Recorded(h, f, n, v)` says
that by the first `n` rows of a history column `f` has the value `v`, `Replays`
that every recorded change starts from the value recorded before it and that
the last one leaves the row's.

### TaskCache

One team and one query. The tasks table is the number of committed changes, a
page is what `List` and `Count` (two snapshots) saw. Every Redis call is a step
and can fail; the clock ticks and drops keys whose TTL has ended; a commit may
be applied and its reply lost, and then nothing is invalidated (`CommitLost`). A
request stops at its deadline (`InTime`), if it has one: `Timeout` sets none for 0.
go-redis heeds the deadline only before it takes a connection, so the `SET` that
stores a page is two steps: `Set` sends it, also again when no reply comes, and
puts it on the `wire`; Redis executes it (`Store`) at any later moment, or never
(`Lose`). A page whose `SET` was executed after its client had given up is `late`.
`settled`, `floor` and `reset` are history variables: the newest change whose
invalidation succeeded, that value when a reader asked, and whether the counter
has ever expired.

### Sessions

A token stands for the refresh and the access token that are always generated
together. `store` and `revoked` are the Redis keys, `cookie` and `bearer` the
browser. Login, refresh and logout are sequences of Redis calls, each of which
can fail before or after it took effect (go-redis repeats a call whose reply
was lost), and replies reach the browser in any order or never. `login`,
`exchanged` and `loggedOut` are history variables.

`Session` says what this comes to, with no requests, cookies or Redis: a
session belongs to one user for ever, is held by one refresh token, moves from
it to one that never worked before, or is over for good. `Sessions` implements
it (`SessionContract`): a session is the login it began with (`SessionOf`), it is
held by the key in Redis, or moves while a request stands between its `GETDEL`
(or its password check) and its `SET`.

### RedisGuard: circuit breaker and rate limiter

Every request runs the limiter's script, and every Redis command passes the
breaker's hook. A command without an idle connection dials one and greets
Redis with HELLO and CLIENT SETINFO, which pass the same hook inside the call
that is already counted; this is what the comment at `breaker.go:44` is about.
`Request`, `Dial`, `Hello`, `SetInfo`, `SetInfoReply`, `Script` and `Reply` are
the steps of such a command, `FailOpen` and `Cancel` its other ends: the limiter
lets the request pass then (`PassOpen`), also when the script had counted it and
only the reply was lost. `GoDown`
and `ComeUp` are Redis, `Tick` and `OpenTimeout` the clock. gobreaker
(`Admit`, `Success`, `Failure`, `Verdict`) is external: a state with its counts,
and verdicts of calls from an earlier state are ignored (`current`). `passed`,
`open` (those that failed open after being counted), `inWindow` and `canceled` are
history variables, and `lost` (requests that Redis
failed) also decides how a call ends. One replica, one address, one scope; the
retries of go-redis happen inside one call of the hook; a caller who gives up
during the handshake is one who gave up before or after it.

### Lifecycle: processes and migrations

Replicas with different images (`Files[r]`: how many migrations an image has)
are started with `serve`, `serve` without migrations, `migrate up` or
`migrate down N`, and may fail, get SIGTERM or be killed at any step. `pc[r]` is
the next call of the main goroutine; `listener[r]` is the `Listen` goroutine,
which runs beside it. `version`, `dirty` and `lock` are `schema_migrations` and
the advisory lock; `schema[m]` is how much of migration `m` is in the schema,
whatever the table says.

| Code | Actions |
|---|---|
| `main`, `run`, `serve`, `migrateCmd` | `Run`, `Signal`, `Exit` |
| `migrator.New`, `Close` | `Connect`, `Abandon` |
| `Up`, `Down` (golang-migrate, external) | `Lock`, `CheckVersion`, `Mark`, `Apply`, `Clean`, `Unlock` |
| `app.New` | `OpenMySQL`, `OpenRedis` |
| `App.Run`, `Listen`, the handlers | `Listen`, `Accept`, `Respond`, `Stop` |
| `App.shutdown` | `ShutdownServer`, `Drain`, `CloseMySQL`, `CloseRedis` |

golang-migrate and fasthttp are external: the target version is stored dirty
before a file is run and clean after it, and `Shutdown` closes the listeners
there are and waits for open connections until its context ends. A file is run
in two parts, because DDL is not transactional.

`Migration` is what the schema sees of all this: one migrator, which begins the
file next to the version, executes it, and records it as clean or gives it up;
a schema that was given up dirty is never changed again. `Lifecycle` implements
it (`MigrationContract`) with `File`, the file that the holder of the lock is at.

Things a reader should know that hold in the model and in the code. A schema
left dirty stops every later start, and the program has no command to clear
it. An older image refuses a newer version. SIGTERM during `Up` is noticed only
after `Up`. SIGTERM that arrives before `Listen` has bound the port makes
`Shutdown` return at once: the backends are closed and the process exits while
the goroutine may begin to accept. A migration that waits for
a metadata lock, or for a MySQL that is silent, is ended by no timeout and by no
signal: the DSN and the migrator set none. The default shutdown timeout (15 s) is the
default request timeout, so a request that arrived last may be cut off.

### Comments

The comment requests use no transaction: `VisibleTask`, `VisibleRole`,
`GetComment`, then one write (`AddComment`, `UpdateComment`, `DeleteComment`) and
`ReadBack`, each a statement of its own, each able to fail. They run beside the
team and its tasks: the module extends `Work`, so that the roles and the task
rows they read change in exactly the ways that `Workspace` is proved to change
them, and adds what a deleted task takes along (`Cascade`).
`RequireAffected` is MySQL's count of changed rows. Times are whole seconds
(`s.now`), which is why an edit can leave a row as it was.

### Pages

One client reads a team's list to its end, with one filter, in an order that
supports cursors. `List` and `Count` are two statements; `Answer` makes the page
and the cursor; a request may fail and is repeated. A page may come from Redis
instead (`Hit`), with the rows and the total of a list that somebody read before
(`Store`, `cached`). How old it can be is TaskCache's subject; here `Start` is the
moment the oldest of the client's pages was read. Meanwhile tasks are
created, listed and hidden (a filter, a deletion) and touched. Ids are numbers
in no relation to the times, and any time may appear at any moment: clocks of
replicas differ, and a time is read before its row is committed. `seen` counts
what the client got and `moved` remembers which tasks did not stay in their
place; both are history variables. Page sizes change from request to request.

### Accounts

`Register`, the password check of `Login`, `ChangePassword` and `UpdateProfile`.
A password stands for its hash, `Lower` for trimming and lower-casing an
address, `Weight` for what the collation of `users.email` compares, which is MySQL's
default and ignores accents as well. Reading the hash, comparing it and writing are separate steps, with
any other request between them. `during[p]` is a history variable: the passwords
that the account had while `p` was in flight. A password change ends no session
and revokes no token, and two changes with the same old password both succeed.

## 3. The runs

Passing runs, each property with a mutation of the code that breaks it
(`PROJECT.json`, "mutants"; the mutated definition stands before the original,
under a comment "A bug: ...").

| Run | Instance | Checks |
|---|---|---|
| `Membership` | 3 users, 2 requests in flight, all seven membership operations | `ExactlyOneOwner`, `OnlyCascadesDeadlock`, `TeamContract`, `AdminsTouchOnlyMembers` |
| `Assignments` | 2 users, 1 task, 2 requests, versions up to 3 plus unassignments, departures, task and team deletion | `AuditTrail`, `BoardContract`, `NoLostUpdate`, `EveryWriteInvalidates` |
| `Waits` | 2 users, 1 task, 2 requests, fair | `LockHolders`, `StuckMeansCircle`, `WorkContract`, `RequestsFinish`, with team and task deletion |
| `CacheFresh` | 2 readers, 2 writers, page TTL 1, counter TTL 2, deadline 1, 1 `SET` on the wire, clock to 2 | `FreshUntilReset`, `BoundedStaleness` |
| `Guard` | 2 requests in flight, 2 failures open the breaker, limit 1, window of 2 ticks, 1 counted request that fails open, fair | `LimitHolds`, `Probing`, `WindowEnds`, `Recovers`, `Trips` |
| `Sessions` | 1 user, 1 browser with 2 requests in flight, 3 token pairs, 1 access token that expires | `SingleUse`, `OneTokenPerLogin`, `LogoutRevokes`, `SessionContract` |
| `Lifecycle` | 2 replicas with 1 and 2 migrations (a rolling update), 3 starts, all commands, down by 1 or 2, 1 request in flight, fair | `SchemaMatchesVersion`, `ServesMigrated`, `BackendsOutliveRequests`, `CleanExit`, `MigrationContract`, `StopsOnSignal`, `StartsOrFails` |
| `Comments` | 2 users, 2 tasks, 1 comment, 2 requests, 2 contents, 2 seconds | `NoOrphans`, `WordsAreTheAuthors`, `NotFoundMeansGone` |
| `Pages` | 2 tasks, 2 times, pages of 1 and 2 (default and maximum), 2 lists in Redis | `Complete`, `NoRepeats`, `LastRowExists` |
| `Accounts` | 2 ids, 4 spellings (case, accent) of 2 addresses, 2 passwords, 3 requests | `OneAccountPerEmail`, `PasswordsProved`, `AccountsAreKept` |

Why the bounds are enough. Every race in this code is between two requests for
the same rows, so two requests in flight show it, and a process is reused for
any number of requests in sequence. Three users are the owner, the target and a third
manager who interferes; two suffice where only the assignee's membership
matters. `MaxVersion` lets clients close a task and reopen it after other
changes; clients close with a new content, or reassign, reopen and restore the
content in one edit (whichever of these is a change), and unassigning is left to
`LeaveTeam`, whose statements are also those of `RemoveMember`. The TTLs keep the order of the configured ones (page shorter than
counter). Three pairs are a login, its rotation, and a third that comes from
another rotation or login. One access token may
expire (`MaxExpired`): `Blacklist` and `Auth` look at one token at a time. `Spec` may stop, and requests can
always arrive, so deadlock checking stays on. Symmetry permutes users,
requests, tokens, readers and writers, and is not used in the fair runs. In `Lifecycle`
three starts are two processes at once and one that comes after a crash; the
system may stop there for good, so this run does not check for deadlock. In
`Pages` two tasks and pages of one and two give a full last page, a tie at the
boundary and a row on each side of the cursor, and two lists in Redis are of
different moments; a page of two with more to come needs a third task, which only
the proof has (it is for any number). One `SET` on the wire is the one that arrives late; its sender may be gone
and both readers be new. In `Comments` one comment is
what two requests can disagree about; the second task is the one it is not on.
In `Accounts` three requests are a change, another change and a login that
read between them. In
`Guard` the five slots of the half-open breaker are the real ones: two
commands on fresh connections need six.

Fairness. `Waits`: `Step(p)`, strongly: a request in flight goes on, and
InnoDB's first-come queue grants a row that is free again and again.
`\E p : Victim(p)`, weakly: InnoDB detects a circle of waits and aborts one of
its members. Nothing is assumed of `Abort` otherwise: neither `lock_wait_timeout`
nor the request deadline has to help. `Guard`: time passes (`OpenTimeout`,
`Tick`) and a command in flight ends (`Step(p)`, weakly: every command has dial,
read and write timeouts); requests keep coming (`Request`, strongly, because
the breaker refuses them from time to time). Nothing is assumed of `GoDown`,
`ComeUp` or `Cancel`: `Recovers` and `Trips` name what they need of them.
`Lifecycle`: the goroutines are scheduled, weakly, in those calls that the code
gives an end: `Lock` (`GET_LOCK` has a timeout), `New` (the pings of the pools have
one), `Listen`, `Stop` and `Shutdown` (its context has one). Nothing is assumed of
the migrator's other calls, which have none: `StopsOnSignal` and `StartsOrFails`
say of a process whose own migrator's calls end (`CallsEnd`, part of the
formulas) that it stops and starts, whatever those of the others do. No request
has to be answered, and no process restarted.

`Recovers` is checked for requests that come one at a time and wait for their
reply. The mutant with a single slot is the endless reopening that the comment
in `breaker.go` warns of. With concurrent requests, or callers who give up,
five slots do not exclude it either (see below).

`OnlyCascadesDeadlock` is worth a remark. Two transfers of ownership could lock
two memberships in opposite orders; they do not because the caller's role is
checked between the two locks, and only one owner passes. The one circle the
model has is a removal (membership, then tasks) against a deletion of the team
(tasks, then memberships); InnoDB breaks it and the victim gets an error.
`StuckMeansCircle` is the other half: a wait that is in no circle is for a
request that goes on. Its mutant, a rollback that keeps its locks, blocks
everybody behind a request that has ended, which no detection would find.

### What the code does not keep

Two runs check a sentence of the documentation and find a behaviour of the
code that breaks it.

| Run | Property | Behaviour |
|---|---|---|
| `Assignee` | `AssigneeInTeam` | The assignee is checked with a read that locks nothing, removed from the team, and then assigned. |
| `AuditGap` | `AuditComplete` | A task is assigned to the leaving member between the two statements of `UnassignUser`: it is unassigned without a history row. |

Known limits of the other components, which the passing properties name as
exceptions:

- `AdminsTouchOnlyMembers`: the caller's role is read before the wait for the
  target's row; after a hand-over, somebody who is an admin by now removes or
  regrades an admin with the role he had as the owner (`team.go:256`).
- `EveryWriteInvalidates`: when the COMMIT is applied and its reply lost
  (`tx.go:61`), the service returns the error and invalidates nothing.
- `FreshUntilReset`: the generation counter expires and restarts; generation 1
  is reused while a page of the old generation 1 is alive (`cache/task.go:127`).
  `BoundedStaleness` still holds.
- `BoundedStaleness`: with no request deadline (`HTTP_REQUEST_TIMEOUT=0`), and for
  a `SET` that Redis executes after its client gave up, a page's age has no bound;
  its TTL counts from the `SET`.
- `LimitHolds`: a request that the script counted and whose reply is lost passes,
  over the limit or not (`rate_limiter.go:55`); its bound counts those apart.
- `OneTokenPerLogin`: `GETDEL` succeeds and `SET` fails: the answer is a
  "retryable 503" but the token is used up (`cache/token.go:80`).
- `Recovers`: half-open, a command takes the last slot and must dial; the
  breaker refuses its HELLO, counts the refusal as a failure of Redis
  (`breaker.go:69`) and opens again while Redis is up.
- `NotFoundMeansGone`: two edits of a comment to the same words in the same
  second: the second one changes no row and is answered "not found", although
  the comment is there (`repository/task.go:312`).
- `NoRepeats`: in the order of `updated_at` a task that is touched between two
  pages is got twice; `cursor.go:9-12` speaks of added and removed tasks only.
- `Complete`: a page from Redis is up to its TTL older than the request. A task
  that came into the list since then, with its invalidation not yet done, or by
  becoming overdue, which invalidates nothing, may be missing.
- `BackendsOutliveRequests`: a shutdown that times out, or comes before `Listen` has
  bound the port (`app.go:142`): the server then accepts requests whose backends are
  closed, against "Stop accepting requests first" (`app.go:155`).
- `StopsOnSignal`, `StartsOrFails`: a migrator's call that MySQL never answers.
- No property: a manager who is demoted, or a member who is removed, between the
  read of his role and his comment's deletion or edit (`task.go:435`, `task.go:461`)
  completes it.

One more disagreement needs no model: the comment of `CanInvite`
(`rbac.go:20`) says only owners create admins directly; the code and the
repository's README let admins do so too.

What does hold in place of the broken ones is checked by the passing runs:
`AuditTrail` (every column is replayed by the history, except that an assignee
may have been removed without a record, and then there is none), `BoardContract`
(whoever leaves loses his tasks in the same step, recorded or not), `FreshUntilReset` and
`BoundedStaleness`, `SingleUse` and `OneTokenPerLogin`.

## 4. The proofs

All for any constants that satisfy the named assumptions (`StoreAssumption`,
`CacheAssumption`, `SessionAssumption`, `GuardAssumption`, `LifecycleAssumption`,
`CommentAssumption`, `PageAssumption`, `AccountAssumption`: placeholders are not elements of the
sets they stand beside, bounds are naturals, requests in flight are finite).

| Module | Theorem | Statement |
|---|---|---|
| `WorkspaceProofs` | `Invariance`, `TypeCorrect` | `Spec => []Inv`, `[]TypeOK` |
| | `OneOwner` | `Spec => []ExactlyOneOwner` |
| | `NeverLost` | `Spec => NoLostUpdate` |
| | `ImplementsBoard`, `Implements`, `ImplementsWork` | `Spec => BoardContract`, `TeamContract`, `WorkContract` |
| | `ClosedOnlyDone`, `TasksHoused` | `Spec => []ClosedWhenDone`, `[]TasksHaveTeam` |
| | `TrailKept` | `Spec => []AuditTrail` |
| | `NoStrayLocks`, `CascadesOnly`, `StuckIsSeen` | `Spec => []LockHolders`, `[]OnlyCascadesDeadlock`, `[]StuckMeansCircle` |
| | `WaitersStandStill` | `Spec => [][\A p \in Procs : Waiting(p) => ~Step(p)]_vars` |
| | `WritesInvalidate` | `Spec => EveryWriteInvalidates` |
| | `RolesStayCurrent`, `RowsStayCurrent` | `Spec => []MemberLocks`, `[]TaskLocks` |
| | `EntitledChanges` | `Spec => AdminsTouchOnlyMembers` |
| `TaskCacheProofs` | `CacheInvariance`, `RaceFree`, `StalenessBound` | `Spec => []CacheInv`, `[]FreshUntilReset`, `[]BoundedStaleness` |
| `SessionsProofs` | `SessionInvariance`, `WorksOnce`, `NeverForks`, `LogoutIsFinal` | `Spec => []SessionInv`, `[]SingleUse`, `[]OneTokenPerLogin`, `[]LogoutRevokes` |
| | `ImplementsSession` | `Spec => SessionContract` |
| `GuardProofs` | `WindowInvariance`, `LimitTheorem` | `Spec => []WindowInv`, `[]LimitHolds` |
| | `BreakerInvariance`, `ProbesDecide` | `Spec => []BreakerInv`, `[]Probing` |
| `LifecycleProofs` | `LifecycleInvariant`, `SchemaSafety`, `MigratedBeforeServing`, `DrainBeforeClose`, `NothingLeftOpen` | `Spec => []LifecycleInv` and each of its safety properties |
| | `ImplementsMigration` | `Spec => MigrationContract` |
| `CommentsProofs` | `CommentInvariant`, `CommentsHaveTasks`, `AuthorsOnly`, `NotFoundIsTrue` | `CommentSpec => []CommentInv`, `[]NoOrphans`, `WordsAreTheAuthors`, `NotFoundMeansGone` |
| `PagesProofs` | `PageInvariant`, `CompleteListing`, `NoRepetition`, `CursorHasRow` | `PageSpec => []PageInv`, `[]Complete`, `[]NoRepeats`, `[]LastRowExists` |
| `AccountsProofs` | `AccountInvariant`, `OneAccount`, `ProvedPasswords`, `KeptAccounts` | `AccountSpec => []AccountInv`, `[]OneAccountPerEmail`, `[]PasswordsProved`, `AccountsAreKept` |

- `Inv`. One owner is not inductive: a transfer overwrites roles it read two
  statements ago. What carries it is `MemberLocks` (from its locking read to
  its commit a request holds the row, and the role it read is the role in the
  table) and, for tasks, `TaskLocks`, whose last conjunct says that a version
  never stands for two different rows. `RequestShape` and `FreshIds` say which
  requests can be at which statement. The proof has one lemma per kind of
  step: a request arrives, reads or locks, commits a change of the team or of
  a task, or rolls back.
- `BoardContract`. Nine statements commit a change, with or without the reply, and each is a step of
  `Board`: the roles and the row it asks for are the locked ones (`Inv`). An edit
  keeps "closed exactly while done" only if it held before, because the code
  touches `closed_at` only when the status changes: so `ClosedWhenDone` is
  proved first, with `TasksHaveTeam`, by induction together. `TeamContract`
  follows from `Board`'s steps being steps of `Team` on its two variables, and
  so does `WorkContract`: a step of `Board` is one of `Work` or leaves the states
  of the tasks alone. It discharges what the theorems about `Comments` assume of
  the rest of the system.
- `LockHolders`. `MemberLocks` says that a request has the locks it needs; for
  deadlocks one needs the converse, that it has no others. Two conjuncts make
  it inductive: a removal between its two statements holds exactly the tasks
  it recorded, and they are still the target's; a deletion at its cascade holds
  every task there is, and none is added (`NothingAdded`: the foreign key).
  `CirclesCascade`: in a circle without a cascade a task's holder would be
  another removal of the same member, whose row only one of them has; so all
  wait for memberships, as owners, and there is one owner. `StuckCircle`: the
  requests that hold rows are themselves such a circle, because each of them
  waits for another one, and whoever holds nothing waits for one of them.
- `AuditTrail`. `Recorded` speaks about all rows of a history up to some
  point, so no induction over sequences is needed: `AppendRecorded` says what
  one more row does to it, `AppendReplays` and `AppendTrail` lift that to a whole
  trail, and each writer of history is one appended row. A removal that
  recorded nothing changes only the assignee, which the second disjunct of
  `Follows` allows. That every row a removal recorded is still the target's
  when it commits comes from `LockHolders`.
- `CacheInv`. Freshness of what a reader is about to be served depends on who
  may still store a page under its generation. `Generations`: readers with the
  same stamp have the same floor, and a page is at least as fresh as the
  floor of its generation; so is a page still on the wire (`StoreCache`), which is
  why it does not matter when Redis executes a `SET`. `Ages` bounds a page's life by
  the deadline of the request that stores it and the time a call may take.
- `SessionInv`. Between `GETDEL` and `SET` no key stands for the login; the
  request that consumed the old token does (`Consumed`), and the new token is
  known to nobody else yet (`PendingUnknown`). `Spent` tokens never come back.
- `SessionContract`. By `OneTokenPerLogin` and `Consumed` a login has one holder or
  one mover and never both, so the `CHOOSE`s of the mapping have one candidate.
  `Signed` is proved besides: whoever is about to store a token knows its user.
  A lost call, an expired key and a logout are
  ends of a session; a lost reply is none.
- `BreakerInv`. The calls that the breaker counts (`current`) are exactly those
  in flight, none of them while it is open, and half-open its count of requests
  is the number of calls in flight and of successes. So, when all slots are
  taken and not all became successes (which closes it), a call is in flight; a
  caller who gives up still returns through `Verdict`, and gives its slot back.
- `WindowInv`. Requests that passed do not bound those still to pass: the
  invariant counts the replies on their way (`Allowed`) too, and bounds both
  together by the counter. A lost reply takes its hit with it.
- `LifecycleInv`. Whoever works on the schema holds the lock (`pc[r] \in Working
  <=> lock = r`), so at most one process does, and `Progress` says how far the
  schema is at each of its steps: the one file that may differ is the one it
  is at. A kill leaves the file and the dirty mark, which nobody passes
  (`Plan`). `PoolsAt` and `ServerAt` say which pools are open and what the
  listener may do at each call.
- `MigrationContract`. Every step of every process but three leaves the schema
  alone (`Away`), and is no step of `Migration`, or gives the file up if the
  process was at one; `Mark`, `Apply` and `Clean` are its other steps, because
  `Progress` says which file the process is at and how far.
- `CommentInv`. A request that edits carries the row it was allowed to edit:
  if the comment still exists, its task and its author are the ones the
  request saw, because both never change and an id is never reused.
- `PageInv`. Until the end, every task that has stayed in its place is either
  at or before the cursor, and got once, or after it, and not got. A list in Redis
  has every such task in its place (`Faithful`, `CachedInv`), so a page of it is as
  good as one of the table's (`FoundRows`). The proof
  needs that the order of the list is total and transitive, that what `LIMIT`
  leaves is closed downwards, and that a page of `limit` rows out of
  `limit + 1` leaves one behind.
- `AccountInv`. Stored addresses are in their normal form and distinct as the
  collation compares them, which makes the `UNIQUE` index enough; the hash a request holds is a password that
  the account had while the request was in flight.

Only model-checked: `RequestsFinish`, `WindowEnds`, `Recovers`, `Trips`,
`StopsOnSignal` and `StartsOrFails` (liveness under fairness is outside the
prover, and so is `ENABLED`). Every other property of a passing run is a theorem.
`ClosedWhenDone`, `TasksHaveTeam`, `MemberLocks` and `TaskLocks` are theorems and no
run lists them: they carry the proofs of properties that runs do check.
`WaitersStandStill` says that a request that waits executes nothing, so that
`Waiting` means what `StuckMeansCircle` takes it for. `Assignments` leaves out
`RemoveMember`, transfers and role changes; the proofs of its properties have them. The inductive
invariants `Inv`, `CacheInv`, `SessionInv`, `WindowInv`, `BreakerInv`, `LifecycleInv`,
`CommentInv`, `PageInv` and `AccountInv` are theorems too; the runs check the
properties they were made for.

## 5. Not modelled, and the plan

Not modelled, because it keeps no state: configuration and validation (what
they let through are the CONSTANTS and the inputs of the actions), logging,
metrics, routing and headers, HTTP rendering, generated documentation, reads
that are one statement (`GetTask`, `GetHistory`, `ListComments`, `Me`, team
statistics, `migrate version`, health checks). `RenameTeam` writes one column
that no decision reads. Offset pages and the sorts by due date and priority
have no promise to check: rows shift under them by design.

Left to do: `Workspace` with `TaskCache` in one specification, which would say
which page a reader may see after which commit. Today they meet in two
properties: `EveryWriteInvalidates` says that the services call `InvalidateTeam`
after every change of a task but one whose COMMIT got no reply, and `TaskCache` starts from writers that do.
