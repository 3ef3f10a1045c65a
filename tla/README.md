# Verification of clickhouse-console

TLA+ specifications of the parts of this repository where the order of steps
matters, TLC configurations that check them on small instances, and proofs that
TLAPS checks for instances of every size. Paths are relative to the repository.

## 1. The system

The console is one Go process (`cmd/console`) that serves a browser application
(`internal/server/web`), runs SQL on ClickHouse clusters for its users, and
evaluates alert rules in the background. All its state is in maps under mutexes,
in JSON documents rewritten whole on every change, and in a SQL database for
alerting.

| Component | State | Operations | What is hard | What makes it correct |
|---|---|---|---|---|
| Alert scheduler (`alerting/service.go`) | `repo`, `executor`, `historyLimit`, `running` under `mu`; one loop goroutine, one goroutine per evaluation | `schedule`, `evaluate`, `emit`, `SetExecutor`, `Configure`, `Disable`, `Close` | one query reads all rules, evaluations outlive the pass, the row is overwritten without a condition, events are written before the row, restarts | one evaluation per rule, events alternate and agree with the row, firing is earned by `For`, every due rule is served |
| Alert repository (`alerting/sql_repository.go`) | `alert_rules`, `alert_webhooks`, `alert_events`, `alert_deliveries` | rule and webhook CRUD, `CreateEvent`, `CreateDelivery`, `Prune` | no transactions: check and delete, cutoff and delete, are separate statements on several connections | a reference means one webhook, used webhooks stay, the latest `limit` rows are kept and not more |
| Alert storage (`alertconfig`, `server/alerting.go`, `Configure`, `Disable`) | `platform-alerting.json` and its copy, the repository in service | `Save`, `updateAlertingConfig`, start-up | file, connection and service change in separate steps, by concurrent requests, under running evaluations | no repository in service is closed and none leaks, the saved settings belong together |
| Users and audit (`store/store.go`) | `console.json` and its copy under `mu` | `Open`, `CreateUser`, `UpdateUser`, `AddAudit` | change in memory, then the file; stale authorisation; errors half way | an active administrator remains, acknowledged changes survive, the audit trail has no hole |
| Sessions and clusters (`server/server.go`, `clusterconfig`) | `sessions`, `clusters`, `aliases` under `mu`; `platform-clusters.json` | `login`, `logout`, `switchCluster`, `auth`, cluster CRUD | handlers work on a copy of the session; login uses two critical sections; file before maps | a session's cluster exists, file and maps agree, a dropped session stays dropped |
| Query batches (`server.query`, `authorizeSQLKind`, `clickhouse.SplitStatements`, `Classify`) | none | split, classify, authorise, execute one by one, audit | quotes and comments, a statement failing in the middle, roles | nothing runs unless the role allows the whole batch, what ran is what is answered and audited |
| ClickHouse client (`clickhouse/client.go`) | none | `Execute`, `DryRun`, `DatabaseSchema`, `Monitor` | limits on rows and bytes; `Monitor` joins concurrent queries | a snapshot is whole or an error, and no goroutine is left behind |
| Browser application (`web/app.js`) | caches, in-flight flags | `fetchMonitor`, `loadEditorTables`, ... | answers arrive late and out of order | the view shows the selected cluster, a refresh gets new data |
| Webhook sender, secret codec, result export, configuration, data directory | none | one call each | — | — |

They interact by calls within the process. Rules name clusters by alias
(`Executor.Evaluate` looks the client up at each evaluation) and webhooks by id;
handlers authorise against the users and audit into the store; start-up loads
the three JSON documents and hands them to the server and the alert service.

## 2. Modules

Each component has a module with the code's operations as actions and `.cfg` files with
TLC's instances, most of them an `MC` module with the definitions these need, and a
`Proofs` module. Operators marked
`\* mutant` are plausible mistakes in the definition that follows them; no
specification uses them, they stand beside the code they distort so that each property
can be seen to depend on it.

### AlertScheduler

`Service.loop`, `schedule`, `evaluate`, `emit` and the rule handlers, against the
rows of `alert_rules`.

* A pass is three kinds of step, as in the code: `ReadRules` (one SELECT of all rows),
  `ReadClock` (one `time.Now` for the pass, which filters what is due), and one
  `Dispatch` or `SkipRunning` per rule in id order, where `Service.running` is looked at.
* An evaluation is a goroutine `eval[s]` that carries the row it was given (`seen`):
  `Start`, `Answer` (query over, clock read, verdict computed), `RecordEvent`,
  `Deliver`, `StoreState`, `Finish` (the deferred delete from `running`).
  `RecordEventFails` and `StoreStateFails` are the logged errors; `Restart` is a crash
  or a shutdown, which does not wait for evaluations.
* `CreateRule`, `UpdateRule`, `DeleteRule` are the single statements of the repository,
  and fall anywhere. The row's text is the number of its edits (`def`).
* The ticker may start a pass at any moment, so `wake` adds nothing; ids are never
  reused (AUTOINCREMENT). Time is a counter; a unit may be many seconds, so several
  passes and evaluations fit in one.
* `open`, `streak` and `torn` are history variables, read by no guard.

`torn` names the rules whose row and history were torn apart by something the code
does not defend against: an evaluation that starts from a row already overwritten, an
edit while one runs, a failed write, a crash between the event and the row.
`EventsMatchState` and `FiringEarned` hold for all others. That the exception is
needed is the finding of run `scheduler_duplicate`, where no fault and no edit happens.

### AlertLifecycle

What a reader of the rules and a receiver of their events are promised, with no pass,
goroutine, clock or statement in it: per rule the state its row shows, how many firing
events are not yet resolved, and whether the promise is suspended (`torn`). A step of a
rule is one of `Create`, `Edit`, `Delete`, `Wait`, `GiveUp`, `AnnounceFiring`, `Fire`,
`AnnounceResolved`, `Resolve`, `AnnounceLate`; rules step together or not at all.
AlertScheduler implements it: `Abstract` is its instance with `Seen` (the row's state, or
"new" and "deleted") for `state` and `open` for `announced`, and the run `scheduler` checks
`Lifecycle == Abstract!Spec` as a property. It says more than the invariants: that a rule
never goes from inactive to firing without the event in between, that a resolved event
precedes the row's return, that an id once deleted never comes back.

### AlertService

AlertStorage with the passes and evaluations that use its repositories; the module
EXTENDS AlertStorage and adds the loop (`TakeRepository`, `ReadRules`, `ReadFails`,
`SkipRunning`, `Dispatch`) and the evaluations (`Query`, `Emit`, `UpdateRuleState`,
`Finish`). An evaluation keeps the repository it was given (`via`) to its end, across
every `Exchange` (Configure, Disable) and after the repository was closed, when its
statements fail (`Works`). `running` is one set of ids for all databases. A rule is its id
and whether its row is due: its life is AlertScheduler's. `home` remembers the database
the rule was read from: one with a connection string, or the temporary one that a driver
opens without (`Database`). Events and the webhook call are one step (`Emit`), which changes
nothing that the module keeps.

### AlertHistory

Webhooks, the rules' references to them, and the two history tables, one action per
SQL statement: `CountRules` and `DeleteWebhook` are the two statements of
`DeleteWebhook`, `ReadCutoff` and `DeleteOld` those of `Prune`, `ValidateRule` and
`CreateRule`/`UpdateRule` the check and the write of the handlers. A webhook's target
is the number of its creation, so that two webhooks are told apart even if an id were
used twice; `meant` remembers which one was chosen. `owed` (history) holds the rows
whose emission has still to prune. An id is taken and its row inserted in one step: exact
for SQLite, which has one connection; on PostgreSQL and MySQL two inserts may commit in
the other order than their ids, which the model leaves out. `UpdateWebhook` keeps the
id and is not modelled. The evaluation around an emission is AlertScheduler's; the two
meet in `Deliver` there, which is everything from `LoadWebhook` to `DeleteOld` here.

### UserStore

`store.Store` with the handlers `createUser` and `updateUser` and any handler that
audits. `lock` is a request inside `Store.mu` whose change is in memory and not yet in
the file; `Save` is the rename, `SaveFails` and `Crash` fall before it. `Authorise`
fixes the administrator a request acts as, long before it acts. `UpdateHalf` is
`UpdateUser` with a bad password, which has assigned the role already and saves nothing.
`unsaved` and `written` are history.

### ClusterRegistry

`Server.sessions`, `clusters`, `aliases` and `clusterconfig.Store`. `LoginRead` and
`LoginInsert` are the two critical sections of `login`; `Authorise` gives a request a
copy of its session; a cluster handler holds `Server.mu` from its checks to the maps
(`lock`), with `Persist` (memory and file) and `Apply` (maps) as its two steps and a
crash between them. When the file cannot be written the handler ends in `SaveFails`: the
change of the records and its undoing as the store does it, by cutting off (`CreateFails`),
by the kept copy (`UpdateFails`), by moving up and putting back (`DeleteFails`, `PutBack`);
`RegistryAgrees` would see an undoing that is not exact. `Denied` is a request refused before
that. A request refused because the cluster is in use passes through
`refused`, so that the refusal is visible in a behaviour. An alias stands for its
case-folded form; address and credentials are a version number.

### ClusterDirectory

What users are promised of the clusters, with no lock, file, copy of a session or half of
a login in it: which clusters exist and by which settings (`version`), and the cluster that
each session is on (`at`). It changes by one `Create`, `Edit`, `Delete`, `LogIn`, `Switch`
or `LogOut` at a time, and by `Restart`. ClusterRegistry implements it: `Atomic` maps
`version` to what the file holds (`Loaded(disk)`), so a cluster changes at the write of the
file, and `at` to the sessions' clusters (`At`). That a cluster is deleted only when deserted
says that no login, no switch and no earlier copy of a session gets in between the check
at server.go:598 and the change of the maps.

### AlertStorage

`alertconfig.Store` (`config` in memory, `disk`), the handler `updateAlertingConfig`, and
`Service.repo` with `historyLimit`. A change is four steps under three locks or none:
`ReadConfig` (the driver check), `OpenRepository` (ten seconds, no lock), `Save`
(`Store.mu`), `Apply` and `CloseOld` (the two halves of `Configure` and `Disable`, inside
and after `Service.mu`). `OpenFails`, `SaveFails` and `StartFails` are the error branches,
`Start*` is `main`. A repository is a handle, numbered as opened; `open` holds those not
closed, `db` the connection string of each. `Opens` gives the driver that a connection
string works with. `raced` (history) says that the last save overlapped another change.
`Prune` in `Configure` is left out: AlertHistory has it. What `RunningMatchesFile` excepts
under `raced` does happen: two changes may be saved in one order and applied in the other,
and a change that keeps the connection string may be saved, with the driver it checked at
alerting.go:108, after another one replaced both; the next start then cannot connect.

### AlertSetting

What an administrator is promised: a setting is saved (`Save`), waits, and is put into
service (`Exchange`); the service changes in no other way, but for `Start` and `Stop`.
While no save overlaps another change one setting waits at most, and it is the one saved
last; overlapping ones are put into service in any order, and one may be saved with the
database of another. AlertStorage implements it: `Promised` maps `served` to the database and
limit of the repository in service and `waiting` to those of the requests between `Save` and
`Apply`. Opening and closing are stutters.

### SqlSplit and QueryBatch

`SqlSplit` has `SplitStatements` as the code has it, one step of a lexer per round
(`Lex`: a mode and the characters taken; `Round`: the loop's body; `Scan`: the loop), and
`Classify` with its own scanner of comments (`Nest`, `Skip`, `AfterTrivia`). The loops are
recursive functions on the number of rounds, which the length of the text bounds. Beside them
stands the same language as a grammar: tokens are intervals of the text, a quotation ends at
the first mark after an even number of backslashes, a comment with the mark that closes as
many as were opened (`Ends`, `Tokens`), and statements are what is between two semicolons
(`Statements`, `Words`). A verb is one letter, two quotation marks stand for three, the space
for the tab.

`QueryBatch` is one request of `query` or `dryRun`: the text is written, `Begin` is the
check of the whole batch with the role of the session as the request took it, `Send` and
`SendFails` one statement each, `Finish` the answer. `ran` is what ClickHouse executed;
a statement that failed here may have been executed there. `Split` and `Kind` are constant
operators, to which `MCQueryBatch` gives SqlSplit's definitions; so the proofs hold for
every splitting. A piece of nothing but form feeds, spaces and comments counts as a statement in
`SplitStatements` and is then refused by `Classify`; `PiecesClassified` excepts it.

### MonitorView

The monitor page of the browser (`loadMonitor`, `fetchMonitor`, its cache in
`localStorage`, its in-flight flag and its button), the cluster selector, the handlers
`monitor` and `switchCluster`, and `Client.Monitor`. A continuation of the browser is one
step: `Sends` up to the await, `Hear` from the answer through `catch` and `finally`.
`Serve` is the handler taking the session's cluster, which need not be the one the browser
asked for; then every query is a goroutine, and `Result` its result received by the handler,
`ResultUnread` one sent after the handler has left at the first error. While the handler
receives, sending and receiving are one step: what waits in the channel in between changes
neither the answer nor the room that is left afterwards. `SwitchCluster` is the change on the server,
`Switched` the page that hears of it; the choice in the dialog before it has no effect of
its own.

What other tabs do reaches this page in two ways: `OtherTab` changes the cluster of the
session, which they share by its cookie, and `OtherTabStores` writes a snapshot to
`localStorage`, which all tabs share; no code listens for that. They run the same code, so
that what they store for a cluster is its own snapshot (`CacheOwn`, which this page keeps as
well). How old a cached snapshot is against `monitorCacheTTL` is left open in `LoadMonitor`.

The active cluster also changes without a load. `Logout` resets `state`, the flag and the
view included, and leaves the rendered page behind the login form (app.js:130-135); `Login`
is `showApp` after a logout or after a 401, which shows the form and resets nothing
(app.js:91-92, 104-117); `Reread` takes over the session's cluster after a platform cluster
was saved (app.js:730-732). None of them touches what is displayed, so `visible` (the monitor
is the section on the page) is kept apart from `view` (`state.activeView`). A reload begins
at `Init`, with what was stored before in place of what another tab stores. `active` is
`NULL` from a logout on; a late answer to a change sets it, and the model then lets the user
act before the next login, which the form prevents: more behaviours than the code has. For
the same reason a login is possible at any time.

`moved` and `behind` are history. `moved`: the cluster changed, or the user logged out, since
the button was disabled. `behind`: since the page was last loaded it took no notice of a
change: an answer for its cluster was taken from another cluster and ignored, another tab
stored the snapshot that was missing, or the cluster changed without a load. Opening the
monitor or leaving it resets it, and so do a change of the cluster that loads and an answer
that fits.

Left out: the health mark and the editor's lists; and a request's end when the browser goes
away, which is a failed query here. When all goroutines of a request have ended, what lies in
its channel is forgotten. The scripts run in the browser, and the
module keeps them in one place with the Go code that answers them.

## 3. Runs

| Run | Bounds | Checks |
|---|---|---|
| `scheduler` | 1 rule, 2 goroutines, `Interval` 1, `For` 2, clock 0..6, 1 edit, 1 fault | `TypeOK`, `OneEvaluationPerRule`, `EventsMatchState`, `FiringEarned`, `LastEvaluatedMonotone`, `Lifecycle` (refines AlertLifecycle) |
| `scheduler_live` | 1 rule, `For` 1, clock 0..2, 1 edit, 2 faults, `FairSpec` | `EvaluationEnds`, `DueIsServed` |
| `scheduler_duplicate` | 1 rule, no edit, no fault | `OneFiringPerTransition` is violated |
| `alert_history` | 2 emissions, `Limit` 1, 4 events, 1 rule, 1 request, 2 webhooks, 1 fault | `TypeOK`, `HistoryBounded`, `NotifiesChosen`, `LatestKept` |
| `webhook_in_use` | 1 rule, 2 requests, 1 webhook, no fault | `UsedWebhookStays` is violated |
| `user_store` | 2 accounts, 2 requests, 2 audits kept of 4, 2 faults | `TypeOK`, `ActiveAdminRemains`, `MemoryOnDisk`, `AuditTrail` |
| `cluster_registry` | 1 environment and 2 platform clusters, 2 sessions, 2 requests, 1 crash, failed writes without bound | `TypeOK`, `ActiveClusterExists`, `RegistryAgrees`, `DroppedStaysDropped`, `Directory` (refines ClusterDirectory) |
| `delete_refused` | the same | `RefusedOnlyWhenActive` is violated |
| `alert_storage` | 2 changes at once, 2 drivers, a connection string for each, 2 limits, 3 repositories, 1 crash | `TypeOK`, `RepositoriesOwned`, `RunningMatchesFile`, `FollowsChanges` (refines AlertSetting) |
| `alert_service` | 2 databases with one id in common, 2 repositories, 2 evaluations, 1 crash; rule 1 may hang (`HungSpec`) | `ServiceTypeOK`, `RowHasOneWriter`, `ResultsStayHome`, `OthersServed` |
| `monitor_view` | 2 clusters, 2 snapshots under way, 2 queries each, other tabs, logins and logouts without bound, `FairSpec` | `TypeOK`, `CacheOwn`, `FlagHasFetch`, `ButtonReturns`, `SettledShowsActive`, `FetchesEnd` |
| `query_batch` | every text of 5 to 8 characters over nine alphabets of 3 to 6, 3 statements, GRANT enabled | `TypeOK`, `SplitsAsLexed`, `PiecesClassified`, `AllowedFirst`, `AnswerTellsWhatRan` |

Why the bounds are enough:

* Rules do not share state but for `running`, the loop and goroutines, so one rule shows
  the life of a rule; `alert_service` has two, to see whether one holds up another. Two goroutines are all a
  rule can have in conflict. With `For` 2, `Interval` 1 and seven clock values a rule
  can become pending, break on a gap (more than 2), fire, resolve, and fire again.
* `Limit` 1 makes every insert displace a row. Two emissions with four events let a
  cutoff be read, two more rows come and go, and the old cutoff be used.
* Two webhooks let the first be deleted under an emission that has its id and another be
  created, so a reused id would be seen; that a rule may hold such an id too is covered for
  any number of requests by the proof of `NotifiesChosen`, and the two requests it
  takes are in `webhook_in_use`.
* Two administrators are what the last-administrator rule is about; two concurrent
  requests are the two demotions. Two audits kept of four written make the list overflow
  twice.
* Three repositories are one in service and one in the hands of each of two changes; a
  restart numbers them anew. Two limits and two databases tell a half-applied change.
* In `alert_service` id 2 is in both databases and id 1 in one of them: a mark, a row or a
  result can be mistaken for the other database's, and a hung evaluation shares a
  database with a rule that must be served. Two repositories are the old and the new one,
  of two databases or of the same.
* Two clusters in `monitor_view` are the right and the wrong one, and two snapshots under
  way are all the page and another can be confused by: one is the page's latest. Two queries
  are the one that fails and the one left behind.
* The alphabets of `query_batch` keep apart what interacts: marks and backslashes; one mark
  in the other; comments, where 8 characters are two levels of nesting with one to spare;
  line comments; heredocs, where 7 are an opening tag, a semicolon and the closing tag;
  verbs; form feeds beside comments, where the two scanners differ. Three statements of 100 show a failure at the first, in the middle and at the end.
* Deadlock is checked for the scheduler, `alert_service` and `monitor_view`, which always
  have a step. The other runs stop at their bounds.

### Fairness

`FairSpec` has weak fairness of the executor being set (`server.New` always calls it), of
the loop (a ticker and a select), and of each goroutine's `Progress`: the Go runtime
runs every goroutine that can run, a query is cut off by the context of `evaluate`
(2 to 30 s), the webhook by its client's timeout; the statements have no deadline
(`context.Background()`), so their end rests on the driver. In `alert_service`, `HungSpec`
drops even that for rule 1, and `OthersServed` says that a rule that does not hang never
stays due for ever. Nothing is assumed of `Failure`, `Restart`, the clock or the
administrators. `MonitorView!FairSpec` assumes of each request that one of its steps is taken some day if
one is always possible: it is served (`Served`: every query ends by the client's timeout,
every goroutine that can send does) or the browser runs the continuation of its answer
(`Hears`); nothing of the user, the other tabs, logins or the change of the cluster.

## 4. Findings

* **One transition notified twice** (`scheduler_duplicate`). `schedule` reads all rows
  (service.go:122) and consults `running` later (service.go:137). An evaluation that
  stores its row and finishes in between is followed by another from the old row.
  docs/alerting.md:41 promises one firing and one resolved per transition.
* **A used webhook is deleted** (`webhook_in_use`). `DeleteWebhook` counts and deletes in
  two statements (sql_repository.go:284, 290) and the schema has no reference; a rule
  written in between fires without notification.
* **An expired session blocks deletion** (`delete_refused`). `deleteCluster` looks at every
  entry of `sessions` (server.go:598), `auth` refuses expired ones but none is removed.

Seen while modelling, without a run: `Execute` appends ` FORMAT JSON` (client.go:307), which
disappears in a line comment at the end of the statement, so that such a query runs and is
answered as an error.

The refresh button of the monitor may stay disabled with nothing under way: a refresh of one
cluster, a change to another whose snapshot in the cache is less than an hour old, and the
answer for the first, which leaves the button alone (app.js:995) while no request
for the second was sent (app.js:971). README.md:102 of the repository says that the button
always fetches. A way back to the first cluster does not help while its own snapshot is
fresh; an hour later, or after a reload, it does. A logout while a request is under way has
the same effect when the answer comes before the next login. `ButtonReturns` says that this
needs such a change (`moved`).

The monitor may also go on showing a cluster that is no longer the chosen one, with nothing
under way, in the cases that `SettledShowsActive` excepts as `behind`; the property and its
proof say that there are no others. (1) The page shows A, the user changes to B, which has no
snapshot in the cache; another tab stores one while this page's request is under way, and the
request fails: the error finds B in the cache and does not blank the page (app.js:992), nor
does it show what it found. (2) After a 401 and a login, or a logout and a login, the page is
as it was, and the session has the first cluster (app.js:107, 133); the same when the session
is read again after an edit of the clusters and another tab had changed its cluster
(app.js:732). (3) An answer was taken from another cluster than asked for (the session was
changed by another tab, or there and back while the request was on its way): such an
answer is ignored and nobody asks again, so what was shown before remains. Besides, of two
snapshots of one cluster under way at once (there and back again) the older may be
answered last and replace the newer in the cache.

An evaluation whose repository is exchanged after its event was recorded cannot store its
row; when the same database is opened again (a new history limit is enough) the rule fires
a second time.

## 5. Proofs

For every value of the constants that satisfies the named assumptions of the modules:
bounds are naturals, `Limit`, `Interval`, `MaxAudits` and `Queries` positive; what stands for
"absent" is none of the values it marks (`AbsentAssumption`, `NullAssumption`);
`NULL` is not an alias; the first account and the first cluster are among them; the aliases of the environment are not empty and distinct
(`EnvAssumption`, refused otherwise by config.go:134); there is some text (`Texts`). Nothing
is assumed about how many rules, goroutines, requests, databases, clusters or snapshots there
are, nothing of `Split` and `Kind`, and nothing of the alphabet and length of a text.

| Theorem | Says | Along |
|---|---|---|
| `AlertSchedulerProofs!TypeCorrect` | `[]TypeOK` | `Typed`: adds to `TypeOK` what a goroutine's program counter says of its rule, row and outcome, without which `Answer` and `StoreState` cannot be typed |
| `...!OneEvaluation` | `[]OneEvaluationPerRule` | inductive with `Typed`: only `Dispatch` adds to `running`, with a rule that is not in it, and only `Finish` removes |
| `...!NeverOverwritesLater` | `LastEvaluatedMonotone` | `TimeOK`: no time is in the future, a live evaluation's outcome is at least what its row says; exclusivity makes it the row's only writer |
| `...!EventsAgree`, `FiringsEarned` | `[]EventsMatchState`, `[]FiringEarned` | `Story`, see below |
| `...!SchedulerImplementsLifecycle` | `Lifecycle`, the refinement of AlertLifecycle | every step is a step of one rule or of none, from `Story` |
| `AlertServiceProofs!ServiceImplementsStorage`, `NoneLostInService`, `FileFollowedInService` | `ServiceSpec => Spec`, `[]RepositoriesOwned`, `[]RunningMatchesFile` | passes and evaluations are stutters of AlertStorage, so what is proved there holds in the composition |
| `...!SettingKeptInService` | `FollowsChanges` for `ServiceSpec` | the same, with `StorageImplementsSetting` |
| `...!ServiceTyped`, `OneWriterPerRow`, `NothingStrays` | `[]ServiceTypeOK`, `[]RowHasOneWriter`, `[]ResultsStayHome` | `ServiceInv`: a handle is never given out twice, so whoever holds one knows its database for as long as it is open |
| `AlertStorageProofs!StorageTyped`, `NoneClosedNoneLeaked` | `[]TypeOK`, `[]RepositoriesOwned` | `OwnedInv`: a request holds a repository only between opening it and `Apply`, or between `Apply` and `CloseOld` |
| `...!ServiceFollowsFile` | `[]RunningMatchesFile` | `Follows`, see below |
| `...!StorageImplementsSetting` | `FollowsChanges`, the refinement of AlertSetting | every step saves one setting, puts one into service, starts, stops or changes nothing of them, from `OwnedInv` and `Follows` |
| `AlertHistoryProofs!NeverMisdirected` | `[]NotifiesChosen` | `RefInv`: an id equals the number of its creation, so a reference means the same webhook wherever it has got to: rule, request or emission |
| `...!OnlyDisplacedDeleted` | `LatestKept` | `RowsOK`: a cutoff waiting to be used has `Limit` rows at or above it, which inserts and other prunings preserve |
| `...!HistoryStaysBounded`, `HistoryTyped` | `[]HistoryBounded`, `[]TypeOK` | `Settled`, see below |
| `UserStoreProofs!AdminAlwaysRemains` | `[]ActiveAdminRemains` | `AdminInv`: the accounts are typed and an active administrator exists in memory and in the file; a change that demotes one is refused when there is no other (cardinality of the set) |
| `...!AcknowledgedIsSaved`, `AuditNeverGaps`, `UsersTyped` | `[]MemoryOnDisk`, `[]AuditTrail`, `[]TypeOK` | `FileInv`: the file is one whole document; `Append` and the cut of the oldest take `LastOf(n)` to `LastOf(n + 1)` |
| `ClusterRegistryProofs!RegistryTyped`, `NoSessionStranded`, `NoSessionRevived` | `[]TypeOK`, `[]ActiveClusterExists`, `DroppedStaysDropped` | `Inv`: the first alias is an environment cluster, which is never deleted; every known cluster is listed; a login in progress has an environment cluster; while a deletion holds the lock no session is on its cluster |
| `...!RegistryShowsFile` | `[]RegistryAgrees` | `Agrees`, see below |
| `...!RegistryImplementsDirectory` | `Directory`, the refinement of ClusterDirectory | `DirectoryInv`: `Inv`, `Agrees` and `Fresh`, see below; the file changes in one step of a handler, the others are stutters |
| `MonitorViewProofs!PageTyped`, `CacheStaysOwn`, `FlagReturns`, `ButtonWaitsForFetch`, `SettlesOnActive` | `[]TypeOK`, `[]CacheOwn`, `[]FlagHasFetch`, `[]ButtonReturns`, `[]SettledShowsActive` | `PageInv`, see below |
| `QueryBatchProofs!NothingUnauthorised`, `ToldTruly`, `BatchTyped` | `[]AllowedFirst`, `[]AnswerTellsWhatRan`, `[]TypeOK` | `BatchInv`: a batch that has begun is acceptable; while it runs, what was executed is `1..sent` and nothing is audited yet |
| `...!SplitsEveryText` | `[]SplitsAsLexed`, for every text over any alphabet | `Read`, the invariant of the loop, see below |
| `...!PiecesAlone` | `[]PiecesClassified`, likewise | `ReadsPiece`, the same loop over a piece, see below |
| `...!RunsWhatIsWritten` | with `SplitStatements` for `Split`, what was executed is a beginning of the grammar's statements of the text | `BatchInv` and `SplitsEveryText`'s lemma put together |

The invariants that are not those of the runs, and why they are needed:

* `Story` (scheduler). `EventsMatchState` speaks of the row when nobody works on the rule;
  between the event and the row it is false. For an intact rule (not in `torn`) `Follows` says
  where the story is: before it is stored, an evaluation has seen the present row; `open` counts
  what its outcome says once the event is recorded, what the row says before; and the time of a
  pending row, or of the outcome that is to replace it, is covered by the run of true results.
  `VerdictsOK` says that a verdict emits exactly the difference it makes. An id not yet given
  out has no history (`Unborn`), or a new rule could begin in debt. The same facts tell which
  step of AlertLifecycle a step of the scheduler is.
* `Settled` (history). A cutoff is used long after it was read, when rows above it have
  come and gone. For each emission about to delete there is an id that separates the rows it
  saw, of which its cutoff leaves at most `Limit`, from those inserted since, whose own emissions
  have yet to prune. That is why no more than `Limit` rows outlive the last
  emission in whatever order they delete. `RankExists` supplies the row that the code's `OFFSET`
  selects, for sets of any size.
* `Agrees` (registry). While a handler holds the lock, the maps show some earlier document of
  which the file is one change: a creation, an update or a deletion of the handler's alias.
  `Apply` then repeats that change in the maps.
* `Follows` (storage). A request about to exchange holds a repository exactly if it is to
  enable alerting. When the last save overlapped no other change, it is the only one still to be
  applied, and what it carries is what is in the file.
* `ServiceInv` (service). A pass and an evaluation know the database of their handle, and the
  handle is older than the next one. The first attempt at `ServiceTyped` failed for a good
  reason: alerting may be enabled with a driver and no connection string, which opens a
  temporary database, and `due` knew only the databases with a string. `Database` now has
  both kinds.
* `PageInv` (monitor). A page that is not behind has a cluster, and if that cluster is
  cached, by whichever tab, the page shows it (`CachedIsShown`). No run asks for this, and
  `SettledShowsActive` is not inductive without it: an error leaves the page of a cached
  cluster as it is.
* `FailureUndone` (registry) is a lemma about the records: appending and cutting off,
  changing and restoring, and `RemoveAt` followed by `PutBack` at the same place each give
  back the sequence, of any length.
* `Fresh` (registry). A session's id is new when it is chosen and no session has it until
  the second half of the login; otherwise `LoginInsert` could put a session that exists on
  another cluster, and a login would not be one in ClusterDirectory.
* `Read` (lexer). After each round the mode is what the grammar has at that place: in code, a
  token begins there and those before are over (`Between`); in any other mode, a token of that
  kind is under way and none of its ends was passed (`Within`, with the parity of
  backslashes and the balance of comment marks so far). No semicolon was passed since the last
  cut (`SinceCut`), a word was seen since if the flag says so (`Spoken`), and the list
  is that of the grammar up to there (`Listed`). A doubled mark is the hard step: the code
  stays in the quotation, the grammar ends one token and begins the next.
* `ReadsPiece` (lexer). Reading a piece, the loop is at every place in the token that the whole
  text has there, until the end of the piece, where it is in code or in a line comment
  (`LineLeft`): what follows is space up to the semicolon, and nothing else ends in a space. One
  place differs: a "# " whose space was trimmed away is no comment in the piece, but then
  it is its last character. So a piece is terminated and has no semicolon; `TriviaSkipped` says
  that the scanner of `Classify` stops at the first word of any such text.
* `FileInv`, `BatchInv`, `RefInv`, `RowsOK`, `OwnedInv`, `Inv`, `Typed`: in the table.

TLC checked `Settled`, `Agrees`, `Follows` and `Fresh` on the instances of their runs
before they were proved.

`PiecesClassified` was once stated without its exception for comments beside form feeds, and
TLC found nothing: no alphabet had both. The proof did not go through at a piece such as form
feed, `//`, which `SplitStatements` takes for a statement; with the ninth alphabet TLC finds
it too. The property now says which words it is about.

That `Scan`, `AfterTrivia` and the others are what their recursive equations say is itself
proved (`RoundFunction`, `Iterates`): the function is built for one more argument at a time.

Only model-checked:

* Liveness (`EvaluationEnds`, `DueIsServed`, `OthersServed`, `FetchesEnd`): fairness and
  ENABLED are outside what TLAPS proves.
* The three violations of section 4, which are behaviours.

## 6. Not modelled

* Formatting, rendering and encryption: opaque values.
* `Evaluate` and `alertValue`: an answer is true, false or an error.
* The HTTP exchange with ClickHouse and with webhooks: its end is a step with any result.
* Parsing of the environment, TLS, the data directory.
* The kind of `ALTER`, which a pattern over the words behind it decides;
  `exportDatabaseSchema` and `DatabaseSchema`, which only read; alerting configured by the
  environment (read-only).
* `UpdateWebhook`, one statement that keeps the id; listings of events and deliveries,
  `Authenticate`: they read, or change what no property tells apart.
* Which values `alertValue` takes for true.
* In the browser, everything but the monitor page, the cluster selector, and logins and logouts
  as far as these see them.

## 7. What is left

Every safety property of the runs is proved, and the three refinements. What would say more:

1. The scheduler's `EvaluationEnds` rests on `ENABLED`; its safety half (a live evaluation
   always has a step) can be stated and proved without it.
2. `Monitor` on its own against a snapshot taken at once, for a server that changes while it
   is asked.
3. The kind of `ALTER` in `Classify`, which needs words of more than a letter.
