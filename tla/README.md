# TLA+ specification of REI3

REI3 is a platform for business applications: a Go server keeps the schema of
the applications ("modules") and their data in one PostgreSQL database, serves
browsers over websockets and HTTP, and runs tasks in the background. Several
servers ("nodes") can share a database. This directory holds TLA+ modules of
the parts in which goroutines, nodes, browsers, disk and database meet, the TLC
configurations that check them, and TLAPS proofs of the results that hold for
any number of tasks, nodes and clients.

Paths below are relative to the repository.

## Inventory

| part | state | operations | how it meets the others |
|---|---|---|---|
| Task scheduler, `scheduler/scheduler.go` | task list, `loadTasks`, `loadCounter`, next execution time | loop once a second, load, execution of an entry, run by hand, `storeTaskDate` | restart channel from cluster and requests; `Import_mx` from the import; `Schema_mx` |
| Cluster, `cluster/`, `scheduler/scheduler_cluster.go`, SQL functions of `db/initialize` | rows of `node` and `node_event`; `isClusterMaster` in memory | start, stop, check-in, role request, collecting and handling events | the database only; tasks of the scheduler run it |
| Schema cache, `cache/cache_schema.go` | maps of all entities, JSON copies, `Schema_mx` | reload of modules | all requests read it; events of other nodes reload it |
| Login access, `cache/cache_access.go` | access by login | load, renew | built from the schema cache and the roles in the database |
| Requests, `handler/websocket`, `request/`, HTTP handlers | slots of `hubRequestLimit`, pool connections, transaction | one transaction per websocket message | everything |
| Websocket hub, `handler/websocket/websocket.go` | clients, their write locks | add, remove, broadcast | channel of 10 events from the whole server |
| Config store, `config/` | values in memory and in the database | set, load | events to the other nodes |
| File store, `data/data_file*.go`, `scheduler_cleanup.go` | files and versions, on disk and in the database | upload, assign, delete, clean up | scheduler runs the clean up |
| Import, `transfer/` | one transaction, set of skipped entities | up to ten loops with savepoints | holds `Import_mx`, ends with a schema reload |
| Spoolers, `spooler/` | rows to send or to attach, attempts | send, attach, receive | tasks of the scheduler; attachments go to the file store |
| Bruteforce protection, `bruteforce/` | attempts by host, blocked hosts | check, bad attempt, clear | all handlers |
| Process, `r3.go` | `stopping`, `OsExit` | start, stop | starts and stops all of the above |
| Browser: connection and session, `www/comps/app.js`, `login.js`, `www/websocket_*.js` | transactions of the websocket, states of the app (`appReady`, `loginReady`, ...), overlay counter, modules with their dates | connect, reconnect, log in and out, start the app, load the schema | websocket of the hub; schema files by HTTP |
| Browser: record form, `www/comps/form.js` | values old and new, record ids and keys per relation, `loading`, `updatingRecord` | load, type, save, delete | requests `data get`, `set`, `del` |
| Browser: file input, `www/comps/inputFiles.js` | files and `fileIdMapChange` | upload, paste, remove | uploads by HTTP; its changes are saved by the form |
| Browser: views, builder, admin, libraries | | | see "Not modelled" |

What is hard in this code: a list of tasks that is replaced while goroutines
still hold indexes into it; nodes that agree on a master through rows, without
locks, and lose or reorder the messages that say so; one `RWMutex` that almost
every request takes while it also holds one of few connections; channels of
small capacity between goroutines that hold locks; files that are on disk and in
the database, with no lock that spans the two; a page in which each answer finds
another state than the request left behind. `PROJECT.json` lists the places,
`hazards`, with the properties that cover them.

What makes each part correct:

* Scheduler: a task is never executed twice at once; late results never reach
  another task; the list is that of the node's role; changes take effect.
* Cluster: one master; a node acts as master only if it is; a dead master is
  replaced; somebody acts.
* Schema cache: it never goes back and becomes current; nobody blocks anybody forever.
* Requests: whatever they took they give back.
* Hub: a lost connection never blocks it; a failed client goes; events are not lost.
* Access and config: what is in memory is what was committed last.
* Files: what a record refers to can be read; nothing in use is cleaned up; what
  is not used is, from disk and database; a record gets its own files only.
* Import: all or nothing, in any order of the entities.
* Spoolers: every message is sent at least once, or given up after its attempts;
  the files of a mail are attached once.
* Browser: the app is shown to who is logged in; an overlay goes away; the schema
  becomes current; a form writes what the user saw, to the record he saw.

## Modules

### Scheduler

`Scheduler.tla` models `scheduler.go`. `tasks` is the Go slice: a sequence of
entries with the flag `running`, the next run and the last run of each
schedule; a goroutine keeps an index, the load counter and its copy of the
entry (`runner`), as `runTaskByIndex` does. Actions are the parts of the code
between which others can run:

| action | code |
|---|---|
| `LoopLock`, `RunTasksBySchedule`, `LoadFails` | the loop takes `change_mx`; waits for `Import_mx`, then loads if asked to and starts what is due |
| `RunTaskDirectly` | a run by hand, from a `taskTriggered` event |
| `StartTask`, `SkipTask`, `IndexPanic` | the goroutine looks at its index: starts, skips, or is out of range of a list that is shorter by now |
| `StoreAttempt` | `storeTaskDate`, after which a "once" schedule is not loaded again |
| `EndTask` | the result is written back, if the list is still the same |
| `Send`, `RestartListener` | the bounded channel `SchedulerRestart` and its reader |
| `MasterAssigned` | an event of the cluster: the role changes and a restart is sent |
| `TaskSet`, `Inform`, `InformLost` | an admin changes a task; a second request of his browser, or an event, tells the nodes (`TasksChanged`, `SchemaChanged`), or is lost or fails |
| `TransferStart`, `TransferFails`, `TransferCommit`, `TransferUnannounced`, `TransferEnd` | an import under `Import_mx`: it fails, or commits, then gets to its restart or returns an error before it |
| `Tick` | time |

Goroutines that have not looked at their index yet are counted per index and intended
task in `spawned`. `informing` counts changes that are to be told, `missed` says that
one never was: `SchemaChanged` returns on an error before its restart
(`cluster_tasks.go:256-288`), and the second request of `adminScheduler.js` may be
lost. The list then stays as it is until anything else reloads it, so `missed` is the
exception of `ListFitsRole`, and of `RestartTakesEffect`, which is about restarts that
were asked for. An import has `Import_mx` until its restart is in the channel. With
the channel full everyone waits: the import for the channel, the loop for `Import_mx`,
the channel's reader for the loop's mutex. `Jammed` is that state, and with the end of
the process the only one in which requests are never served. Schedules have an
interval instead of a calendar.

### Cluster

`Cluster.tla` models the master role. The variables `registered`, `master`,
`fresh` and `events` are the database, `role` is `cache.isClusterMaster`. The
two tasks of a node, check-in and event processing, run concurrently; each of
their statements to the database is an action (`CheckInNode`, `LookForMaster`,
`SwitchMaster`; `CollectEvents`, `DeleteEvents`, `HandleEvent`,
`ProcessFails`). `master_role_request` is two actions, because a concurrent
call looks at what was committed before and then waits for the row locks of the
first; the part that writes is atomic. `StartNode` and `StartDeletesEvents` are
the two statements of a start; `Exit` is the end of the process, as a crash at
any time too. Events are a set of states per node: rows are collected without
an order, and two equal states in one batch act as one. `blurred` and
`assigned` are history variables for the properties. `blurred` names what may
make a node's own view wrong for good: two states collected at once, an event
that arrived between collecting and deleting, a batch that an error ended, and a
node that was deleted while it ran. An event that is lost this way can leave a
database with a master that never acts as one; as its node checks in, nobody
requests the role from it (`cluster_tasks.go:35` only looks at check-ins).

### MasterRole

`MasterRole.tla` is what the cluster promises of its master, without statements
and events: nodes are candidates, holders and actors; a holder is replaced only
after a look that found none present; the new one takes the role from all
others at once; a node acts only if it was entitled since its start. `Cluster`
implements it with the mapping at its end: `holder` is the column
`cluster_master`, `candidates` are nodes that wait for their request, `entitled` is
`assigned`, `acting` the nodes' own view. `entitled` is a set of past
assignments, not the holder, because a node acts on an event that may be long
outdated; that it stops acting is the promise of `RoleFollowsDatabase`, with
its exceptions.

### SchemaReload

`SchemaReload.tla` models how requests, reloads and background tasks compete
for slots (`hubRequestLimit`), connections (pgx pool) and locks (`Schema_mx`,
`preset_mx`, `ics_mx`). A handler is a *program*, a sequence of steps, defined next to
the others under "Programs" and mapped to its code; each step is an action.
`Schema_mx` follows Go's `RWMutex`: a writer first keeps new readers out
(`Lock`), then waits for the ones inside (`Drain`); `Unlock` lets all waiting
readers in before the next writer. Queries through the pool need a free
connection; queries of a transaction use its own. A failure (`BeginFails`,
`ConfigFails`, `QueryFails`, `ReadFailsLocked`) ends the handler and does what
the code defers, and only that; `left` remembers that a goroutine ended so with the
lock.

Programs have what the code does under the read lock, also where that is
questionable: a request for data looks up the access of its login while it holds the
lock, and if that is not cached it queries the pool and takes the lock a second time
(`data.go:22`, `LoadAccess`); the API holds the lock while it queries the pool, begins
a transaction and gets the data (`api.go:144-183`); the calendar does the same with
`ics_mx` in between (`cache_ics.go:17-25`).

`updateSchemaCache` only adds to the maps of entities or overwrites what they have:
`cached` is the version the entities that exist are of, `relics` are deletions whose
entity is still in the maps, which it is until the node restarts. A schema change may
delete something or not (`NewSchema`).

The access of one login is part of it: `LoadAccess` computes it from the
schema and the roles it has read, changes of roles (by an admin or by the LDAP
import) renew it if it is cached, and so does a reload. A login that the directory has
inactive is disabled without a renewal (`ImportInactive`). `SettledAccessIsCurrent`
says that the cached access of an active login is that of its current roles once nobody
is at work, unless two loads overlapped, or a load of a login that was not cached
yet overlapped a change of its roles (the renewal then found nothing to renew,
`cache_access.go:57`).

Left out there: other locks that are never held while waiting (`access_mx`),
the hub, HTTP handlers other than the API, and what requests do to the data.

### Hub

`Hub.tla` models the websocket hub. The hub's goroutine is `clients` (its map), `todo`
and `current` (the event it is passing on) and `closing` (the client whose `write_mx`
it waits for); it takes something new only in `Selects`. A client has a connection
(`link`), a reader, and goroutines that write to it: `waiting` for `write_mx`,
`writing` with it, `failed` with it while they wait for the hub. Before the hub passes
on `schemaLoaded` it reads the caches of schema and presets under their locks
(`websocket.go:173-182`): `reading` are those it still has to take, `renewing` those a
reload has taken. A message is an id, and `got` remembers where it arrived.

| action | code |
|---|---|
| `Connect`, `HubAdd` | `Handler` offers the client to the hub, which starts its reader |
| `ReadMessage`, `ReadFromBlocked`, `ReadFails` | `client.read` and the goroutine of a request |
| `TakeLock`, `Written`, `WriteFails` | `client.write` |
| `Send`, `HubEvent` | the bounded channel `WebsocketClientEvents`; a source sends in order |
| `HubReads`, `RenewCache`, `CacheRenewed` | the hub takes the read lock of a cache; a reload takes and frees it |
| `HubTells`, `HubKicks` | one turn of the loop over the clients |
| `DelFromReader`, `DelFromWriter`, `DelFromRequest` | the hub takes a client from `clientDel`; the sender goes on |
| `HubCloses` | the second half of `removeClient`, once `write_mx` is free |

A response waits for `write_mx` from the moment the message is read, which
covers any time the request takes. A target is a set of clients: logins,
devices and addresses are left out, and with them a login that changes while an
event is passed on. Messages of one client may overtake each other, as in the
code. Who else holds slots and the schema lock is in `SchemaReload`.

### Client

`Client.tla` models the browser's page: the websocket object and its
transactions, `app.js` from connecting to the running app, `login.js`, and the
collections. JavaScript runs one handler at a time: each is one action, together
with the promises that are settled by its end. The state of the page is one
record, `page`, and a function of the code is an operator that takes a page and
returns it changed, so an action reads like the handler it models.

| action | code |
|---|---|
| `Open`, `OnClose`, `Tick` | handlers of the connection; the reconnect loop of 2 seconds |
| `Handle`, `Receive` | the server answers a transaction, and the page gets the answer |
| `ReceiveNews` | `wsBackendRequest`: events the hub sends |
| `Fetching` | `initSchema`: downloads of modules, which end in any order |
| `KeysDerived`, `CaptionsLoaded`, `CaptionsFail`, `CaptionsLost` | asynchronous parts of the login; the server answers that it has no captions, or is not reached |
| `Login`, `Logout`, `Query`, `Cancel` | the user |
| `SchemaLoading`, `SchemaUpdate`, `SchemaDelete`, `SchemaDate`, `SchemaUndated`, `SchemaLoaded` | the parts of a schema change that a page can tell apart: events, schema files, dates of change |

A date of change is a second: `SchemaDate` either dates a module anew or gives it the
date it has, for a change in the same second, and `SchemaUndated` is an update that
fails after the modules were changed and before they were dated, with `schemaLoaded`
sent all the same (`cluster_tasks.go:265`). No page fetches such a change, so
`SchemaIsCurrent` speaks of modules whose last change is dated. The request of the
public data may fail, which the page only reports (`app.js:588`).

`cut` names what was under way when it lost its connection or was overtaken;
the properties name the causes under which they do not hold:
`start` and `login` (a start of the app, or a login, goes on with the next
connection), `replaced` (the close of an old connection is reported when the next
is open), `dates` (dates of change came without the modules), `overlap`,
`overtaken`, `fetch` (downloads that overlap, change places or fail), `captions` (the
server was not reached for the captions: nobody handles that, and the overlay of the
login stays) and `public` (the request of the public data failed: no login is offered).
`InputIsFreed` also excuses a page whose `initSchema` ended with an exception.

### RecordForm

`RecordForm.tla` models `form.js` for a relation with a plain or encrypted
attribute, a relationship, and the joined relation it refers to. `form` holds the
data of the component, again with operators for its functions (`Get`, `SetRows`,
`ResetRecordMeta`, ...); an action ends where the code awaits.

| action | code |
|---|---|
| `Type`, `Relate` | a field gets a value, the one it had, or none; a relationship is chosen or cleared, and its joined record loaded |
| `SaveRecord`, `FunctionSaves` | `set`, by button, keys, or a form function; waits for keys of records (`Set`) |
| `Encrypted`, `EncryptFails` | a value is encrypted; then the request is sent (`SendSet`); or it cannot be (`HandleEncErr`) |
| `OpenRecord`, `OpenNew`, `Refresh` | another record, a new one, or the same again |
| `DelAsk`, `Del` | the dialog, and its button |
| `HandleGet`, `HandleSet`, `HandleDel`, `Fails`, `Receive`, `Cancel` | requests and their answers |
| `Decrypted`, `DecryptFails` | the rows of a record are decrypted; or the key or the value cannot be, or there is no key, and the encrypted value is shown |

Requests remember what the user saw when he asked for them (`shown`, `changed`,
`before`), which is what the properties compare them with. `crossed` names the
exceptions, each of which the code can run into:

* `switched`: a record is opened or loaded again while one is loaded or a save waits,
  also the one that the answer of a save loads; `related`: a record is related in such
  a time; `early`: a save begins in such a time, or in a form that could not be loaded.
* `cleared`: a relationship was cleared. `indexMapRecordId` of the joined record stays
  (`form.js:1368`), and a later save writes to the old one. `unjoined`: the request for
  a related record failed or was cancelled, which is only reported (`form.js:1415`),
  with the same result.
* `unloaded`: the request for a record failed or was cancelled: `loading` stays set
  (`form.js:1325`), and after a save the values stay, without the ids they are of.
* `cancel`: a request was cancelled: who waits for it never goes on. `function`: a form
  function saved, which does not look for a save under way. `asked`: the form went on
  under the question whether to delete.

Fields that are restored or cleared while a save waits for keys or an encryption are not
in its request any more (`form.js:1506`): `SavesAllChanges` says that a field that was
changed when the user saved is in the request or has its original value again. Which
property needs which exceptions was settled by its proof.

### FileStore

`FileStore.tla` models files from the upload to the clean up. `refCounter`,
`versions`, `links`, `records`, `spool` are tables; `disk` is the directory;
`job` are goroutines that store a file, `cleaner` the clean up, `page` the file
input of a form. A transaction or statement is a step, and so is an operation on
the disk. The content of a file is who wrote it, and so is its hash.

| action | code |
|---|---|
| `UploadNew`, `UploadVersion`, `Paste`, `Attach` | what starts to store a file, with what it reads at that time: `SetFile`, `CopyFiles`, `mail_attach` |
| `WriteFile`, `HashFile`, `StoreFile`, `JobFails` | the steps all of them share |
| `UploadDone` | the answer reaches the input |
| `OpenRecord`, `RemoveFile`, `Save`, `SetRecord`, `SetFails` | file input and form; the request to save, which goes on if the form opens another record |
| `DelRecord`, `FileRestore`, `DropAttribute`, `MailArrives` | others who change the database |
| `CleanLinks`, `ListVersions`, `RemoveVersion`, `VersionInUse`, `DeleteVersion`, `ListFiles`, `NextFile`, `DeleteFiles` | `cleanUpFiles`, in its order |
| `Crash` | the process ends between any two steps |

Retention by date is a free choice of a subset. `cut` names the exceptions, all of
which the code can run into: `listed` (a file is saved to a record after a clean up
listed it as unused), `raced` (two uploads write the same version, of the file or of
one that is being copied), `rewritten` (an upload writes a version whose file a clean
up has deleted and whose row it has not), `strayed` (an upload ends while the form
shows another record), `parallel` (two executions attach the same mail), `orphan` (a
failed or interrupted upload leaves its file on disk), `lost` (a clean up that ended
between disk and row, and files of a dropped attribute: their rows stay, since the
second loop skips versions that are not on disk, although its comment says that
"either case we delete the file reference"). Without any one of these names TLC shows
a counterexample.

## Runs

| run | bounds | shows |
|---|---|---|
| `scheduler` | one task of the master with a repeated schedule and one function with a "once" schedule; 2 executions at once, 2 changes (of the role, of tasks, or imports), 1 run by hand, time 1..2, restart channel of 2, no failing loads | `TypeOK`, `OneExecutionPerEntry`, `RunningIffExecuted`, `ListFitsRole`, and no deadlock |
| `scheduler_live` | a task of all nodes and the function; 1 execution at once, 2 changes, 1 failing load, restart channel of 1 | `RestartTakesEffect`, up to `Jammed`, which is reached |
| `scheduler_parallel` | as `scheduler`, without a run by hand | violated: `NoParallelExecution`. A reload forgets what is running |
| `cluster` | 2 nodes, 3 starts, 1 mishap (late check-in, failing batch or deleted node) | `TypeOK`, `OneMasterRow`, `RoleWasAssigned`, `RoleFollowsDatabase`, and `RoleIsImplemented`: it implements `MasterRole` |
| `cluster_live` | 2 nodes, 2 starts, 1 deletion of a running node | `MasterIsRunning` |
| `schema_reload` | 3 goroutines, 3 of ten programs run in any combination, 2 slots, 3 connections, 1 failure | `TypeOK`, `SettledCacheIsCurrent`, `SettledAccessIsCurrent`, `NoOtherCircle`, `CacheNeverGoesBack` |
| `schema_reload_hang` | 2 goroutines, 2 programs, 4 connections | violated: `AllEnd`. A request that takes the read lock twice and one reload hang the server |
| `hub` | 2 clients, both may lose their connection, one is removed by maintenance mode or by its blocked host; 2 events (a new schema, maintenance mode), channel of 1, 1 request, reloads that renew the schema cache at any time | `TypeOK`, `HubStuckByRemovalOnly`, `LostClientsLeave`, `EventsArrive` |
| `hub_stuck` | 2 clients, both removed by an event, one may lose its connection | violated: `KickedClientsLeave`. The hub waits for a writer that waits for the hub |
| `client` | 1 module, 3 places for connections; an admin that stays logged in or a user that does not, with any two mishaps; news or a schema change with a lost connection, two schema changes of which one is not dated | `TypeOK`, `AppIsAuthenticated`, `InputIsFreed`, `LoginIsFreed`, `SchemaFollows`, `LoginComesBack` |
| `form` | 2 records of each relation; a plain or encrypted form of a new record or of record 1; the user types and saves, and any two other things happen (failures of requests, keys and encryptions among them), or he types or saves twice and any other thing happens, or he types three times | `TypeOK`, `WritesShownRecord`, `SavesAllChanges`, `UpdatingIsAttempted`, `CreatedOnce`, `UpdatingEnds`, `FormIsReady` |
| `files` | 3 files with 2 versions, 2 records, 2 mails, 2 goroutines that upload and 2 that attach; one upload of the input, saves and clean ups without limit, and any two other things or one of them twice | `TypeOK`, `RecordsKeepFiles`, `StoredIsKnown`, `FilesOfTheirRecord`, `MailAttachedOnce`, `UnusedIsRemoved`, `MailsAreAttached` |

Why these bounds are enough to be of interest. Scheduler: two changes give two
reloads, so a goroutine can outlive the list it started under, and the next;
two executions at once and a third one waiting is what the flag is about; two points
in time let an entry become due during an execution. A larger instance (the repeated
task of all nodes and the one of the master together) does not fit into minutes; which
tasks and schedules there are matters to the loading of the list only, which the
theorems cover for all. Cluster:
the interesting conflicts are between two nodes; three starts allow a node to
be master, crash and return while the other took over. For liveness the mishap is the
one that lasts, the deletion of a node; with late check-ins, too, the run takes too
long. SchemaReload: one goroutine more than there are slots, so the limit is reached;
three programs overlap at any point. Hub: the conflicts are between
the hub, a writer that has the mutex and one that waits for it; two events
and a request give a client that many writers; a second client shows whether
the first one holds it up. Client, form and files bound what happens, not when:
each mishap is an action that may come at any time, and any two of them may meet
(`AnyTwo`, `FormsUsed`, `FilesUsed` in the MC modules), which is what each of the
named exceptions needs. A third place for a connection is needed for one that
closes, one that opens and one that is open. Two records are enough to confuse
one with the other. A version 1 besides version 0 is enough for an old and a
latest one; one file number is kept free for mails, so that a repeated attempt
does not run out of them; a mail has one attachment.

`schema_reload` has programs that can hang the server, since the code has them, and
`NoOtherCircle` says by what: no connection is free (transactions hold them all whose
handlers ask the pool for another one, or failures have lost them; the default of pgx
is the number of CPUs, at least 4, and nothing makes it larger than the number of
transactions), a goroutine ended with the lock (`metaQuery`, see `hazards`), or one
with a read lock waits for a second one behind a writer. Of slots, mutexes and the lock
as such, alone or together, there is no circle. `schema_reload_hang` shows the third
case with two goroutines, against the comment of `hubRequestLimit`. `NoOtherCircle` is
stated with `Waits`, the guards that others have to make true, and not with `ENABLED`,
so that it can be proved. Which goroutines then wait is no matter of fairness, as
programs are finite.

`hub` lets clients fail that the hub removes for another reason. Then it may stop for
good, as `hub_stuck` shows; the code does nothing against it. `HubStuckByRemovalOnly`
says that nothing else stops it, and the other properties hold until it does (`Stuck`).
Events that kick one login (`kick`) have a run of their own, `hub_stuck`; in `hub` only
maintenance mode kicks.

Deadlock is checked in `scheduler` and `scheduler_parallel`, whose channel has room for
all requests; not in `scheduler_live`, where `Jammed` is one. It is off for the cluster,
whose nodes may all be stopped for good, for `Client`, `RecordForm` and `FileStore`,
whose users may stop (`InputIsFreed`, `LoginComesBack`, `UpdatingEnds`, `FormIsReady` and
`MailsAreAttached` say what may not), for `Hub`, which is idle without events and
clients and may be stuck (`HubStuckByRemovalOnly`), and for `SchemaReload`, where goroutines
wait for requests (`NoOtherCircle`).

## Fairness

* Scheduler: weak fairness of the loop, of the senders, of changes that wait to be
  told (each is told or lost) and of the steps of a transfer, strong fairness of the
  restart listener and of the end of an execution. The loop is a goroutine that sleeps
  a second and runs again, an execution is a goroutine, and Go runs every goroutine
  that can run. Both strong ones wait for `change_mx`, which the loop takes and frees
  again and again: Go's mutex hands itself to a waiter that has waited too long. Loads
  fail a bounded number of times. No fairness for role changes, runs by hand or task
  changes.
* Cluster: weak fairness of both tasks of a node (the scheduler runs them every
  few seconds on all nodes), of finishing a start or a shutdown, and of time
  for a node that does not run. None for starts, crashes, pauses and deletions:
  `MasterIsRunning` assumes that nodes keep running in the end.
* SchemaReload: weak fairness of the next step of each goroutine. Timeouts are
  possible but not fair, nothing relies on one.
* Hub: strong fairness of the read locks the hub takes (a writer that gives the lock
  back lets waiting readers in first), weak fairness of its other steps, of the end of a
  reload, of a failing reader, of waiting for a mutex and
  of writing, per client. A write ends: TCP gives up on a connection that does
  not answer. None for clients, requests and events. The bounded instance has
  no cycles other than that of reloads, so no goroutine is overtaken forever and weak
  fairness is enough for the rest; Go's mutex and channels serve waiters in their order.
* Client: weak fairness of the reconnect loop (`setInterval`), of the browser's
  connections (opened, or reported closed), and of answers, in any order. None
  for the user, for refused or lost connections, and for changes of the schema.
* RecordForm: weak fairness of answers, decryption and encryption. None for the
  user.
* FileStore: weak fairness of a goroutine that has started to store a file, of
  the clean up and of the request that saves (the scheduler runs the clean up
  daily; goroutines end), strong fairness of taking a mail: the task runs again and
  again and takes all mails each time, but the attribute, a running execution or a
  lack of file numbers may keep it from the next. None for users and failures.

## Proofs

What a run shows on a small instance the theorems show for every value of the
constants: any sets of nodes, tasks, clients, records, files, modules, and any
bounds, which then bound nothing. Each theorem has the property of the run, as it
stands, in its statement; conditions are hypotheses and are named below.

`Scheduler_proofs.tla`, from `SchedulerAssumption` (sets of names and schedules
that fit together, finite; natural bounds):

* `TypeCorrect`: `TypeOK` is an invariant.
* `OneExecution` and `RunningIsALock`: as long as no load has failed
  (`loadErrors = 0`), no entry of one load is executed twice at a time, and its
  flag `running` is set exactly while it is executed. The inductive invariant adds
  that the generation of an execution is not newer than the load counter, that one
  of the current load has an index of the list with the flag set and the same
  task, and that two of the current load have different indexes. It needs a reload
  to raise the counter: a failed load empties the list and does not, hence the
  condition.
* `SettledListFits`: `ListFitsRole`, with failing loads. The invariant (`Fit`) says
  where the reason for a list that does not fit is: in the restart channel, in a
  sender, in a change that is to be told or an import that is, in the loop that is about
  to load, or in `missed`; a half-built list is a prefix without repetitions.

`Cluster_proofs.tla`, from `ClusterAssumption` (natural bounds; `Nodes` is any
set):

* `TypeCorrect`: `TypeOK` is an invariant.
* `OneMaster`: the database has at most one master; only `SwitchMaster` sets
  the role and it first takes it from all nodes.
* `RoleIsAssigned` and `RoleAgrees` follow from `AllGood`, an invariant per
  node: what a node's events, its inbox and its role may say in each state of
  its life. `Told` is the core: the state the database gives to a node that is
  up is the last thing it was sent, waits in its events or inbox, or is its
  role already. A step of a node changes nothing of another one (`OthersSame`),
  except a switch, which sends every node its new state (`SwitchStaysGood`).
* `ImplementsRole`: `Spec => Role!Spec`. Each action of `Cluster` is mapped to the
  step of `MasterRole` it makes or to none; the invariants above give what the
  abstract guards ask for: only a node with an event or inbox of since its start
  may act (`RoleWasAssigned`), and who requests is a candidate.

`SchemaReload_proofs.tla`, from `SchemaReloadAssumption` and `OrderlyPrograms`.
Theorems about any programs would be false, so the hypothesis says how a handler
nests what it takes. What a program holds and still owes is a record (`Held`: things,
connections, read locks, debts); each step has a rule when it is allowed (`May`) and
what it changes (`After`), and a program is *orderly* if all its steps are allowed and
it holds and owes nothing at its end. So it does in the lock what needs it, ends each
transaction it began, never waits for a slot or as a writer with a read lock, holds
mutexes for little, stores what it read, and renews the access after what changes it;
it may take a second read lock and ask for connections under any lock. The invariant
says the same of what is left of each program, `Fits`, for what its task holds.

* `TypeCorrect`, with the connections counted one by one (`Taken`), so that free
  and taken ones always are the pool.
* `CacheGoesForward`: `CacheNeverGoesBack`. Who is about to store a schema has the
  lock, hence what it read is not older than what is there.
* `CacheSettles`: what is not current has its renewal ahead, as a debt of a task; the
  maps have all deletions they were told of, and lose none. `AccessSettles`: the same for
  the roles, with the one load that has read them.
* `ProgramsAreOrderly`: the hypothesis holds of all programs of the module, those that
  take the read lock twice and those that query the pool under a lock included.
* `NobodyElseWaitsInACircle`: `NoOtherCircle`. If all waited, with a connection free, no
  lock left behind and nobody waiting for a second read lock: who has a mutex goes on,
  then the writer if no reader is left, or a reader; then nobody waits for the lock, and
  who has a slot goes on.

`Hub_proofs.tla`, from `HubAssumption` (events are what sources send, natural
bounds):

* `TypeCorrect`: `TypeOK`, for all clients, stuck ones included.
* `HubStuckOnlyByRemoval`: `HubStuckByRemovalOnly`, for all clients. The inductive
  invariant says per client that who waits for the hub has set `ioFailure` before
  (`Said`), so the hub takes no lock to remove it for that; that it takes
  that lock only for a client an event kicks or whose host is blocked (`NoLock`); that a
  write fails only on a connection that is lost, and who is in the hub was not
  disconnected by it (`Linked`); and that nothing is done for a client before it is
  offered to the hub (`Unknown`).

`Client_proofs.tla`, from `ClientAssumption`. A page function is known to the
proofs by what it keeps and counts (`Keeps`, `KeepsBy`, `Runs`), proved once each,
so an action is a chain of them. Links are finitely many, as all things that are
created are numbered from them.

* `TypeCorrect`: ids are unique and what is under way fits the request it is of
  (`Fits`), so every answer counts a request down once (`Counted`).
* `BlockedForSomething`: `InputIsFreed`. The counter of the overlay is not higher
  than its reasons (`Slack`): requests that block, downloads, and what the server
  owes after a change it has announced (`Owed`).
* `ShownWithLogin`: `AppIsAuthenticated`, from where a login can still be under
  way (`AllShown`). `LoginEnds`: `LoginIsFreed` (`AllSigned`), with captions that
  fail. Both are conditional on the exceptions of their property, and so are their
  invariants.

`ClientSchema_proofs.tla`, on top of it:

* `SchemaIsFollowed`: `SchemaFollows`. Functions of the page that do not look at the
  schema leave it alone and only send requests (`Aside`); what `initSchema` leaves is
  stated by `SchemaDoneShows` and `InitSchemaShows`. The invariant (`Current`) has
  four parts: no version in any message or download is later than what the server
  hands out now (`PageDated`); if nothing is downloaded the modules are those of the
  dates of change, and a download asks for all that is missing (`ModulesFit`); a page
  with the public data knows the current dates, or news with them are on their way
  and are the latest, or the server is about to send them (`Hears`); and nothing is
  heard on a connection that is not there (`WireFit`). The proof showed that
  `SchemaFollows` has to name `replaced`: with two connections open, old news of a
  deleted module are received on one after the newer ones on the other, what followed
  them is lost with that connection, and late public data seem to confirm it. That
  takes more steps than the run's bounds allow.

`RecordForm_proofs.tla`, from `RecordFormAssumption`: all five invariants.
`Base` has the types, that requests and saves have numbers of their own, and that
a request is under way or decrypted but not both. Each property then has an
invariant of its own, under its own exceptions: one attempt at a time (`OneAttempt`), of
a new record at most one creation in any stage (`CreatesOne`), one row being loaded, and
that of the record shown (`LoadsShown`, `Found`), fields that are changed, or original
again, until the save that has them is sent (`OldNone`, `KeepsChanges`), and the record
shown, its key and its joined record in every stage of a save (`IdsShown`, `SavesShown`,
`SentRight`). Every step is first put into one of a few groups by what it moves
(`Moves`), and each invariant is shown per group. Failing keys, encryptions, decryptions
and requests are steps like others. The proofs showed which exceptions the properties
need: `unjoined`, `unloaded` and `asked` were found this way.

`FileStore_proofs.tla`, from `FileStoreAssumption`: all five invariants.

* `TypeCorrect` (`Base`): the keys of the tables, and the reference counter, which
  the trigger changes by one with each link.
* `MailsAttachedOnce` (`Mailed`): per mail, how many executions hold it and in which
  step decide what is attached. `FilesStayWithTheirRecord` (`Owned`): what the form
  and its requests carry was stored for the record they save to.
* `NothingUnknownIsStored` (`OnDisk`) and `RecordsKeepTheirFiles` (`Kept`): an
  invariant for each step of a clean up and of an upload, that what the clean up is
  about to remove is unused, or old, or cut, and that the latest version stays.
  The proof showed that an upload can write to a path between the removal of a
  file and that of its row; `rewritten` names it.

Only model-checked: what needs fairness or `ENABLED`, which is out of the prover's
reach (`RestartTakesEffect`, `MasterIsRunning`, `LostClientsLeave`, `EventsArrive`,
`LoginComesBack`, `UpdatingEnds`, `FormIsReady`, `UnusedIsRemoved`,
`MailsAreAttached`), and what the runs refute.

## Plan

Done: all modules above, and a theorem for every invariant a run checks.

The runs are at what can be checked in a few minutes each; more parts (sending of
mails, propagation of the configuration, the import) would take their place.

## Not modelled

* SQL text generation (`data/data_query`), DDL of the builder, authentication,
  repository updates, set-up and upgrades of the database, logging, export:
  single statements, strings, cryptography or I/O without state of their own.
* Import, config store, bruteforce protection, sending spoolers: sequential, or a
  map under a mutex. Where other parts wait for them, those modules have it.
* Browser: bulk updates, pop-up forms, sharing of encryption keys with other
  logins, names of files, lists, calendars, builder and admin pages. They show
  rows of a request and send single requests; most of their code is layout,
  options and captions. The libraries in `www/externals` (Vue, Vuex, router,
  charts, QR codes) are most of the repository's JavaScript and not part of this
  program's logic.
* Parts of files: thumbnails, the change log, the temporary directory, forms of
  records that are not created yet.

`PROJECT.json` lists each with its reason.
