# WhatsGate in TLA+

WhatsGate is an HTTP gateway to WhatsApp: a NestJS process that keeps one
headless browser (a whatsapp-web.js client) per session, offers REST endpoints
and a WebSocket, and forwards events to webhooks. This directory holds TLA+
models of the parts of it whose behaviour depends on the order of things, TLC
configurations that check them on small instances, and TLAPS proofs of the
properties that matter most for instances of every size.

Paths below are relative to `src/` of the gateway. Node runs one handler at a
time and switches only at an `await`; so an action of a model is the code
between two awaits, with every synchronous call it makes.

## 1. Inventory

| Component | State | Operations | What is hard | What makes it correct |
|---|---|---|---|---|
| **Session lifecycle** `modules/session/session.service.ts` | table `sessions`; maps `engines`, `reconnectStates` | create, start, stop, delete; `scheduleReconnect`, `executeReconnect`; engine callbacks; `onModuleInit`, `onModuleDestroy` | calls, timers and callbacks interleave at every await; status updates are not awaited; crashes | the map holds live engines; a stopped session stays stopped, a removed one removed; reconnection neither stalls nor runs for ever; a boot repairs the row |
| **Engine adapter** `engine/adapters/whatsapp-web-js.adapter.ts` | the client, status, QR code | initialize, disconnect, destroy, event handlers, some forty forwards | events of an adapter the service has let go of; `toDataURL` awaited in a handler | part of the session model |
| **Bulk messages** `modules/message/bulk-message.service.ts` | table `message_batches`; map `processingBatches` | createBatch, `processBatch`, cancelBatch, status | copies of one row saved by several handlers; a flag set across awaits; stop on error; restart | each message once and in order, none after a cancel, honest progress, an end |
| **Messages** `modules/message/message.service.ts` | table `messages` | send*, reply, forward, react, delete | a row saved before and after the send; a failed save after a sent message | a row never says failed for a message that was sent |
| **Webhook dispatch** `modules/webhook/webhook.service.ts`, `utils/idempotency.util.ts` | table `webhooks` | dispatch, `deliverWebhook` with retries, CRUD, test | duplicates after lost answers; keys meant to deduplicate | retries bounded, one key per event, failure reported once |
| **Webhook worker** `modules/queue/processors/webhook.processor.ts` | BullMQ jobs (Redis) | `process` | a failed row update or hook after a 200 posts again | as above, across both ways of delivery |
| **Hook manager** `core/hooks/hook-manager.service.ts` | map of handler arrays | register, unregister, unregisterPlugin, execute | arrays change under a running chain | a chain calls each registered handler once, in priority order |
| **Plugin loader, storage** `core/plugins/*` | map of plugins; `plugins/registry.json` | load, enable, disable, unload, config | enable and disable overlap at the awaits of lifecycle methods | a disabled plugin has no hooks |
| **API keys** `modules/auth/*` | table `api_keys` | create, validate, revoke, remove; CIDR match | `usageCount` read, incremented and saved across awaits | a revoked key stays revoked; the count |
| **Cache** `common/cache/cache.service.ts` | redis connection, flags | get, set, del, lazy connect | callers during a connect | bounded attempts, one connect at a time |
| **Infrastructure** `modules/infra/infra.controller.ts` | `.env.generated`, docker, import/export | saveConfig, exportData, importData, storage export and import | tables exported by separate queries; an insert failing inside a transaction | all or nothing; what was exported comes back |
| **Storage** `common/storage/storage.service.ts` | files or S3, the probe of the bucket | save, list, export, import | the backend of each moment; files that cannot be read or stored; stream errors | complete archives, honest counts, an import settles |
| **Events gateway** `modules/events/events.gateway.ts` | rooms (socket.io) | connect, subscribe, unsubscribe, emit | overlapping wildcard rooms; messages that overtake one another at the awaits of the listener | subscribers hear every message, plain ones in order |
| **Group, contact, label, channel, status, catalog endpoints** `modules/{group,contact,...}` | none | one engine method each | the engine is fetched once and used across awaits | a success that is answered happened |
| **Shutdown** `common/services/shutdown.service.ts`, `main.ts` | shutting-down flag | signal handlers, `app.close` | calls and timers while engines are destroyed | no engine left in the maps |
| Audit, statistics, settings, health, bootstrap, middleware | tables or none | inserts, queries | nothing that interleaves | - |

How they interact: controllers call services and await them. `SessionService`
registers callbacks with the adapter it creates; the callbacks write the
session row without awaiting it, emit to the gateway, call the hook manager and
`WebhookService.dispatch`. Message services ask `SessionService.getEngine` for
the adapter in the map. The hook manager sits between services and plugins.
With Redis the dispatch adds BullMQ jobs, and the worker of the same process
takes them; without it, it delivers by itself. A batch runs in the background
of the call that created it and shares with `cancelBatch` one row and one flag.

## 2. Modules

    SessionLifecycle          one session: row, maps, adapters, calls, timers
      MCSessionLifecycle        symmetry for TLC
      SessionLifecycleProofs    theorems
    BatchPromise              what a bulk batch promises (abstract)
    BulkBatch                 one batch, implements BatchPromise
      BulkBatchProofs           theorems
    WebhookDelivery           received messages on their way to webhooks
      WebhookDeliveryProofs     theorems
    HookManager               the hooks of an event and the chains that walk them
    PluginLoader              plugins: enable, disable, unload (extends HookManager)
      MCPluginLoader            symmetry for TLC
      PluginLoaderProofs        theorems about both
    EngineRequests            HTTP requests to the engine of a session
    ApiKeys                   a key, its validations and its administration
    GuardedRequests           the composition: requests behind the guard
      GuardedRequestsProofs     theorems about all three
    LiveEvents                incoming messages on their way to WebSocket clients
      LiveEventsProofs          theorems
    DataMigration             export and import of the database
      DataMigrationProofs       theorems
    StorageMigration          export and import of the media files
      StorageMigrationProofs    theorems

### SessionLifecycle

Both maps and the row are keyed by the session id and nothing is shared between
sessions, so one session stands for all.

| Variable | In the code |
|---|---|
| `row` | `sessions.status`; `"DELETED"` once the row is removed |
| `engine` | `engines.get(id)` |
| `client` | for each adapter: no client, launching, QR shown, authenticated, ready, lost (disconnected, `auth_failure`), failed (`initialize()` rejected) |
| `rendering` | adapters awaiting `qrcode.toDataURL` |
| `retry`, `stray` | `reconnectStates.get(id)`: present or not, attempts, a pending timer; and timers still pending although their handle was overwritten |
| `pc`, `held` | the await each call, reconnection run and the shutdown is at, and the adapter it awaits |
| `writes` | `UPDATE sessions SET status` statements under way; an update names the process awaiting it, if any |
| `fresh` | no engine was created since the boot (history) |
| `node`, `calls` | the process is up; calls made (for the bound) |

| Actions | In the code |
|---|---|
| `StartCall`, `StartLaunch`, `LaunchResolves`, `StartRejects` | `start` up to the hook; `initializeEngine` up to `engine.initialize`; its two outcomes |
| `StopCall`, `StopDisconnected` | `stop` around `engine.disconnect()`, which swallows errors |
| `DeleteCall`, `DeleteDestroyed`, `DeleteRejects`, `DeleteRow` | `delete` around `engine.destroy()`, the hook and `remove` |
| `TimerFires`, `ReconnectLaunch`, `DestroyRejects`, `ReconnectRejects` | the timer of `scheduleReconnect`, `executeReconnect` and its catch |
| `QrEmitted`, `QrRendered`, `Authenticated`, `Ready`, `Disconnected` | the adapter's event handlers with the service's callbacks |
| `ApplyWrite` | the database applies an update; it matches nothing when the row is gone |
| `ShutdownBegin`, `ShutdownDestroyed`, `ShutdownRejects` | `onModuleDestroy` |
| `ProcessEnds`, `Boot` | exit or crash; `onModuleInit` |

The adapter's events go on as long as its client exists, whether or not the map
still refers to it: the callbacks are closures over the session id. An adapter
without client, image under way and reference from a waiting process is created
anew by the factory, so a few adapters stand for as many as the code creates.

Abstractions: an update of the status the row is being set to by the callback
of the same event counts once (the adapter's `onStateChanged` and the specific
callback often issue the same status in one step); phone number, push name and
timestamps are left out; `onMessage` does not change the lifecycle. `Ordered`
says whether updates are applied in the order they were issued. With SQLite
they are; a PostgreSQL pool promises no order. Runs that show a flaw use the
ordered database, so that the flaw needs no reordering; the `calls` run uses the
unordered one.

### BulkBatch and BatchPromise

The flag and the row are keyed by the batch id, so one batch stands for all.

| Variable | In the code |
|---|---|
| `row` | the `message_batches` row: status, progress, `currentIndex`, number of results, `completedAt` set |
| `mem`, `loaded`, `seen` | `processBatch`'s entity; whether the save it awaits has read the row, and what it read |
| `flag` | `processingBatches.get(id)`: none, on (true), off (false) |
| `pc`, `i` | the await `processBatch` is at; its loop index |
| `cpc`, `copy`, `cseen` | the same for each `cancelBatch` call |
| `stopOnError` | the option of the request |
| `log`, `signalled` | history: messages begun, in order; a cancel reached a running `processBatch` |

`repository.save(entity)` of TypeORM is a SELECT and then an UPDATE of the
columns that differ from what was selected; `progress` is one JSON column. That
is `SaveReads`/`Save` and `Written`: two saves of one row can mix their columns.
`Loop`, `Delay`, `Proceed` and `Finish` are the pieces of the loop body between
awaits. `ProcessingBreaks` is a rejected query of `processBatch`, `CancelBreaks`
one of a cancel, `Restart` the end of the process; nothing takes a batch up
again. Template substitution and the kinds of messages are data no property
looks at.

`BatchPromise` is what the person on the list and the person who cancels can
expect: messages are begun in the order of the request, none twice, none after
the cancellation. `BulkBatch` implements it with `halted <- signalled`. A cancel
that arrives before `processBatch` has read the row is not signalled to anyone:
line 132 sets the flag unconditionally afterwards, and the batch is sent. That
is a known behaviour of the code, listed as a hazard.

### WebhookDelivery

Received messages on their way to the webhooks of one session. A dispatch
serves the webhooks it found one after the other; the dispatches of several
messages overlap, and `onMessage` awaits none of them.

| Variable | In the code |
|---|---|
| `queued` | `queueEnabled` with a queue, fixed by the configuration |
| `at`, `cur`, `left`, `found` | for each message: the await its `dispatch` is at, the webhook of its loop, those to come, those the query returned |
| `attempt` | the parameter of `deliverWebhook` |
| `key` | the idempotency key of the dispatch |
| `jobs` | the BullMQ job of a delivery: where it is (waiting covers delayed), `attemptsMade`, stalls |
| `posts`, `said` | history: posts begun, outcomes reported to hooks, for each delivery |

| Actions | In the code |
|---|---|
| `Dispatch`, `Found`, `Cancelled`, `Deliver`, `Reported` | `dispatch`: the query, the hook before, the choice of queue or direct delivery, the hooks after |
| `Answered`, `Updated`, `Fails`, `Waited` | `deliverWebhook`: a 2xx answer, the update of `lastTriggeredAt`, the catch, the delay and the next attempt |
| `AddStores`, `AddResolves`, `AddRejects` | `webhookQueue.add`; the job is in Redis before the promise resolves, and may be there although it rejects |
| `JobStarts`, `JobAnswered`, `JobUpdated`, `JobFails`, `JobCompletes`, `JobExhausted` | `WebhookProcessor.process` |
| `Restart` | the process ends: dispatches are lost, jobs are in Redis |

BullMQ is modelled from its use: the worker runs one job at a time (no
concurrency is configured), a job that throws is taken again until
`attempts = retryCount` are made, and a job that the worker held when the
process ended has stalled and is taken again `maxStalledCount` times (1 by
default). A worker that holds the only slot cannot lose it to another, for there is
one process. Hooks do not reject: `HookManager.execute` catches what handlers
throw. Webhooks are served in the order of a query without ORDER BY, so in any
order. A query that rejects ends the process, since the dispatch is not awaited:
that is `Restart`. Headers, signatures, payloads that plugins change, and the
endpoints for webhooks are left out.

Of `generateIdempotencyKey` the case of received messages is modelled, with
`toStr` as it is: no value reads `unknown`.

### HookManager and PluginLoader

Hooks of different events share nothing but `pluginHooks`, so one event stands
for all. `hooks` is its array, sorted by priority; `tracked` the plugins with an
entry in `pluginHooks`; `chains` the calls of `execute`, each at the handler it
awaits. `register` and `unregister` change the array under the iterator of a
chain, `unregisterPlugin` replaces it and leaves the old one to the chains
(`apart`, `walked`). The id of a hook holds a millisecond, so two hooks of a
plugin may share it, and `unregister` then takes the first. What a chain has
called and what was registered when it began are history.

| Variable of PluginLoader | In the code |
|---|---|
| `status`, `loaded` | the instances in the map `plugins` and their status |
| `registry` | `registry.json`: the entry of each plugin, if any |
| `pc`, `plugin` | the lifecycle method (`onLoad`, `onEnable`, `onDisable`, `onUnload`) each call awaits, and of which plugin |

| Actions | In the code |
|---|---|
| `EnableCall`, `OnLoadResolves`, `OnEnableResolves`, `EnableRejects` | `enablePlugin` between its awaits, and its catch |
| `DisableCall`, `Disabled`, `DisableRejects`, `UnloadCall`, `Unloaded` | `disablePlugin`, and `unloadPlugin`, which begins with it |
| `RegisterHook`, `Unregister` | a plugin's `context.registerHook`, and `hookManager.unregister` |
| `UpdateConfig`, `Restart` | `updatePluginConfig`; a new process and `onModuleInit` |

Plugins are assumed to register hooks while their `onLoad` or `onEnable` runs,
as the ones in the repository and its documentation do. No code calls
`setPluginEntry`, so the registry stays empty in every run: `SetPluginStatus` is
modelled with its early return.

### EngineRequests, ApiKeys and GuardedRequests

`EngineRequests` has every route that ends in a method of the engine: some forty,
as records in `Endpoints`. A method is the sequence of its awaits after
`ensureReady`, each of a kind that matters: a download, a read, an act at
WhatsApp, a stub that throws; and whether it catches errors. An endpoint adds
the answers without an engine and for null, and, for messages, whether a row is
kept, media are checked and plugins asked. A request is taken through the
record of its endpoint: `Begin`, `MediaRefused`, `Asked`, `SessionFound`, `Inserted`;
`StepResolves`, `FindsNull`, `Acts`, `ActResolves`, `StepRejects` within the
method; `Saved`, `SaveFails`, `Marked`, `MarkFails`, `Told` after it. `Acts` is
WhatsApp doing what was asked, and comes before the answer, which may be lost.
A rejected write of the row may have been done. The session around it
(`EngineStarts`, `EngineReady`, `EngineLost`, `EngineCloses`, `EngineDeleted`,
`SessionDeleted`) is the part of SessionLifecycle that a request can notice:
which adapter the map has, which adapters have a client, which of those are
ready, and whether there is a row. It contains everything SessionLifecycle does
to these, which is a theorem (`SessionIsTheirs`). Which endpoint a request is
for is chosen when its handler is called.

`ApiKeys` has one key: keys share nothing. A call of the guard is
`UseCall`, `SearchRefused` or `Searched`, and the save of the entity it read; the
administrator's calls are `AdminCall`, `Found`, `Removed`, and the same save.
`KeySaveReads` and `KeySaved` are TypeORM's save, as in BulkBatch: it reads the
row, writes the columns in which the entity differs, and inserts the entity when
the row is gone. The address, session and role of a call are its `origin`, and a
key lists those it admits.

`GuardedRequests` composes the two: a request enters its endpoint once its call
of the guard is admitted, every other step is of one of the two alone, and a
restart is of both.

### LiveEvents

| Variable | In the code |
|---|---|
| `handlers` | whether a plugin has a handler for `message:received` |
| `messages` | for each message the await of the adapter's `message` listener, or of `onMessage`, it is at |
| `arrived` | the order in which the client emitted them (history) |
| `clients` | sockets, and the rooms they are in |
| `heard` | what was emitted to each socket, once for every room it is in |

`Arrives`, `Downloaded` and `QuoteFound` are the listener between its awaits, of
which a plain message has none; `HandOver`, `HooksResolve`, `HooksStop` are
`onMessage`; `Connect`, `Validated`, `Leaves`, `Subscribe`, `Unsubscribe` the
gateway, which handles the messages of a socket while its key is validated.

### DataMigration and StorageMigration

`DataMigration` has the data database: sessions, webhooks (one for each session,
with the foreign key and its cascade) and messages, which stand for batches as
well. `ExportSessions`, `ExportWebhooks`, `ExportMessages` are the queries of
`export-data`, with the gateway writing between them. `import-data` is one
transaction: `DeleteWebhooks`, `DeleteMessages`, `DeleteSessions`, then one
`INSERT` for each row (`InsertSession`, `InsertWebhook`, `InsertMessage`), whose
failure is a warning to the code and the end of the transaction to PostgreSQL
(`tx.aborted`), then `Commit`. Rows that the transaction touched are locked for
the gateway. `ChangeDatabase` is a restart with another, empty database.
PostgreSQL, the transaction and its locks are external.

`StorageMigration` has the choice of the backend (`SaveConfig`, `StorageRestart`),
the probe of the bucket, which nothing waits for and during which the disk stands
in (`Probed`, `Backend`), `createExportStream` (`ExportBegins`, `Listed`, `Read`,
`Exported`) and `importFromStream` (`ImportBegins`, `Entry`, `EntryEnds`,
`Imported`). Reading the disk is synchronous and so one step, reading the bucket
is not. One export and one import at a time.

## 3. Runs

| Run | Instance | Shows |
|---|---|---|
| `calls` | 2 adapters, 2 calls, 2 reconnection runs, 1 attempt, unordered updates, crashes and shutdown | `TypeOK`, `MapHoldsClient`, `RestartResets`, `DeletedStaysDeleted`, `StoppedStaysStopped` |
| `reconnect` | 2 adapters, 1 call, 1 run, 2 attempts, fairness | `NoStall`: with attempts left a dead engine has a timer or somebody at work; `ReconnectSettles`: the loop ends |
| `stop` (violated) | 2 calls, 1 run | `StopCancelsReconnect` |
| `batch` | 3 messages, saved every 2, 2 cancels | `ResultsMatchCounts`, `ClaimsNoMore`, `ProgressAddsUp`, `CompletedMeansTried`, `Promised`, `Ends` |
| `batch_cancel` (violated) | 2 messages, 1 cancel | `CancelledStays` |
| `webhook` | 1 message, 2 webhooks, 3 attempts, 1 stall, fairness | `BoundedPosts`, `ErrorMeansExhausted`, `EveryoneServed`, `VerdictIsFinal`, `Settles`, direct and queued |
| `plugins` | 2 plugins, 2 priorities, 2 calls, 1 chain, 2 hooks in the life of a process | `HooksAreTracked`, `DisabledIsSilent`: no hook outlives the disabling of its plugin, however calls overlap; `NoneSkipped`, `NoneRepeated`: what a chain calls while its array changes |
| `requests` | 1 request of any endpoint, 2 adapters, 1 key, 2 calls that use or administer it, 2 uses | `OkMeansDone`, `RowBeforeMessage`, `NoLimbo`, `OneVerdict`: answers, rows, hooks and WhatsApp agree; `AnswersAreCurrent`, `OffStaysOff`: the guard and revocation; `SendingIsRecorded`: what was sent is put on record |
| `events` | 2 messages, 2 sessions, 1 event, 1 client | `PlainInOrder`, `SubscribersHear` |
| `data` | 2 sessions, 1 message | `RoundTrip`: an undisturbed export and import bring everything back; `AllOrNothing` |
| `imported` (violated) | 1 session, 1 message | `ImportedMeansReplaced` |
| `storage` | 2 files, fairness | `ArchiveIsComplete`, `ImportedIsStored`, `ImportSettles` |

### Bounds and why they are enough

* `Engines` = 2: one in the map and one that survived outside it; closed ones
  are created anew. `Calls` = 2 and `Runs` = 2: every race found needs two
  handlers that wait at the same time; more of them only repeat the pairs.
* `MaxAttempts` = 1 where calls interleave and 2 where the retries themselves
  are looked at (a first and a last attempt; the code's default is 5).
* `MaxCalls` = 2 bounds the calls of a behaviour; `MaxStray` = 1 the timers that
  lost their handle; `MaxWrites` the updates under way. A step that would go
  beyond waits; a client event or timer that has to wait happens later.
* A QR code is refreshed only when the last update and image are done (the
  library refreshes every 20 s). Without it nothing but QR codes would fill
  `MaxWrites`.
* `N` = 3 and `SavePeriod` = 2 give a message after a save, one without a save
  and the last one, which is always saved. The code has 10 as period; only
  whether an index is on it matters.
* One message to two webhooks: what they share is the loop of one dispatch and
  the one worker, and two jobs compete for it. `RetryCount` = 3 has a first, a
  middle and a last attempt; `MaxStalls` = 1 is BullMQ's default. Dispatches of
  two messages share only the worker; the proofs are for any number.
* `plugins`: two hooks can be in front of, at and behind an iterator, and of the
  same plugin or two; two calls are an enable and a disable, or two enables, of
  one plugin. `MaxHooks` counts registrations of a process and of the clock that
  ids are made of; a restart begins anew.
* `requests`: requests share the engine and the session only, which move by
  themselves here, so one stands for each; `Begin` and `MediaRefused` take any
  endpoint. Two calls with the key are two validations, or a validation and a
  change of the key; `MaxUses` = 2 lets both count.
* `events`: order needs two messages, the rooms of either two sessions. Clients do
  not notice each other, so there is one, and the other events have rooms of
  the same form.
* `data`: a session that was exported and one that came since; messages have no
  constraint but their key.
* `storage`: a file that fails and one that does not, or one on each backend.

### Fairness

Handlers that await something the runtime answers are weakly fair: a launch and
a destroy end because the browser driver times out, timers and hooks run
because the event loop does, the database answers. Outcomes are not: it is
launch *or* reject that is fair. Callers owe no call, clients no event, the
process need not crash. In `reconnect`, `MaxWrites` is 3 so that the bound never
stays closed to a step for good: `ApplyWrite` is fair and no other step
can fill three places on its own. In `batch`, `Processing` is one fair
action because `processBatch` is one sequence of awaits; in `webhook` a dispatch
is one for each message, and the worker is one: posts time out, delays and hooks end,
and the database and Redis answer. A process that ends may lose a dispatch, so
`Settles` allows for it; stored jobs outlive it. In `requests` the database
answers a request's writes and the client answers a call or rejects it, because
whatsapp-web.js runs its calls over a protocol with a timeout; nothing is assumed
of downloads, of plugins or of administrators. In `events` the client answers a
download and a search for a quoted message; nothing is assumed of handlers, so
`SubscribersHear` allows for a message that a plugin keeps. In `storage` disk,
bucket and archive answer; exports and the probe owe nothing. The violated action
properties use the fair specifications too, though no fairness is needed to
reach the steps that break them.

## 4. What the runs found

1. **Stop does not stop** (`stop`). `cancelReconnect` clears the timer, but an
   `executeReconnect` that awaits `oldEngine.destroy()` goes on to launch a new
   engine for the stopped session.
2. **Cancelled, then processing** (`batch_cancel`). `processBatch` saves its
   copy over the row a cancel has written.
3. **Imported: true, and nothing was** (`imported`). An insert that fails is
   caught and made a warning, but PostgreSQL has aborted the transaction: every
   later row fails too, the COMMIT rolls back without an error, and the answer
   counts rows that are not there. `AllOrNothing` shows that the tables at
   least stay whole.

Other properties of the modules are stated next to the ones that are checked
and are false of the code; TLC shows it when one is added to the configuration of the run
in brackets:

* `OneClient` (`stop`, with two calls): `start` checks the map, awaits a hook and sets
  the map later, so two calls both pass and one client is lost from sight.
* `QrCodeIsAnnounced` (`stop`): after `initialize()` resolves the status is set
  to `initializing` whatever was reported meanwhile.
* `CompletedMeansProcessed` (`batch`): `stopOnError` leaves the flag set, and the
  final update turns FAILED into COMPLETED.
* `KeysTellMessagesApart` (`webhook`, with two messages): `toStr(undefined)` is
  `unknown`, so `|| toStr(data.id)` is never reached, and a received message has
  an `id` and no `messageId`: every one is posted as `msg_unknown`.
* `LowerRunsFirst` (`plugins`): a hook with a lower priority that is registered
  while a chain runs moves the array and makes a handler run twice, or comes
  after those of a higher one (`hook.interfaces.ts:48` says that lower runs first).
  Nothing else breaks the order, which is proved (`HandlersInOrder`).
* `StatusPersists` (`plugins`): `setPluginStatus` changes only an entry that
  exists, and nothing makes one, so no plugin is enabled again after a restart.
* `FailedMeansNotSent` (`requests`): the catch of `sendText` and the others is for the
  save after the sending too, and marks a message that was sent as failed.

Two behaviours are kept as they are and no property forbids them: a message is posted
again when the receiver answered 200 and the update of `lastTriggeredAt` then
fails, and on the last attempt the same ends in `webhook:error`.

## 5. What is proved

For every number of calls, runs, adapters, attempts, messages and cancels, under
the named assumptions (`SessionAssumption`: the constants are sorts that do not
overlap and natural bounds; `BatchAssumption`: `N` natural, `SavePeriod`
positive; `WebhookAssumption`: natural bounds, `None` is neither
a message nor a webhook; `HookAssumption`, `LoaderAssumption`, `RequestAssumption`,
`KeyAssumption`, `RowAssumption`: priorities are integers, bounds natural, and the
values for nothing are not among the things; `GuardAssumption`: each request is a
call with the key; `FilesAssumption`: the files are finitely many):

**Sessions** (`SessionLifecycleProofs`). `TypeOK` is inductive by itself
(`TypeStep`, one step per action), and with it the bound of `attempts` in
`scheduleReconnect`. `MapHoldsClient` is inductive relative to it: every step
that closes an adapter also empties the map. `DeletedStaysDeleted` follows from
`Updated`, `StoppedStaysStopped` from `SettledStep`. `RestartResets` is not
inductive: the row could become active by an update, a client or a launch from
before. `FreshInv` adds that before the first engine of a process none of these
exists, and that a process that is down does nothing.

`NoStall` says that a dead engine with attempts left is not forgotten. Two
invariants carry it. `Awaiting`: an update that somebody awaits names a process
at that await, and no process awaits two, so that the end of an update moves
whom it should. `Responsible`: while attempts are begun and left, and no timer
is there for the next (`Owed`), and the engine of the map is dead or its death may
yet be reported to a call that schedules nothing (`Dying`), some run is
destroying it. A reconnection run schedules the next attempt when it fails, a
lost client does when it is reported, and a stop or a delete takes the retry
state away with it.

`RunsArePaidFor` is the safety half of `ReconnectSettles`, for any number of
timers, stray timers and runs at a time, if the runs are finitely many: timers
pending, stray timers, attempts left and runs under way make up a `Budget` that
no step but a ready client and a start call increases, and that each run that
ends decreases. Reconnection without either therefore ends.

`SessionIsTheirs` is a refinement: seen as `Noticed` (the map, the adapters with a
client, those that are ready, whether there is a row), every step of
SessionLifecycle is a step of the session that `EngineRequests` assumes around
its requests, or none. What is proved of requests therefore does not depend on a
session that behaves better than the one here: two adapters at a time, a client
that survives its entry in the map, one that becomes ready after the row is
gone, and a run that replaces an adapter in one step are all among its steps.

**Batches** (`BulkBatchProofs`). `IInv` joins `TypeOK` with

* `Position`: the log is the messages up to `i`, so order and no repetition;
* `Untouched`: until processing begins the row is as created, or as cancelled;
* `Obeyed`: after a signalled cancel the flag is not on;
* `Quiet`: while no cancel has read the row, what a save read is what it finds;
* `Sound`: what the row, `mem` and every copy claim was begun. It must hold of
  every copy, because `Written` may take each column from another one.

From it follow the invariants of the run, and `PromisedHolds`: `Spec =>
Promised`, the refinement, from `LogStep` and `SignalStep`.

**Webhooks** (`WebhookDeliveryProofs`). `IInv` joins `TypeOK` with three
conjuncts for each message and one for each delivery:

* `Untried`: nothing was posted or reported for a webhook the dispatch has not
  come to, so that `cur` is fresh when its loop begins;
* `Served`: every webhook found is to come, is being served, or had its outcome
  reported; hence `EveryoneServed`;
* `Direct`: without the queue, posts of the current webhook equal `attempt`, and
  no verdict was given before the reporting;
* `Job`: with it, posts lie between `made` and `made` plus the stalls and the post
  it is at, and a
  verdict is given only at the end of a job or before it stalled.

`BoundedPosts` and `ErrorMeansExhausted` follow from `Direct` and `Job`, one for
each way of delivery, and `VerdictIsFinal` from the two and one case per action.

**Hooks and plugins** (`PluginLoaderProofs`). `LInv` joins the types with
`DisabledIsSilent` and `HInv`. Silence is inductive together with
`HooksAreTracked`: were a hook untracked, `unregisterPlugin` would return early
and a disabled plugin keep it. For the chains, `Walking` says of a chain and the
array it walks that no registration is in the array twice, that what is ahead of
the iterator was not called (unless a registration moved the array), and that
what it began with was called or is ahead (unless a hook was spliced out).
`InsertFacts`, `RemoveFacts` and `FilterFacts` say what the operations do to the array.
From it follow `NoHandlerTwice` and `NoHandlerSkipped`. For the order, `OInv` adds
that the array is sorted and that a chain under which nothing was registered has
called, in order, only handlers that are not behind those ahead of its iterator
(`Ordered`). A registration keeps the array sorted because it is put behind all
of the same or a lower priority (`InsertInOrder`), a splice and the filter because
they keep the order of the others. `HandlersInOrder` is what follows: the part of
`LowerRunsFirst` that is true.

**Requests and keys** (`GuardedRequestsProofs`). `RInv` says of each request, by
the await it is at, what its row, its hooks and WhatsApp are; that the sending is
the last step of a method that keeps a row (`EndpointOK`, shown of every endpoint) is
what makes a sent message and its row agree. `KInv` says of each call what its
entity and its save have seen, and that every answer is `Justified`.
`GuardedImplementsBoth` shows that the composition implements both components,
so their theorems hold of it (`GuardedSafe`, `GuardedOffStaysOff`), and
`Admittance` carries over to `GuardedOnlyAdmittedAct`: WhatsApp is asked for
nothing on behalf of a key that did not admit it.

**Events** (`LiveEventsProofs`). `EInv`: what has begun has arrived, only what was
emitted was heard, and without plugins a plain message is never between the two.
A plain message is then heard behind all that arrived before it or not at all,
which is `PlainMessagesInOrder`. `ClientsAgreeOnOrder` is about all messages,
plugins or not: no two clients hear two messages in different orders, because
what a step emits is one message, to all clients at once, that nobody has heard
(`HeardStep`). For one client it says that the copies it hears of a message, one for
each of its rooms, come in a row.

**Migrations**. `DInv` (`DataMigrationProofs`): while the transaction is sound,
each row of the file is still to do or among the inserted (`Come`), and when the
loop over a table is over none of its rows is to do (`Over`); `ImportAllOrNothing`
follows at the commit. For `ThereAndBack` (the property `RoundTrip`) that is not
enough: nothing must be added, and bodies must be right. `References` says,
whoever writes, that no webhook is without its session: in the tables, in what
the export found and in what the transaction would leave. `Faithful` says, while
nobody writes and nothing fails, how far the file has followed the tables
(`Exported`) and the transaction the file (`Progress`, for each message `Moved`): the
session of a webhook is inserted before it, so no insert is refused, and at the
commit the rows are those of the export. `SInv` (`StorageMigrationProofs`): the archive and the files to
do make up what there was when the export began, unless one was missed
(`Archived`); and what an import has counted, is storing and has to do is the archive.

**Only model-checked.** Every invariant and action property of the passing runs
is a theorem. What is left to TLC are the liveness properties
`ReconnectSettles`, `Ends`, `Settles`, `SendingIsRecorded`, `SubscribersHear`,
`ImportSettles`: liveness under fairness, like `ENABLED`, is out of TLAPS' reach. So
are induction over data and RECURSIVE operators; the modules use none. Proved and
not run are the types of LiveEvents, DataMigration, StorageMigration and ApiKeys,
`RunsArePaidFor`, `LowerFirstUnlessGrown`, `OneOrder` and the refinement
`Noticed!Spec`.

## 6. Not modelled, and why

* **Cache**: a lazy Redis connection whose attempts share a flag. The statistics
  write to it and the status endpoint asks whether it is there, but no code
  reads what it holds, so nothing modelled here depends on it.
* **Audit, statistics, settings, health**: inserts, queries and one object in
  memory; nothing reads what another step has left half done.
* **Bootstrap, configuration, middleware**: wiring, and the form of requests.
* Parts of modelled components: the arithmetic of CIDR ranges (an origin is
  admitted or not); templates, media and the text of messages; headers and
  signatures of webhooks, their update and deletion; the idempotency keys of
  events other than received messages; key-value files of plugins; the emit
  methods of the other events; `session.getGroups`, which only reads; `logout` of
  the adapter, which nothing calls; the order of the modules' `onModuleDestroy`.
* Browser processes that survive the gateway are outside the state.

## 7. Plan

1. An abstract session (stopped, starting, running) that `SessionLifecycle`
   implements where no call overlaps a run. As the environment of
   `EngineRequests` it is there already (`SessionIsTheirs`).
2. Measures for `Ends`, `Settles` and `ImportSettles` like the budget of
   `RunsArePaidFor`: what decreases with every step that is not a restart.
3. The idempotency keys of the other events as an operator over small data:
   which events share a key.
