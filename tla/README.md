# TLA+ models of veyron-plugins

This directory holds TLA+ specifications of the plugins in `plugins/`, TLC
configurations that check them on small instances, and TLAPS proofs about them.
Everything is translated from the Rust sources; where a specification relies on
something outside the repository (the kernel, the SDK, SQLite, the supervisor)
this file and the comment of the definition say so.

Contents

1. The system
2. What is modelled, module by module
3. What the checks show: runs, bounds, fairness
4. What is proved, and how
5. Where the code differs from what it says
6. Assumptions about the environment
7. What is not modelled, and the plan

`PROJECT.json` is the machine-readable index: components, runs, the mutation
that shows each property can fail, the source lines of every definition, the
hazards the properties are for, the findings and the theorems.

## 1. The system

A veyron *kernel* runs on a device and starts *plugins* as separate processes.
A plugin connects to the kernel, registers its actions, and runs a message
loop. Plugins never talk to each other directly: an action request names a
plugin and an action, the kernel routes it, and it routes the response back by
the action id. Plugins also publish *events*; the kernel delivers them to the
subscribers and delivers an event again that was not acknowledged. The kernel
and the SDK are not in this repository.

The loops come in three shapes, and most of what is hard about the system
follows from them.

| Shape | Plugins | What follows |
|---|---|---|
| *Sequential*: one request at a time, `send_action` waits inline | sync-client, notify, stt, tts, ai, search, clipboard, gated-write, media, system, sound | State needs no lock; but frames that arrive while `send_action` waits are discarded |
| *Concurrent*: a task per request, replies through a bounded channel that the loop drains | sync, database, secrets, filesystem (`serve_concurrent`), network | Handlers interleave at every `await`; replies and events leave in the order the tasks get into the channel |
| *RPC*: concurrent, and handlers call other plugins through the loop, which matches responses to a table of pending calls | scheduler, calendar, notes | A handler's read and write of a document are separate round trips, each of which may fail or time out |

### Components

For each component: the state it keeps (S), its operations (O), whom it
interacts with (I), what is hard about it (H) and what makes it correct (C).

**sync** (`plugins/sync`). S: one SQLite file with the shared rows
(`key, value, updated_at`) and a version in the table `meta`. O: `sync_set`, `sync_get`,
`sync_del`, `sync_snapshot`; set and snapshot first prune expired `heartbeat.*`
rows. I: any plugin calls it; it publishes one `delta` event per mutation. H:
handler tasks share a connection pool; deferred transactions can lose the race
for the write lock; deltas are pushed after the commit, one by one, in
competition with those of other tasks; the process may die between the two. C:
the version counts the mutations and the rows are their result; a reply is
true of some version; every mutation is announced once, none that did not
happen is.

**sync-client** (`plugins/sync-client`). S: a mirror (rows and version) that
survives a reconnect. O: connect, subscribe, pull a snapshot, apply deltas,
send a heartbeat; reads are answered from the mirror. I: calls `sync` through
the kernel, receives its deltas. H: deltas that arrive during the pull are
discarded; the pull may time out and its answer arrive later; deltas may come
late, out of order or twice. C: the mirror at version v is what the store
held at version v; it never moves back and ends up equal to the store.

**scheduler** (`plugins/scheduler`). S: none of its own; schedules are JSON
documents `sched:<id>` in the database plugin, plus a counter. O:
`schedule_set`, `schedule_get`, `schedule_list`, `schedule_delete`, and a
periodic scan that marks due schedules as fired and then dispatches them as an
event or an action call. I: calls the database; calls any action. H: handlers
and scans interleave at every round trip; a call may fail, or time out and be
carried out later; scans may overlap; a crash may fall between mark and
dispatch. C: no occurrence is dispatched twice, what is dispatched was
configured and is due, what is due is dispatched in the end.

**database** (`plugins/database`). S: a SQLite file per calling plugin, cached
pools. O: get, set with a time to live, delete, batches, incr, keys, raw
queries. I: called by scheduler, calendar, notes, ai. H: racing first
accesses, expiry between two statements, read-modify-write in deferred
transactions. C: accesses of different callers never mix, an expired key is
never seen, an increment is never lost.

**calendar** (`plugins/calendar`). S: event documents in the database. O:
create, get, list, update, delete, and a reminder scan. I: database, `due`
events. H: as the scheduler; in addition an update puts back the
`reminder_fired` it read. C: a reminder fires once, not before its time, and
not for an event that is gone.

**notes** (`plugins/notes`). S: note documents in the database; the loop's
table of pending calls. O: create, get, list, update, delete, a `changed`
event for each change. I: database. H: read-modify-write over two round trips;
a call that timed out is carried out all the same and its answer comes late.
C: what a caller or a subscriber is told happened; a stored note is not blank.

**notify** (`plugins/notify`). S: an inbox file of at most 500 entries, read
again for every request. O: send, list, mark, delete. I: host notification
programs; the tts plugin, for spoken ones. H: one of the three effects of a
send (shown, spoken, stored) fails; ids under deletes, prunes, restarts and a
clock that steps back. C: an error means nothing happened, a success names
what did; ids are unique.

**secrets** (`plugins/secrets`). S: an encrypted vault file per caller, cached
in memory. O: set, get, delete, list. H: concurrent first accesses, memory
changed before the file, crash points of the replacement. C: an acknowledged
secret is found again, also after a restart; a vault that does not decrypt is
never replaced.

**sound** (`plugins/sound`). S: the clips with their players, temporary files.
O: play, stop, status, volume; finished clips are reaped by the next request.
H: a player that ends between requests, a kill, a shutdown, two clips of one
millisecond, a temporary file that cannot be written. C: one player at a time, and no clip loses its file.

**stt** (`plugins/stt`). S: listen streams that buffer audio, a lazily loaded
engine. O: start, chunks, stop, transcribe, models. H: frames that arrive while
a handler waits are discarded. C: a transcript holds the chunks between its
start and its stop, no chunk goes into two.

**tts** (`plugins/tts`). S: the engine; the stream being sent. O: voices,
synthesize (local or over the cloud), speak. H: a send that fails midway, a
tail that fills no frame. C: a successful utterance is whole, in order and
ended once; a listed voice is accepted.

**network** (`plugins/network`). S: per-caller in-flight counters, cookie jars,
a response cache. O: `http_request` with retries and redirects. H: check and
increment under different locks, panics, names that resolve differently each
time, completion order. C: callers share nothing; no forbidden address is
contacted; no slot leaks.

**ai** (`plugins/ai`). S: a SQLite file of models, agents and usage, seeded at
each start. O: discovery, refresh, list, chat completion. H: two statements
where one is meant, a crash between, several writers of the default flag. C:
one default, the declared one; a usage row per answered completion.

**search**, the cloud half of **tts** and **ai**. No state: the key from the
secrets plugin or the environment, one HTTP request through the network plugin.
H: answers that come after the timeout while the next request waits. C: an
answer belongs to the request that gets it, sent with the key in force.

**filesystem, gated-write** (`plugins/filesystem`, `plugins/gated-write`).
Reads and writes below configured roots; a gated write runs only after an
allowed caller confirms it. H: paths resolved before and opened after, links,
handlers that write the same file. C: no file outside the roots is read or
changed; answers are true of the file.

**media** (`plugins/media`). S: a cache of positions fed by watchers, a cache of
metadata. O: status, control, seek, volume of MPRIS players. H: signals that
come late, players that report no position, commands that take effect later.
C: allowed players only; a seek lands where the reply says; no position ahead
of the player.

**system, clipboard** (`plugins/system`, `plugins/clipboard`). No state but the
D-Bus proxies' property caches; chains of host programs with fallbacks. H: a command
that exceeds its timeout runs on; the cached power profile lags behind the daemon; the
user turns the knobs too. C: a success is true of the device.

**ping-pong-rs**. An SDK example.

### How the modelled components interact

    other plugins --set/del/get/snapshot--> sync --delta events--> sync-client
                                             ^                         |
                                             +---snapshot, heartbeat---+

    clients --schedule_set/_delete--> scheduler --db_*--> database
                                       |  ^ interval
                                       +--+--event or action--> anybody

    clients --event_create/_update/_delete--> calendar --db_*--> database
                                              |  ^ interval
                                              +--+--due event, notify_send-->

    clients --note_*--> notes --db_*--> database      media --D-Bus--> players
    clients --web_search--> search --+-> secrets      sound --spawn--> players
    clients --tts_*--> tts ----------+                system, clipboard --spawn--> tools
    clients --chat_completion--> ai -+-> network      notify --> tts, host programs

`Scheduler`, `Calendar` and `Notes` see the database as a store whose calls are carried
out at once, late or not at all. `Database` models the plugin behind it, and
`KvStore` is what the two may assume of it.

## 2. What is modelled, module by module

| Module | Models | Extends or uses |
|---|---|---|
| `SyncStore` | what the sync plugin promises: a versioned store in which a request commits in one step, and announcements | |
| `SyncHost` | the sync plugin: handler tasks statement by statement, SQLite's locking, the channel, the loop, restart | instantiates `SyncStore` for the refinement |
| `SyncSystem` | the sync plugin with one sync-client through the kernel | extends `SyncHost` |
| `Scheduler` | the scheduler plugin over the database's documents | |
| `KvStore` | what the database plugin promises one caller: every change is one operation applied to the latest table | |
| `Database` | the database plugin for one caller: opening and migrating the file, the sweep, every action statement by statement, failures, crashes | instantiates `KvStore` for the refinement |
| `Calendar` | the calendar plugin over the database's documents | |
| `Notes` | the notes plugin: request tasks, the loop with its table of calls, the database's answers | |
| `Vault` | the secrets plugin for one caller: cache, races, each step of the atomic write, power loss | |
| `Notify` | the notify plugin: show, speak, store, edit the inbox | |
| `Sound` | the sound plugin: clips, players, temporary files | |
| `Listen` | the stt plugin: listen streams, uploads, engine, discarded frames | |
| `Speak` | the local side of tts: engine, voices, packets of an utterance | |
| `Cloud` | search and the cloud side of tts: key, request, late answers | |
| `Assistant` | the ai plugin: seed, discovery, defaults, chat, usage | |
| `Network` | the network plugin: cap, cache, cookies, retries, redirects, address policy | |
| `Files` | filesystem and gated-write on one tree with links | |
| `Media` | the media plugin with its MPRIS players, watchers and caches | |
| `Desktop` | system and clipboard with the tools they spawn | |
| `Sync_proofs` | theorems about the sync plugin, and about it with its client | extends `SyncSystem` |
| `Scheduler_proofs`, `Database_proofs`, `Calendar_proofs` | theorems | extend their module |
| `Boundary_proofs` | theorems | extends `Network`, `Files` |
| `Speech_proofs` | theorems | extends `Listen`, `Speak`, `Assistant`, `Cloud` |
| `Plugins_proofs` | theorems | extends `Vault`, `Notify`, `Sound`, `Notes`, and `Speech_proofs` for its lemmas on sequences |
| `Desktop_proofs` | theorems | extends `Desktop`, `Media`, and `Speech_proofs` for the same |
| `MCSyncHost`, `MCSyncSystem`, `MCScheduler`, `MCDatabase`, `MCCalendar` | constants for TLC | extend their module |
| `MCPlugins` | constants and next-state relation of the run over the last twelve | extends the twelve |

Definitions named `X_Something` are mutated forms of `X`: a plausible bug in
the same lines of code. No specification uses them. Each is paired in
`PROJECT.json` with the property it violates.

### SyncHost

A handler task is described by where it is (`pc`):

    idle -> accepted -> begun -> reading -> commit -> sending -> idle

Each arrow is the code between two `.await`s. `Accept` is the loop's spawn
(`main.rs`, `lib.rs`), `Begin` the `pool.begin()`, `SelectStale` and `PruneRow`
the loop of `prune_heartbeats`, `Upsert`, `Delete` and `ReadSnapshot` the
statement of the action, `Commit` the commit together with the size check and
the assembly of the reply and its deltas, `Push` the sends into the loop's
channel, `LoopSend` the loop's send to the kernel. `Refuse`, `LoseRace` and
`Fail` are the error returns.

| Variable | In the code |
|---|---|
| `db` | the file: the rows with their `updated_at`, `meta.version` |
| `writer`, `view`, `base` | SQLite's write lock and a transaction's snapshot |
| `since` | `now_ms`, read before the transaction opens (`handler.rs:129`) |
| `stale`, `muts` | the keys still to prune; the mutations of the open transaction |
| `outbox`, `chan` | the envelopes the task still has to push; the mpsc channel |
| `log`, `published`, `lost` | history, for the properties only |

SQLite in WAL mode is modelled by what it guarantees to deferred transactions:
a transaction reads the snapshot of its first statement; there is one writer;
a transaction that has read can start writing only if nothing was committed
since its snapshot and the lock is free, otherwise it fails at once
(`SQLITE_BUSY_SNAPSHOT`, which the busy timeout does not help); one whose first
statement is a write waits for the lock and may give up (`Fail`).

Data: a value is a model value, the longer-than-allowed ones are the set
`BigValues`; the limit of the snapshot's size is a number of rows; requests
rejected by parsing are one request `bad`. `AnnouncedExactlyOnce` is checked
with room for every snapshot (see section 5).

### SyncSystem

Adds the client's serve cycle: `Connect`, `Pull`, `AwaitFrame` (the frames that
`send_action` reads while it waits, discarding everything but its response),
`PullTimeout`, `HandleFrame` (`on_event` and the ignored late response), `Beat`,
`Disconnect`; and the kernel between the two: requests are handed over in any
order (`HostAccepts`), frames of a connection arrive in order (`HostSends`), an
event that was read but discarded may be delivered again (`Redeliver`).

### Scheduler

A handler is described by the database call it waits for (`hpc`), a scan by
the call or the step it is at (`spc`):

    handler: idle -> db_get | db_incr -> db_set -> idle;  idle -> db_delete -> idle
    scan:    idle -> db_keys -> db_batch_get -> mark -> dispatch
                  [-> errget -> errput] -> next fire or idle

The answer of a call and the code up to the next call are one action. Every
call has a failing form; a write that failed for its caller may still be
carried out at any later time (`late`, `LateWrite`), which is what a timeout
means. `Crash` ends every task; writes in flight become late.

| Variable | In the code |
|---|---|
| `docs`, `counter` | the documents `sched:<id>` and `meta:next_id` in the database |
| `hpc`, `hreq`, `hdoc` | a handler task: its call, request, document to store |
| `spc`, `snow`, `skeys`, `queue`, `cur` | a scan task: its call, `now_ms`, listed keys, due fires left, fire in hand |
| `late` | calls given up by the caller, not yet executed |
| `sets`, `fires`, `stopped`, `sstopped` | history |

A document carries the number of the `schedule_set` that configured it
(`rev`). The code stores no such number; it only names which configuration an
occurrence belongs to. Time is a small integer; the cron expression is the set
of its occurrences, and `NextCronAfter` is what the cron library returns.
Generated ids are decimal numbers and share the clients' name space, hence ids
are numbers here. Due fires are processed in any order: the order of the list
is the database's.

### Database

A handler task goes through

    open -> [create -> probe -> [migrate] -> cache] -> sweep -> stamp -> run
         -> [write -> commit] -> reply

`open` is the lookup in `DbPools::pools`, the bracket the first access of a
caller (`db.rs:127-208`), which several tasks may go through at once; `stamp`
is where a handler reads the clock, before it waits for a connection. `run` is
the statement of get, set, delete, keys and query, or the read of incr, append
and patch, whose upsert and commit are the last bracket. db_batch_get returns to
`stamp` for each of its keys.

| Variable | In the code |
|---|---|
| `schema`, `rows` | the caller's file: whether table `kv` exists and has `expires_at`; its rows |
| `cached` | the entry of `DbPools::pools` |
| `writer` | SQLite's write lock, held from the upsert of a transaction to its commit |
| `task` | a handler's place, request, `now_ms`, the version it has read, what it has got |
| `log`, `replies` | history: the operations committed; the answers, each with its event |

A value is a type and a number (an integer, the length of a list, a field of a
document): enough to tell an update that was lost from one that was not. db_query
stands for a text that writes table `kv` directly, and may report an error
after it has done so (several statements, or too many rows returned).

### Calendar

The same shape as `Scheduler`, with one record per task. `Accept*` is the loop
spawning a handler, `TakeId`, `ReadForUpdate` and `PutOrDelete` its calls;
`StartScan`, `ListKeys`, `ReadDocs`, `Mark`, `Publish` and `Notified` are
`scan_due`. A document carries `plan`, the number of the request that gave it
its present start, end and lead: history, to say which reminder fired. The
variables `marked`, `undone`, `orphaned` and `withdrawn` are history as well.

### Notes

    task: idle -> [db_incr ->] db_get -> db_set | db_delete -> reply, event -> idle

A task hands a call to the loop (`noteRpc`, the bounded channel); the loop gives
it a number (`LoopSendsCall`), enters it into `notePending` and sends it;
`DatabaseServes` or `DatabaseFails` carries it out, `LoopHandsBack` finds the
task by the number. `NoteTimeout` ends the wait, the call stays pending and is
carried out all the same. `NoteSay` puts the reply and then the event into the
outbound channel. Texts are a number of bytes or `Blank`: the checks on titles,
bodies, tags and their sizes are kept.

### Vault

A task goes through `Lookup` (the cache), `Load` (read and decrypt the file) and
`Insert` into the registry, then under the vault's lock `Change`, and for a
mutation one action for each step of `atomic_write`: `CreateTmp`, `WriteTmp`,
`SyncTmp`, `RenameTmp`, the fsync of the directory (`Acknowledge`, or
`AcknowledgeUnsynced` when that fsync fails, which the code ignores).
`PersistFails` ends any of them.

| Variable | In the code |
|---|---|
| `vaultCached`, `vaultObjs` | the registry's entry; the vaults in memory, of which a race makes two |
| `vaultFile`, `vaultTmp`, `inode` | the vault file, the temporary file, the contents |
| `vaultDisk`, `inode[i].synced` | what a power loss leaves |
| `vaultKey` | the master key, which a restart may change |

A cipher text is read under its key only; anything else is an error, and
`PowerLoss` leaves `Broken` in what was not fsynced. `vaultRaced` (history) says
that two vaults were in use at once; `VaultKeepsPromises` excludes only that.

### Notify

The loop handles one request: `Deliver` (show), `Synthesize` and `Play` (speak),
`Store` and `AnswerSend`; `Edit` is mark and delete. Each has its failure. The
sequence number of the next id is derived from the stored entries, as in the
code, and `ClockMoves` may set the clock back; `inboxDisk` is what a power loss
leaves of a file that is written without fsync.

### Network

A task runs `NetAccept` (the loop's gate) -> `AcquireCheck`, `AcquireReserve` (the
counter under two lock acquisitions) -> `Start` (parse, cache) -> `Gate` (address
policy, cookies) -> `Attempt`, repeated by the retries -> `MergeCookies` ->
`StoreAndReply`; `NetPanic` anywhere. `Resolutions` are the addresses that are left
of whatever a name resolves to this time, after the resolver's filter; `Chains`
and `Connections` are the connections of one attempt with its redirects. The
retry delays, the streaming of bodies and TLS are left out; sizes are numbers.

### Sound

`PlayClip` is `sound_play` up to the started player, `WriteFails` and `PlayFails` its
ends when the temporary file cannot be written and when a player does not start;
`TakeSpeakers` stops the clip that played before. `StopOrStatus` is the other requests, which reap first. A
player is a process that may end at any time (`PlayerEnds`), be killed, or
outlive the plugin (`orphans`). A temporary file is named after the millisecond; it says
which play wrote it and whether all of it is there (`whole`), since a write that fails
half way leaves what it has written.

### Listen

`ListenStart`, `ListenPush`, `ListenStop`, `ListenTranscribe` and `ListenModels` handle
the first frame not yet received; while a handler waits for the kernel
(`listenWait`) frames are discarded (`ListenMisses`). `engine` is the process-wide
engine, loaded once, also when loading failed. Audio is counted in bytes and
samples, a text is the chunks it was made of.

### Speak

`LocalVoices` and `ResolveSid` are the list of voices and what a request accepts;
`Speak` synthesizes, resamples (`Resampled`) and cuts into frames of 20 ms
(`FrameSamples`), `SpeakChunk` sends them one by one and `SpeakChunkFails` ends the
utterance. `LocalSynthesize` is the upload form.

### Cloud

`web_search` and the cloud providers of `tts_synthesize` share one control flow:
ask secrets for the key (`CloudAccept`), fall back on the environment, have
network send one request (`CloudReceive`), parse. `CloudTimeout` gives up on a call,
whose answer comes later and is discarded (`CloudDiscard`), as is every request
that arrives meanwhile. `Awaited` is the match of a frame with the call in hand; each call
records which call the answer it took was the answer to (`from`, history). The vault's key may change at any time (`VaultRotates`).

### Assistant

`AiStart` computes the statements of the seed, `AiStatement` and `AiStatementFails` run
them one at a time, since each commits by itself; `AiDefaultModel` and
`AiDefaultAgent` are the fallbacks, `AiDiscover`, `AiFetch` and `AiFetched` the
discovery with its attempts, `AiRefresh` the same on request, `AiChat` and `AiReply`
a completion and its usage row, `AiCrash` the end of the process between any two.

### Files

The tree is a function from paths to nodes; `Walk` takes a path one name at a time
(`StepTo`) through directories and links, as `canonicalize` does; `Inside` is
the sandbox's check of the resolved path. `Listing` is some order of the entries
with the directories first: which one, no property asks. A filesystem handler checks, then
opens, then works: each is an action, handlers interleave, and the tree may
change in between. A write is `FileEmpty` (truncate), `FilePut` (or a part of it,
`FilePutFails`). gated-write keeps a request (`GatedRequest`) until a confirmer
confirms it (`GatedConfirm`), makes the parent directories (`GatedParents`), checks
that the target is below the data directory (`GatedCheck`), writes or appends.

### Media

Players play, seek, pause, change track and vanish by themselves, and their
signals come later (`Note`). `Scan` is the supervisor, `MediaTake` the head of a
request; `MediaControl`, `Turn` and `Poll` are play and pause with the wait for the
player to follow; `MediaSet`, `Aim`, `SeekTrack`, `SetPosition`, `SeekWhere` and
`SeekOffset` the two ways to seek and the fallback; `Status` and `StatusAnswer` the
status with its caches and the extrapolated position. The D-Bus reads of one request that
follow each other without a write are one step where no property tells them
apart; a change of the player between two of them is therefore seen before or after both.

### Desktop

A request of system is the list of commands and file accesses it makes;
`SysStep` runs the next one, `SysDelegates` switches to brightnessctl, `SysTimesOut`
gives up on a command that runs on (`givenUp`) and takes effect later, in any order
(`AbandonedActs`). The power profile is a property of a zbus proxy
(`power_profile.rs:18-28`), which the probe at the connection has cached
(`power_profile.rs:55-57`): reads take the cached value (`device.known`), a set goes to the daemon
(`DaemonSets`), and the cache hears of it, as of every other change, when the
signal arrives (`device.coming`, `ProfileHeard`). The daemon is taken to have the properties the code
names, to signal each change with its value and never to drop its name; the
battery's properties are cached as well, but nothing in the model changes them.
A clipboard request tries its tools in turn (`ClipTry`, `ToolActs`, `ClipDone`,
`ClipFails`). `UserActs` is somebody else at the knobs.

## 3. What the checks show

All runs but the three violations finish without an error. In every pass run a
property is paired with a mutation of the code that violates it under the same
configuration.

| Run | Instance | What it shows |
|---|---|---|
| `SyncHost` | 2 tasks, 2 keys (one a heartbeat), a value and one over the cap, 3 requests, 2 ticks with TTL 1, 1 crash | The store is its history; no update is lost; replies are true; deltas are exactly the committed mutations, each announced once; only expired or deleted rows disappear; refinement of `SyncStore` |
| `SyncHostLive` | 3 tasks, 2 connections, channel of 1 | Nobody waits forever for a connection, the lock or the channel; what is committed is announced |
| `SyncSystem` | 2 tasks, 2 connections of the client, 1 crash of the host | Whatever the interleaving: the mirror is never ahead of the store, never moves back, and shows only values committed under their key |
| `SyncSystemSequential` | 1 task, 1 heartbeat key, prunes, 2 connections | With one handler at a time the mirror is *exactly* the store at the mirror's version, and ends up equal to it |
| `SyncSystemConcurrent` | 2 tasks | *violation*: with two handlers it need not be (section 5) |
| `Scheduler` | 1 id, 2 sets, 2 faults of any call except the scan's own writes, 1 crash | No occurrence is dispatched twice; the stored counters cover every dispatch, also when the process dies in between; what is dispatched is due and was configured so |
| `SchedulerLive` | 2 ids that are due together, 1 handler, 1 scan, 2 faults of marks, actions and error texts | A scan ends only when all it had read is dispatched, whatever marks and dispatches fail, unless it panics; a pending occurrence is dispatched unless its schedule is replaced |
| `SchedulerCatchUp` | 1 crash, 3 ticks | *violation*: more than one catch-up fire (section 5) |
| `SchedulerStopped` | 1 handler, 1 scan | *violation*: a schedule fires in a scan started after it was deleted or disabled (section 5) |
| `Database` | 2 tasks, 2 keys, 2 requests out of 12 kinds, a fresh, old or used file, 1 tick, 1 failing statement, 1 crash | Past the opening the schema is there; every change is one operation on the latest table (refinement of `KvStore`); what get and batch show was there while the request ran and had not expired when it was made; an event exactly for what was committed; counters give no value out twice |
| `Calendar` | 2 ids, 1 handler, 1 scan, 3 requests, 2 ticks, 1 failing call, 1 crash | A reminder fires twice only if an update put it back unfired; a withdrawn reminder does not fire in later scans; every reminder fires unless its event changes or its mark was carried out for a dead scan |
| `Plugins` | each of the twelve smaller plugins alone: 2 tasks where tasks exist, 2 or 3 requests out of up to 12 kinds, 1 or 2 failures, 1 crash | What each promises its callers, one property a plugin (two for network) |

`Plugins` is twelve models in one run: `plugin` is chosen in the initial state
and only that plugin moves, for the processes share no state and what they send
each other is in each model. The properties say:

- `VaultKeepsPromises`: an acknowledged secret is found, in memory, in the file
  and after a power loss; a deleted one is not; what does not decrypt is never
  replaced by an empty vault.
- `NotifyTellsTheTruth`: a failed send has shown and stored nothing, a successful
  one did what the reply names; ids are unique; the inbox keeps its order.
- `NoBlockedConnection` and `CallersAreApart`: the address policy holds for every
  connection; caps, cookies and cached answers are per caller, no slot leaks,
  the cache stays within its bounds and knows its size.
- `SpeakersHaveOneOwner`: one player at a time, which `sound_stop` would end; every
  temporary file that was written in full has an owner, so a play that ends with an error
  leaves none but what its own failed write left, and no clip loses its file.
- `NotesTellTheTruth`: a success or an event tells what happened; ids are given
  once; no blank note; a deleted note stays deleted unless an update wrote over
  what it had not read.
- `TranscriptsAreComplete`: the text of a stream covers exactly its usable chunks
  from start to stop that the plugin received, in their order, no chunk is in two texts.
- `SpeechIsWhole`: a successful utterance arrives whole, in order, ended once; a
  failed one is never ended; every voice listed is accepted.
- `CloudAnswersAreOwn`: a result is made of the answer to the request's own, only HTTP
  request, with the key that the vault answered to this request's own call if it
  answered one; every request received is answered once.
- `DefaultsAreKept`: one default, the declared one or the one found; a usage row
  for every completion answered.
- `FilesTellTheTruth`: nothing outside the roots is changed or read; an
  undisturbed read, write or list is answered truly.
- `MediaTellsTheTruth`: allowed players only; an undisturbed seek lands where the
  reply says; no shown position is ahead of the player, no field is another
  track's.
- `DesktopTellsTheTruth`: an undisturbed setting is what the reply says and stands, but
  for what an earlier request for it asked for that was answered with a timeout; a profile
  that was known to be replaced before the request is not reported; the panel never goes
  dark through the plugin's own write; one tool gets the text to copy.

### Bounds

- *Tasks.* Two handler tasks are enough to interleave two transactions; three
  compete for two connections in `SyncHostLive`. Tasks are interchangeable, so the
  runs without liveness use them as a symmetry set.
- *Keys.* A heartbeat key and an ordinary one: the prune distinguishes nothing else.
- *Requests (`MaxRequests` 3, `MaxSets` 2).* Three requests give a committed
  mutation to race against, two that race. Two sets give a configuration and
  its replacement, or, in `SchedulerLive` with its two ids, two schedules that one
  scan has to fire one after the other.
- *Time.* With TTL 1 and two ticks a heartbeat is fresh, at the cutoff, expired.
  Two cron occurrences and up to three ticks give an occurrence that is pending,
  one that is missed, and one still to come.
- *Faults and crashes.* One crash; two faults where the second matters (recording
  the failure of a dispatch may fail in turn, both fires of a scan may fail), else one. The invariants that are also proved hold
  for any number.
- *Database.* Two requests make every pair of actions race, over files that
  already hold an integer about to expire, a list or a document; the integers
  are 3 bits wide, so that an increment overflows.
- *Calendar.* One handler and one scan give every race of an update with a
  scan; two events make a scan go on after its first reminder, or give up before
  its second; three requests create an event, reschedule and change it again.
- *Channel.* Capacity 1 or 2, so that it is full in many states; 64 or more in
  the code.
- *Plugins.* Two tasks race in secrets, network, notes and filesystem, the
  others are sequential. Two requests are one that changes something and one
  that meets what it left; three where the third is needed (a clip that replaces
  one whose file has the same name; a third inbox entry that prunes the first,
  with `MaxEntries` 2). A listen stream takes five frames, of which one at most waits: a start,
  two chunks whose order shows, a stop, and one more that falls into the wait of the
  stop or belongs to a second stream; one of the five may be an upload or another request. One failing
  operation at any place, one crash or restart. Caps (`CacheMaxBytes`, `ListCap`,
  `ReadCap`, `MaxPending`, `NoteChannel`) are 1 or 2, so that they are reached.
- `CHECK_DEADLOCK FALSE` in the sync runs and in `Plugins`: when the bound on
  requests is reached and all is delivered the system stops. The scheduler never
  stops.

### Fairness

`HostFairSpec`: weak fairness of each task's steps and of the loop's send. The
runtime polls every ready task, and `select!` with a channel that stays ready
picks it in the end. No fairness for `Fail`, `Crash`, `Tick` or `Accept`.
`SystemFairSpec` adds that the kernel passes calls on and that a client that is
down connects again (the supervisor restarts it) and reads its frames; a
timeout or a disconnect is never forced. `FairSpec` of the scheduler: the
interval ticks (`StartScan`), tasks run and the database answers; neither faults
nor the clock are forced. `PendingFires` speaks of occurrences that are due
already, so the clock need not advance.

`FairSpec` of the calendar is the scheduler's, and the supervisor starts a dead
plugin again (`Restart`), for which the database must have dealt with its last
calls (`LateWrite`). `Database` and `Plugins` are checked for safety only.

## 4. What is proved

All proofs are for arbitrary constants that satisfy the named assumptions of
the modules (`HostAssumption`, `SystemAssumption`, `SchedulerAssumption`,
`DatabaseAssumption`, `BatchAssumption`, `NetworkAssumption`, `CalendarAssumption`,
`VaultAssumption`, `CipherAssumption`, `NotesAssumption`, `NotifyAssumption`,
`ListenAssumption`, `SpeakAssumption`, `AiAssumption`, `DesktopAssumption`,
`MediaAssumption`, `FilesAssumption`), so for
any number of tasks, keys, connections, requests, faults and crashes. TLC evaluates
each assumption in the run of its module. They say what kinds of values the
constants are and what the parsers of the requests let through; where a theorem needs
more than that, its statement says so (`OneScanAtATime`, `MarksStick`,
`RoomForSnapshots`, `Undisturbed`). `FilesAssumption` also describes the disk as it
is found: a tree; what links lead to, resolved; the data directory, which
gated-write makes before anything else (`gated-write/src/main.rs:59`); and no link inside
a root whose target does not exist yet and would lie outside all of them. Somebody who makes
that target between the check and the use of its result is the race that
`filesystem/ROADMAP.md:36-40` leaves undefended.

### Sync_proofs

| Theorem | Statement |
|---|---|
| `TypeCorrect` | `HostSpec => []TypeOK` |
| `StoreInvHolds` | `HostSpec => []StoreInv` |
| `StoreIsItsHistory` | `HostSpec => []StoreMatchesHistory` |
| `NoUpdateIsLost` | `HostSpec => []NoLostUpdate` |
| `OnlyCommittedDeltas` | `HostSpec => []DeltasAreCommitted` |
| `HostImplementsStore` | `HostSpec => ImplementsStore` |
| `AnswersAreTrue` | `HostSpec => []RepliesAreTrue` |
| `DeltasAreAnnouncedOnce` | `RoomForSnapshots` implies `HostSpec => []AnnouncedExactlyOnce` |
| `PrunesOnlyExpired` | `HostSpec => FreshRowsSurvive` |
| `SystemHasHost` | `SystemSpec => HostSpec` |
| `MirrorNeverInvents` | `SystemSpec => []MirrorShowsCommitted` |
| `MirrorNeverGoesBack` | `SystemSpec => MirrorMonotone` |
| `MirrorIsExact` | `Undisturbed(t)` implies `SystemSpec => []MirrorExact` |

`StoreMatchesHistory` alone is not inductive: a commit replaces the database by
the transaction's view, so one has to know what the view is. `TxInv` says it: a
transaction shows some version of the history; once it holds the write lock
that version is the current one, and its view is that version with its own
mutations on top, which are first expired heartbeats, then at most one mutation
of the caller's. A commit by another task would break this for the holder of
the lock, and cannot happen because it would need the lock. From `TxInv` a
commit appends exactly `muts[t]`, numbered consecutively, and this is what
`SyncStore`'s `CommitBatch` asks for; every other step leaves rows and history
alone and is an announcement or a stutter. That no version is announced twice
needs one invariant more: the versions of deltas in the outboxes and in the
channel are disjoint and not yet announced.

`RepliesAreTrue` follows from `ReplyInv`: the answer a task has prepared is true of
the history as it will be after its commit, which `TxInv` determines, and the history
only grows. `DeltaInv` adds what "exactly once" needs beyond `OnlyCommittedDeltas`:
every version from the first on is announced, waiting with one task or in the
channel, or lost with a process, and only tasks that still have to send hold any.
A snapshot over the response cap drops the deltas of its prune (section 5), hence
`RoomForSnapshots`. `FreshInv` relates the rows a task selected for expiry to those of
the transaction's view. The delete names the key only (`handler.rs:277`): what keeps a
heartbeat that was refreshed between the two from going is the transaction, whose delete
loses the race (`LoseRace`) if anything was committed since its select.

By `SystemHasHost` the composition is a behaviour of the plugin (the kernel and the client
change variables of their own), so each theorem above holds of it. `MirrorInv` says of every
frame between the two that it is true: a snapshot is the content of its version, a
delta a committed mutation, the client's pull has one task or one frame at most
(`OwnRequest`, `OwnTask`, `OwnFrame`, `TrueFrame`), and of the mirror that each row was
committed under its key at or below the version it claims. `MirrorIsExact` is the
strong claim and has three conditions (`Undisturbed`): one handler task, since two can
send their deltas out of order; no crash, since one between commit and push loses a
delta; room for snapshots. Its invariant `ExactInv` follows a pull through the system: while the snapshot
is on its way, the deltas behind it are exactly those it lacks (`Upto`), those
before it are of versions it covers (`Covered`), and so a synced mirror to which a
prefix of them was applied is the content of the version it shows.

### Scheduler_proofs

| Theorem | Statement |
|---|---|
| `SchedulerTypeCorrect` | `Spec => []TypeOK` |
| `FiredOnce` | `OneScanAtATime /\ MarksStick` imply `Spec => []NoDoubleFire` |
| `FiresAreCounted` | `OneScanAtATime /\ MarksStick` imply `Spec => []CountsCoverFires` |
| `FiresAreConfiguredHolds` | `Spec => []FiresAreConfigured` |

`FiredOnce` is the plugin README's "at most once". It assumes that scans do
not overlap and that the scan's own two writes (the mark, and the error record)
do not fail, because without either the claim is false (section 5). Everything
else may go wrong: handlers race with the scan, their writes fail or come late,
reads fail, actions fail, the error text panics, the process dies anywhere.

The invariant `FireInv` has this idea: an occurrence was dispatched only after a
document that *covers* it was stored (`last_fired_ms` at or past it, and for a
one-shot the guard set), and every document of that revision that can still be
stored from anywhere (the database, a scan's hands, a late write) covers it too
(`Accounted`). The sources of documents are kept apart by their revision: the
document a handler is about to store is of a revision nobody has seen
(`Fresh`), so it cannot reset what was dispatched of its own revision; a scan's
fires are later than everything dispatched of their revision (`Unfired`). A late
mark is where this would fail, hence `MarksStick`.

`CountInv` continues `FireInv` with numbers: a scan's mark stores the count it read
plus one before the dispatch, and since no other scan runs, the count it read covers
all fires of the revision so far. So the stored count covers the fires, and a fire
that was marked and not yet dispatched is counted already.

`FiresAreConfigured` needs no assumption: scans may overlap and marks may fail. Documents
are put back whole by tasks that read them long ago, so that deleted ones come
back and replaced ones return; but each copy, wherever it is (`StoreConf`,
`HandlerConf`, `ScanConf`), agrees with the `schedule_set` whose revision it
carries, and those never change once their id is known (`Grown`). A generated id
is known only after `db_incr`: until then no copy of its document exists
(`HandlerConf`). A fire was selected from such a copy at a time not after now.

### Database_proofs

| Theorem | Statement |
|---|---|
| `DatabaseTypeCorrect` | `DbSpec => []TypeOK` |
| `DatabaseImplementsKv` | `DbSpec => ImplementsKv` |
| `PoolHasSchemaHolds` | `DbSpec => []PoolHasSchema` |
| `AnnouncedIffCommittedHolds` | `DbSpec => []AnnouncedIffCommitted` |
| `IdsNeverRepeatHolds` | `DbSpec => []IdsNeverRepeat` |
| `ReadsAreRecentHolds` | `DbSpec => []ReadsAreRecent` |

`DatabaseAssumption` says what `parse_request` lets through: typed values, and a key
wherever one is worked on. The refinement is the statement that no update is lost.
It is not inductive by itself: that a commit is an operation on the latest table
needs that the row the transaction read is the row that is there. `TaskOk` has it
for a task with the write lock, and for one that may still get it (`base =
Len(log)`); a commit of another task moves `Len(log)` and so ends that right
without having to look at what was read (`CommitKeeps`). `NewValue` over the row
read is then `KvStore`'s update of the row there is (`UpsertIsUpdate`), the two's
complement of an integer included.

`RidInv` adds the number of the request: an active request has changed nothing
and has no answer yet, which makes each answer's event agree with the history
(`Honest`). `CountInv` adds what a counter shows: as long as only increments by one
touch it, it grows with each of them (`Counter`), and by no more than the number of
requests that changed anything (`Changers`), which is why an i64 with room for all
requests does not wrap. Two answered increments stand in two versions, so their
values differ.

`RecentInv` is about what a request has in hand while it reads: the row it shows of a
key stood in a version that was current at some moment since the request came, and had not
expired at its arrival. The sweep that precedes every read provides the second
half: what it left had a deadline after the request's own time. `BatchAssumption`
says that a batch names its keys one by one.

### Boundary_proofs

| Theorem | Statement |
|---|---|
| `NoBlockedConnectionHolds` | `NetSpec => []NoBlockedConnection` |
| `AnswersAndCookiesAreOwn` | `NetSpec => [](RepliesAreOwn /\ CookiesAreOwn)` |
| `SlotsBalanceHolds` | `NetSpec => []SlotsBalance` |
| `CallersStayApart` | `NetSpec => []CallersAreApart` |
| `FilesAreTrue` | `FilesSpec => []FilesTellTheTruth` |

`NetInv` says what a task has in hand (`TaskOk`: its cookie, the response it got
and the cookie that came with it were given to its caller by its host, and a
task that connects has passed the gate), the same of the jar and of every cache
entry, with the expiry that the storing request allowed. Retries keep a cookie of
an earlier attempt, which is why `TaskOk` asks for some response of the host and
not for the last. `CapInv` adds that, unless two tasks of one caller have passed
the check at once (`capRaced`), the one that has finds the counter below the cap
when it increments. Addresses, callers, requests and tasks are arbitrary.
`CacheInv` keeps the books of the cache: entries have distinct keys, and the size that is
counted along is the sum over the entries, because a put subtracts what it replaces and
what it evicts before it adds. Facts about sums over sets are proved by a smallest
counterexample, which stands in for the induction the prover lacks.

`FilesInv` says first how the disk may change (`Grown`): directories and links stay, a file
stays a file, no link appears. So a walk that ended somewhere ends there for ever
(`WalkGrown`), and what the handlers make can only prolong walks that ended nowhere.
A resolved path is a place that existed inside a root plus names that were missing; `Held`
says of the first missing name that it was not on the disk at the start, except as a link into
nothing. Hence wherever the path leads later, through directories another handler made meanwhile or
through such a link, it leads inside a root and to nothing that was there before (`HeldLeads`).
The rest is per handler: what `ReadingIt`, `Opening`, `Putting` and `Appending` know of
the file as long as nobody else has written to it (`alone`), and for gated-write that its
parent exists once it was made (`Confirmed`), so that the check compares what is
opened. That a list which is not cut leaves nothing out is a matter of counting:
`SetToSeq` is a bijection (`ListingIsWhole`).

### Calendar_proofs

| Theorem | Statement |
|---|---|
| `CalendarTypeCorrect` | `Spec => []TypeOK` |
| `WithdrawnStaysSilent` | `Spec => []WithdrawnNeverFires` |
| `FiresTwiceOnlyIfUndone` | `Scans = {s}` implies `Spec => []TwiceOnlyIfUndone` |

A *plan* is one event document's reminder as one request stored it. Copies of it
are everywhere: in the database, with a handler, with a scan, in a write that comes
late. `CopyInv` says that a plan names one request, one event and one reminder
time wherever it is found, and `IdInv` that the ids come from the counter.
`WithdrawnInv` is the idea behind the first claim: once a reschedule or delete is
acknowledged with nothing else under way for the event, what may still be stored of
the old plan is only what a scan writes, and a scan writes only documents whose
`reminder_fired` is set. `TwiceInv` keeps, for each plan that has fired and was not
put back by an update, that every copy of it which can still be stored is
marked. Overlapping scans do fire twice (section 5), hence `Scans = {s}`.

### Speech_proofs

| Theorem | Statement |
|---|---|
| `TranscriptsHold` | `ListenSpec => []TranscriptsAreComplete` |
| `SpeechHolds` | `SpeakSpec => []SpeechIsWhole` |
| `DefaultsHold` | `AiSpec => []DefaultsAreKept` |
| `CloudIsHonest` | `CloudSpec => []CloudAnswersAreOwn` |

`ListenInv` accounts for every chunk: a stream holds what came since its start and
was usable (`StreamOK`), a text what its stream held when it was taken (`TextOK`),
and two texts have no chunk in common because a chunk's number is given once (`TextsApart`); an
upload leaves out less than one group of samples (`UploadOK`). `SpeakInv`
says, for every position of the loop, what of the utterance is on the wire (`SaidOK`),
what the reply may report (`ReplyOK`) and that the packets of an utterance are
consecutive (`InTurn`). `AiInv` has one predicate per phase of the start (`TodoOK`) about
what is left to do and what the database then holds; at its end exactly one
default is found (`FoundDefault`). `CloudInv` is about who waits: between request
and reply there is one HTTP request, it was built with the key read for this
request, and a reply was sent or the request is among the discarded. An answer carries the number
of its call, and what a call has taken is the answer of that number or nothing (`from`).

### Plugins_proofs

| Theorem | Statement |
|---|---|
| `SecretsAreKept` | `VaultSpec => []VaultKeepsPromises` |
| `SpeakersAreOwned` | `SoundSpec => []SpeakersHaveOneOwner` |
| `NotesAreTrue` | `NotesSpec => []NotesTellTheTruth` |
| `NotificationsAreTold` | `NotifySpec => []NotifyTellsTheTruth` |

`VaultInv` holds unless two vaults of the caller were in use at once, and then says
(`OneVault`) that whoever holds the lock has the registry's vault in hand, and what
memory, the file, the temporary file and the unsynced rename hold of each name at each
step of the atomic write. `SoundInv` relates the loop's player to the processes that
run, and says of every file of the registered clip that it is that clip's
and whole. `NoteInv` says that a call in flight belongs to one request, that ids are given
in order, and that what was true of the history remains so; calls of a process that
died are answered to nobody. `NotifyInv` follows a request through its steps
(`AtWork`); the inbox is in the order of arrival, and ids are not
repeated although the numbering is read off the stored entries (`InboxOK`; that
the largest number exists needs the number of requests to be bounded, which `Done` provides).

### Desktop_proofs

| Theorem | Statement |
|---|---|
| `DesktopIsTrue` | `DesktopSpec => []DesktopTellsTheTruth` |
| `MediaIsTrue` | `MediaSpec => []MediaTellsTheTruth` |

`DesktopInv` says where an undisturbed setting is on its way (`OnCourse`): while the
set is still to come the device has what it had, after it what was asked for, and
what was read is that; in each place a command that was given up before may have
put its own value instead, and every one still running is an earlier
request's that was answered with a timeout (`CommandOK`). It rests on the order of the steps (`Orderly`: one
set, before the read). For the power profile (`ProfileCourse`) the invariant is about the daemon and the cache
together: what is cached or still to be heard was showable when the request
began or is what it asked for, and the last change to be heard is the profile the daemon has. That brightness comes back within one raw step is
arithmetic over `PercentClose`. `StandsOn` carries an acknowledged setting until the
next one. The panel stays lit because brightnessctl, which is not clamped, is used
only where the panel's file cannot be written.

`MediaInv` rests on `Steady`: as long as a player has not been interrupted it plays one
track at one rate, and the position it last signalled, or the cache's once it was
noted, is where it was or behind it, whatever signals are still on their way. `SeekOK` follows
a seek from the position read to the one set, `PollOK` a command that takes effect while the
plugin waits for the player to follow, and `AnswerOK` what a reply shows of them: a position
extrapolated from a cached one is never ahead of a player that went on steadily.

### Only model-checked

- Liveness (`RequestsAnswered`, `MutationsAnnounced`, `MirrorConverges`,
  `PendingFires`, `ReminderFires`): the prover has no rule for fairness and ENABLED.

All other properties of the passing runs are theorems.

## 5. Where the code differs from what it says

Three disagreements are checked, each by a run that TLC refutes.

- **Out-of-order deltas** (`SyncSystemConcurrent`). sync-client takes a delta
  at or below the mirror's version for one that is covered already, and relies
  on in-order delivery (`sync-client/src/lib.rs:148-150`). The connection is in
  order, but the host's tasks push their deltas after their commits, in any
  order: a delta that overtakes its predecessor makes the predecessor be
  skipped for good. With one handler at a time the claim holds
  (`SyncSystemSequential`).
- **Catch-up** (`SchedulerCatchUp`). "Downtime collapses into at most one
  catch-up fire" (`scheduler/README.md:87-88`): each scan dispatches the next
  missed occurrence instead.
- **Stopped schedules** (`SchedulerStopped`). A scan marks by putting back the
  whole document it read; a schedule whose deletion or disabling was acknowledged in
  between is stored again, enabled, and a scan started after that fires it. A
  `schedule_set` of the id ends what the property asks (`SetAnew`).

These were met while modelling and are part of the models; they are kept out of
the properties by the stated assumptions rather than checked by runs of their own:

- Overlapping scans (`scheduler/src/main.rs:232` spawns one per tick) dispatch
  an occurrence twice; so does a mark whose put fails (`lib.rs:293`) since the
  fire is dispatched nevertheless. Hence `OneScanAtATime` and `MarksStick`.
- A `schedule_set` over an existing cron schedule keeps `created_at_ms` but
  resets `last_fired_ms` (`lib.rs:151`), so occurrences between creation and
  the set are dispatched under the new configuration. `FiresAreConfigured`
  therefore asks that the occurrence is one of the expression's, not that it
  lies after the set.
- A generated id may be one that a client has used already: the set replaces
  that schedule. In the model ids share one name space.
- `String::truncate(256)` panics inside a multi-byte character
  (`lib.rs:321`): action `TruncatePanics`.
- A snapshot over the response cap commits its prune and drops the deltas
  (`sync/src/handler.rs:218`): in `Envelopes`. `AnnouncedExactlyOnce` holds
  only with room for every snapshot.
- The sync plugin's deltas may leave out of version order (`sync/src/lib.rs:52-70`).
- db_incr and db_append of a key that expires between the sweep and the read
  start afresh, as `database/USAGE.md:331` says, but under the deadline that has
  just passed, so the next request sweeps the new value away. The comment at
  `database/src/handler.rs:282-284` ("it was alive a moment ago") overlooks this
  case. In `Upserted`, and in `KvStore` as part of what is promised.
- Two first requests over a file from before version 0.3 both see that
  `expires_at` is missing; the `alter table` of the second fails and so does its
  request, once. The comment at `database/src/db.rs:179-182` calls the migration
  idempotent. In `Migrate`.
- db_keys does not filter expired keys (`handler.rs:299-314`), so it lists a key
  that expired after the sweep, which the comment at `handler.rs:48-52` excludes.
  `ReadsAreRecent` asks of db_keys only that it lists one version.
- A calendar update puts back the `reminder_fired` it read
  (`calendar/src/lib.rs:185-233`), so a reminder that fired in between fires
  again, against "At-most-once" (`calendar/README.md:78`). Overlapping scans
  (`main.rs:216-227`) do so as well. `TwiceOnlyIfUndone` says that nothing else does.
- A mark that times out and is carried out later ends the scan and loses the
  reminder; `calendar/README.md:78-80` mentions a crash only. In `ReminderFires`
  these reminders are `orphaned`.
- The scan puts back its own copy of the event (`calendar/src/lib.rs:267-269`):
  it undoes a reschedule or a delete stored since it read. The old reminder does
  not fire again (`WithdrawnNeverFires`), but the new one never fires and the
  deleted event is back.
- After a host crash between commit and push, the client applies later deltas
  over the gap (`sync-client/src/lib.rs:151-165`): `SyncSystemSequential` is checked without
  crashes, `MirrorShowsCommitted` with them.

Of the smaller plugins, where a property has a condition this is why:

- *secrets*. Two first requests of a caller load two vaults and the second
  replaces the first in the registry (`handler.rs:77`), so a secret acknowledged by
  the first is overwritten by the second's file. Hence `~vaultRaced`.
- *notify*. A speech file that could not be written whole is left behind, although
  its removal is to run "on every path" (`providers.rs:433-493`).
- *network*. Check and increment of the cap are separate (`main.rs:622`), so the cap
  can be exceeded; hence `~capRaced`. A cookie of an attempt that was retried is
  merged when a later attempt fails (`handler.rs:243`), which the comment at
  `handler.rs:191` excludes. A hit is judged by the age the storing request
  allowed, not by its own. Retries can outlive the timeout of the whole request.
- *sound*. Clips that are stopped, replaced or running at the shutdown leave their
  temporary file; `handler.rs:7-10` says files are removed on reap and at the
  shutdown. In `abandoned`. A write that fails half way (`handler.rs:278-280`, a full disk)
  ends the request without `cleanup_temp`: what it wrote stays, as a file of no clip. In
  `WriteFails`; the property speaks of files written in full.
- *stt*. A stream is taken before it is transcribed and published, so a failure
  loses its audio (`handler.rs:161`); a publish without its acknowledgement is an
  error although the event may be out; `end_of_stream` is ignored; an engine that
  failed to load stays failed; odd trailing samples are dropped.
- *tts*. `tts_speak` announces 24000 Hz by default without resampling a model of
  another rate (`request.rs:275-277`, `handler.rs:165-182`); an empty synthesis
  succeeds without `end_of_stream`; a failed send leaves the stream open.
- *ai*. The comment at `main.rs:153-155` does not hold when models are declared:
  a declared model without `is_default` takes the flag from the stored default, and
  a refresh overwrites the endpoint and key of a declared model.
  `set_model_default` is two statements that commit by themselves. A failed seed
  skips the default agent. Hence `aiClean` and the conditions on `aiBefore`.
- *search*. A count of 0 is accepted although the provider's minimum is 1.
- *notes*. An update is a read and a write: it undoes what came between; hence
  `noteRaced`. A list fails for good once the documents exceed the database's
  response cap (`store.rs:95`).
- *gated-write*. Parent directories are made before the check that the target is
  inside (`handler.rs:87-101`), so directories may appear outside;
  `FilesTellTheTruth` allows these and nothing else.
- *filesystem*. A read that races a write may return mixed bytes and a `truncated`
  from a stale size; a failed write leaves the file empty; overlapping writes mix.
  Hence `alone`.
- *media*. The extrapolation counts paused time after a change of rate or a seek
  while paused (`mpris.rs:505`); a status that races a pause stores the old rate
  again (932); a new track at position 0 is shown at the old position (912); the
  metadata cache mixes two tracks (990); a seek beyond the signed 64-bit range
  wraps (748); seeks on players that have `SetPosition` but neither name a track nor report
  a position land elsewhere. Hence `calm`, `settled`, `Seekable`.
- *clipboard*. The child is waited for before the timeout starts
  (`providers.rs:211-222`), so a hung backend is never killed, against
  `clipboard/README.md:45`.
- *system*. The fallback through brightnessctl is not clamped (`brightness.rs:57-61`)
  although `brightness.rs:4-7` rules out a black screen; a command past its timeout
  runs on (`runner.rs:58`) and may bring its value over the answer, or the effect, of a later
  request, hence `TimedOut`; the power profile is read back through a cache that the set does
  not update (`power_profile.rs:82-88`), so a set may be answered with the profile it
  has just replaced, hence `Showable`; a sink above 100 % cannot be read
  (`volume.rs:122`).
- *ai, search, tts, stt, notify, sync-client*. The SDK's `send_action` discards every frame
  that is not its answer (`notes/src/lib.rs:9-15` describes it): requests, chunks,
  pings and shutdowns that arrive meanwhile are lost. `missed` and `cloudMissed`.

## 6. Assumptions about the environment

- *Kernel*: in-order delivery per connection; a reply goes to the caller of its
  action id; an event that was not acknowledged may be delivered again after
  others; a new connection starts with an empty queue.
- *SQLite*: as in section 2; a commit is durable.
- *Database plugin, as scheduler and calendar see it*: a call is carried out at once
  when it is answered, or after its caller's timeout, or not at all. A crash
  leaves the writes in flight to be carried out or lost; the process is started
  again only after that (`Restart` waits for `late = {}`; start-up,
  registration and the first interval take much longer than a queued call).
- *Clock*: never moves back, except for notify.
- *SDK*: `send_action` reads frames until its answer comes and drops the others.
- *File system*: a rename is atomic; what was not fsynced may be lost or torn by a
  power loss, not by the end of a process.
- *Host programs, players, engines, providers*: arbitrary answers of the kinds the
  code tells apart, any time later, or none; what the user does to the devices is
  not announced.
- *Supervisor*: starts a plugin again after a crash.

## 7. What is not modelled, and the plan

Left out on purpose:

- the macOS back ends of media, system, clipboard, sound and notify: other tools,
  the same requests;
- `sys_info` and `sys_procs`, `schedule_get`, `schedule_list`, `event_get`, `event_list`
  and the client's reads of its mirror: they change nothing;
- `ping-pong-rs`, an SDK example, and the packaging scripts;
- the kernel and the SDK, which are not in the repository;
- text formats, JSON beyond accept or reject, logging, the contents of HTTP
  messages, TLS, the streaming of bodies, IPv6 literals, cryptography, the speech
  models, the codecs;
- the drain of tasks at the shutdown of network, and the bounds of the loop's
  channels in scheduler and calendar (those of notes and sync are modelled).

What would come next: abstract specifications of the vault and of the inbox with
refinements in place of `maySee` and `kept`; the composition of `Notify` with `Speak`
and of `Cloud` with `Network` and `Vault`, which now meet only through what each
assumes of the other.
