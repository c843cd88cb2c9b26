# pgnats in TLA+

A verification development for pgnats, the PostgreSQL extension (Rust, pgrx)
that publishes to NATS from SQL and runs background workers which subscribe to
NATS subjects and call SQL functions. Source paths below are relative to the
repository (`src/bgw/...` and so on; PROJECT.json writes them from the root of
this project's parent, `src/src/bgw/...`).

Contents: [inventory](#inventory) · [modules](#modules-and-the-code) ·
[runs](#runs) · [bounds](#bounds) · [fairness](#fairness) · [proofs](#proofs) ·
[what the runs found](#disagreements-the-runs-show) ·
[not modelled](#what-is-not-modelled) · [plan](#plan)

## Inventory

```
 client backends                launcher                    subscriber of database d
 ---------------                --------                    ------------------------
 fdw_validator    --try_send-->  RING (64 KiB, LWLock)
 nats_subscribe   (5 tries)        |  drained under lock
 nats_unsubscribe                  v
                              workers / pending / terminated
                                   |  blocking shm_mq_send     main loop (1 thread)
                                   +------ DSM segment ------>   | try_recv
                                   |                             v
                                   |  SIGTERM                 mpsc channel <--- tokio tasks
   <--- DbExtensionStatus, SubscriberExit (try_send, once)       |              (NATS subjects)
                                                                 v
 NatsClient per backend                                  pgnats.subscriptions, callbacks
 (connection, caches)
```

| Component | State | Operations | What makes it correct |
|---|---|---|---|
| **Launcher message bus**, `bgw/ring_queue.rs` | `read`, `write`, `is_full`, `buffer` in shared memory, under an LWLock | `try_send`, `try_recv` | FIFO; nothing lost, doubled or cut; a message that fits is accepted; never a slice outside the buffer |
| **Launcher**, `bgw/launcher/{mod,context,message}.rs` | maps `workers`, `pending_workers`, `terminated_workers` from a database to an entry | start-up scan, drain of the bus with one handler per message type, waiting for ended workers, shutdown | at most one worker per database that is meant to run; an entry in one map; it waits only for workers it has told to stop; everything ends on SIGTERM |
| **Worker entry, DSM and shm_mq**, `bgw/launcher/worker_entry.rs`, `bgw/pgrx_wrappers/` | DSM segment with one `shm_mq`, handle of the background worker | start, terminate, wait, blocking send, non-blocking receive | messages arrive in order and at the right worker; nobody blocks for good |
| **Backends**, `bgw/fdw.rs`, `api/nats.rs` | the message in hand, tries | `fdw_validator` (CREATE/ALTER SERVER), `nats_subscribe`, `nats_unsubscribe`: send with retry | the call ends; an accepted command has an effect |
| **Subscriber loop**, `bgw/subscriber/{mod,message}.rs` | place in the loop, channel | start, latch, migration check, launcher queue, channel, exit | commands carried out in order; on a replica nothing listens |
| **Subscriber connection and context**, `bgw/subscriber/{nats,context}.rs` | map subject → (task, functions), `status`, `config`, tokio tasks | subscribe, unsubscribe, unsubscribe_all, reconnect, run_callbacks, restore | one live task per entry, no task without entry, messages processed in order |
| **Subscriptions table**, `bgw/subscriber/pg_api.rs`, `bgw/mod.rs` | rows (subject, callback) | INSERT, DELETE, scan, trigger on DROP FUNCTION | table and memory agree when nothing is under way |
| **NATS client of a backend**, `nats_client.rs`, `api/mod.rs`, `ctx.rs`, `init.rs` | connection, context, cached buckets and object stores, configuration | publish, request, KV and object store calls, reload, forced reload | handles belong to the connection in use; a reload takes effect |
| **Configuration**, `config.rs` | none (reads the catalog) | look the server up, parse its options | what is written is what a connection uses, TLS above all; an unreadable option costs only itself |
| Packing and helpers, `utils.rs` | none | pack OID and DSM handle into one argument | a worker finds its own database and queue in its argument |
| Role notification, `bgw/notification.rs` | none | announce the role of the instance on NATS | the last role announced is the one the instance has |
| SQL wrappers, `api/{conv,macros}.rs`; catalog scan, `launcher/pg_api.rs`; `log.rs`, `lib.rs`, `constants.rs` | none | conversions, registration | – |
| `bgw/run.rs` | – | declared by no module of the crate: dead code | – |

How they interact: backends and subscribers reach the launcher only over the
ring; the launcher reaches a subscriber over its `shm_mq` and with SIGTERM; the
two share the catalog of the database (is the extension there, is the server
there), which users change with DDL inside transactions. Inside a subscriber,
tokio tasks on other threads talk to the single-threaded loop over one
unbounded channel, and the loop shares `pgnats.subscriptions` with an event
trigger that runs in any backend.

What is hard here:

* **A message names a database, never a worker.** Status and exit messages of
  an old worker may be read after the next one was started.
* **A lock held across a blocking send.** The launcher drains the ring under its
  exclusive lock and sends to subscribers meanwhile; the subscribers need that
  lock to report and to exit.
* **One-shot reports.** `DbExtensionStatus` and `SubscriberExit` are sent once
  and nothing repeats them.
* **Transactions around messages.** The validator sends before the commit: a
  configuration reaches the worker that may never be committed, or the worker
  reads the catalog before it is.
* **Restarts.** The launcher forgets its maps, the ring and the workers stay; a
  worker has only the table.
* **Aborted tasks** run to their next await, and what they had received is lost.
* **Two records of one thing**: the table and the map in the worker change at
  different moments, by different hands, and one of the two changes may fail.
* **Errors that are logged and passed over**: a failed scan, announcement,
  write or lookup is not tried again.
* **The ring filled to the last byte**, where `read = write` means two things.
* **Caches of handles** that outlive the connection they were made on.

`PROJECT.json` lists every hazard at its line, with the properties that cover it.

## Modules and the code

| Module | Models | State to fields | Proofs |
|---|---|---|---|
| `RingQueue` | `ring_queue.rs`, byte for byte | `read`, `write`, `is_full`, `buffer` are the fields; `reply` is the last result; `pending` is history | `RingQueueProofs` |
| `FifoQueue` | the abstract promise of the ring | `queue`, `used`, `reply` | `RingQueueProofs` |
| `Launcher` | launcher, life of the subscriber processes, backends, bus, queues | `workers`, `pending_workers`, `terminated_workers` of `LauncherContext`; `lpc` is where `background_worker_launcher_main` is; `proc[w]` where a subscriber process is; `mq[w]` its `shm_mq`; `catalog` the committed DDL | `LauncherProofs`, `LauncherOrderProofs` |
| `LauncherConfig` | which options reach which worker: the steps of `Launcher`, each with what it does to configurations | `config[w]` is `SubscriberContext.config`; `committed` the options in `pg_foreign_server`; `ddl`, `doomed` the open transactions | `LauncherConfigProofs` |
| `LauncherCallback` | callbacks that call `nats_subscribe`: the steps of `Launcher`, with a call running inside a worker | `inside[b]` the worker in which the call runs | – (model-checked) |
| `WorkerArg` | packing of OID and DSM handle in `utils.rs` | – (operators) | `LauncherConfigProofs` |
| `Subscriber` | one subscriber worker, its tasks, the table, commands and DDL around it | `status`, `config` of `SubscriberContext`; `subscriptions` of `NatsConnectionState`; `channel` the mpsc channel; `task` the tokio tasks; `table` the rows; `announced` the role last sent to NATS | `SubscriberProofs`, `SubscriberCommandProofs` |
| `SubscriptionCommands` | the abstract promise of `nats_subscribe` and `nats_unsubscribe` | `pending`, `table`, `serving` | `SubscriptionCommandsProofs` |
| `NatsClient` | the NATS client of one backend | the fields of `NatsClient` under their names; `fdw` what `fetch_config` reads | `NatsServerProofs` |
| `NatsServer` | `config.rs` above it: options as written, looked up and parsed | `server` the written options; `found` whether the lookup works | `NatsServerProofs` |
| `MCRingQueue`, `MCLauncher`, `MCLauncherConfig`, `MCSubscriber`, `MCNatsServer` | – | instances for TLC: message sets, written options, symmetry, bounds | – |

**RingQueue.** A call is one step, since every caller holds the lock around it.
`try_send` is `TrySend` (accepted or refused), `try_recv` is `TryRecv` with its
three outcomes: `None` (empty, or the "corrupted data?" test), a panic (a slice
outside the buffer, which leaves the structure as it was), a message. The two
branches on `write >= read` are kept apart because they differ: one reads
without wrapping and does not reduce `read` modulo the capacity. `SpecNotFull`
is the ring while no accepted message fills it to the last byte; it implements
`FifoQueue` (`FifoSpec`). `Spec` is the ring without that restriction.

**Launcher.** The bus is the queue that `RingQueue` implements, bounded by a
number of messages. The main loop is `Boot* (Wake Reap* Reaped Handle* Drained)*`;
`lpc = "drain"` and `"send"` are the states in which the launcher holds the bus
lock, and `BusFree` is the guard of every other sender. `Handle` has one
disjunct per outcome of `process_launcher_bus`; a forward is two steps,
`HandleForward` and `SendDone`/`SendDetached`, because the send blocks: the
`shm_mq` has the minimum size, so it returns only when the receiver has attached
and read what came before. A receiver that dies before it attaches is not
noticed by `shm_mq`, and the launcher passes no worker handle that could tell.
A worker goes through `launched → checked → connecting → attached → serving →
exiting → none`, one step per call that other processes can observe. `Sigterm`,
`LauncherCrash`, `ConnectFails` and `WorkerCrash` are the faults, enabled by the
constant `Faults`; DDL other than CREATE SERVER is enabled by `Changes`.
`ForeignServerDropped` is a handler of the code that nobody sends to, and is
kept in `HandleShutdown`.

**LauncherConfig.** It extends `Launcher`: each of its actions is an action of
`Launcher` joined with its effect on the configurations, so nothing of
`Launcher` is weakened and its properties can be checked here too
(`LauncherLive` does). A configuration is the number of the message that first
carried it. `FetchConfig` is a step of its own between the status message and the
connect, because the catalog may change in between. Two statements on one server
that overlap cannot both commit: the second to commit has read a row that has
been replaced (`doomed`), or the event trigger refuses it. The argument of a
worker is packed by the operators of `WorkerArg`, which it extends too.

**LauncherCallback.** A worker inside `run_callbacks` whose function calls
`nats_subscribe` is a sender on the bus and reads nothing before the call
returns: `LoopStep` is `WorkerStep` of a worker that is not `InCallback`. All
other steps are those of `Launcher`, with its faults; only a crash of a worker
inside a callback is left out. It is there for one counterexample (below); no
regular run and no theorem is about it.

**WorkerArg.** Pure operators, with the width as the parameter `Half`; `as u64`
and `as i64` are the reinterpretation they are, not the identity.

**Subscriber.** The loop's phases are `latch`, `queue`, `channel`, as in the
code: it checks the role (`CheckMigration`), empties the launcher's queue
(`ApplyConfig`, `QueueCommand`), then empties the channel (one action per
internal message). `run_callbacks` is one step: the functions of a subject are
called one after the other by the same thread and nothing the model keeps can
change between two calls, except by another backend's DDL, whose order with the
whole step is free. The bookkeeping of `subscribe`, `unsubscribe`,
`unsubscribe_all` and `reconnect_nats` are the operators `AddCallback`,
`RemoveCallback`, `RemoveAll`, `Reconnect`. A task is `spawned` until
`subscribe` has answered, then `listening`, with the messages it has received in
`buf`; an aborted one may still take a step before `Cancel`. A task handle that
an entry still names is not used again. `Demote` (master to replica in a running
instance) does not happen in PostgreSQL without a restart; the code handles it
and its tests force it with `ChangeStatus`, so one run enables it. A worker that
restarts reads whatever options the server has then (`config' \in Opt`).
Failures are events: `RestoreFails` (the scan), `ConnectFails`, `WriteFails`
(INSERT or DELETE, for any reason: `Writes` changes the table or does not, and
the map is changed in either case, as in the code), `AnnounceFails` (settings
that cannot be read, or NATS refuses), `BodyUndefined` (a function that exists
calls one that does not, which PostgreSQL reports with the same code).

**SubscriptionCommands.** What users may rely on: commands take effect one at a
time, in the order of acceptance, on what is served and, unless the write fails,
on the table; nothing else adds to what is served but the rows read at a start
or a promotion, nothing else takes from it but missing functions, refused
subjects, demotion and the end of the worker. Under the mapping in `Subscriber`
(`Commands`), `pending` is the commands of the channel followed by those of the
inbox (`Pending`), `serving` the pairs of the map (`Serving`), `restoring` the
rows still in the channel (`Restoring`). `Only` picks the messages out of a
queue; it is a recursive function, so that proofs can follow it.

**NatsClient.** A backend is one thread and each SQL function blocks on its
future, so a call is one step, and what NATS answers to its connect or request is
a choice of the step. A handle is the record of the connection it was made on,
which is what tells a live handle from a stale one: its number, the options it
was made for, and `rooted`, whether `current_dir()` could be read then. If it
could not (`Roots`), `initialize_connection` connects without the TLS options and
keeps the configuration as if it had used them.

**NatsServer.** It puts `fetch_config` and `parse_config` under `NatsClient`:
`WriteServer` is CREATE, ALTER or DROP SERVER, `LookupChanges` a lookup that
begins or ceases to fail, and either is `AlterServer` of `NatsClient` if the
parsed result differs, and a stutter otherwise (`Reads`). A text is a model
value, a number is itself. `Asked(h)` is the TLS options that a connection was
really given, from its options and `rooted`. Only these are modelled: without
them a connection may still use TLS, because its host says `tls://` or because
the server asks for it.

History variables (`pending`, `received`, `wanted`, `owed`, `calls`,
`unwritten`, `insync`, `fetched`, `forwarded`, `refused`, `rolledBack`) are written and never read by the modelled code.

In each module, `Mut<X>` is a plausible wrong version of `X` under which one of
the properties fails; `PROJECT.json` pairs them. No specification uses them.

## Runs

Runs that pass:

| Run | Properties | Question and answer |
|---|---|---|
| `RingQueueFifo` | `FifoSpec` | Is the ring a bounded FIFO queue while it is never filled to the last byte? Yes, at every position of the wrap. |
| `RingQueueFull` | `TypeOK`, `PanicIsPermanent` | What can the exactly full ring do? Indices stay in range; a panic is for good. |
| `LauncherSafety` | `TypeOK`, `EntriesConsistent`, `ReapsOnlySignalled`, `OneRunning`, `OneActive`, `Routed`, `DeliveredInOrder` | Two databases share bus, slots and launcher, with overlapping workers, failed connects, crashes of workers, SIGTERM and DDL: maps consistent, one worker meant to run per database, messages at the right worker and newer than what was read before. |
| `LauncherLive` | `ConfigTypeOK`, `ConfigSettles`, `WorkerKnowsItself`, `CallReturns`, `ServerServed`, `ForwardedIsRead`, `ShutsDown` | `LauncherConfig` with the server in place and two backends whose statements overlap, commit or roll back: calls return, databases get and keep a serving worker, what is forwarded is read; SIGTERM at any moment stops everything; and the worker ends up with the committed options, but for three named windows. |
| `LauncherOrphans` | `IInv`, `OrphansLeave` | The inductive invariant holds with launcher crashes too, and the workers a crash leaves behind end. |
| `SubscriberSafety` | `TypeOK`, `NoStrayTask`, `MemoryBacked`, `CommandsApplied`, `MemoryFollows`, `CommandsSpec` | Every event but demotion, re-created functions and broken bodies, in any order, failed writes, scans, connects and announcements included: no stray task, no call without a row, table and worker end up as the commands ask, and the subscriber implements `SubscriptionCommands`. |
| `SubscriberRoles` | `EntryHasTask`, `SilentOnReplica` | Promotion, demotion, reconnects, a subject that NATS refuses, functions dropped and created. |
| `SubscriberLive` | `CalledInOrder`, `HeardIsProcessed`, `StoredIsSubscribed`, `LastAnnouncementTrue` | Message order and completeness while connection and subscription stay; stored subscriptions come back after restarts and promotion; the last announcement tells the role the instance settles in. |
| `NatsClient` | `TypeOK`, `HandlesOfConnection`, `ReloadTakesEffect`, `TlsAsWritten` | `NatsServer`: any sequence of calls, failures, reloads, written options, dropped servers and failing lookups: handles belong to the connection, a reload takes effect, and the connection has been made to require TLS exactly when a CA is written, and to present a certificate exactly when one is written in full, unless `current_dir()` failed when it was made. |

Three runs end in a violation: `RingQueueFullPanic`, `LauncherDeadlock` and
`NatsClientStores`, [below](#disagreements-the-runs-show).

`OneRunning` is a claim about a launcher that does not crash, and says so.
`DeliveredInOrder` is about the workers the launcher has in one of its maps
(`Held`). One that has dropped out of `terminated_workers`, overwritten by the
next to be told to stop, may read its old message late: `NeverOvertaken`, the
claim without `Held`, fails for it (`LauncherOvertaken.cfg`).

`ConfigSettles` speaks of a database whose statements have ended and whose
configurations have all been read, and names the ways in which its worker may
then have other options than the committed ones: those of a transaction that
was rolled back, a new server that could not be reached, and a commit that fell
between the worker's look at the catalog and its registration (`CameBetween`).
That there is no fourth is what the run shows; each of the first and third has
its counterexample [below](#disagreements-the-runs-show).

`CommandsApplied` and `MemoryFollows` except the commands sent to a worker that
has not yet noticed its promotion, which it ignores, and `CommandsApplied` the
pairs whose last write failed. `MemoryFollows` excepts no failed write: the map
follows the commands all the same. `CalledInOrder` and `HeardIsProcessed` are
checked without unsubscribe commands and new configurations, which break them;
`StoredIsSubscribed` and `LastAnnouncementTrue` without failing scans,
announcements and broken bodies, and with at most one promotion (see below).

`TlsAsWritten` compares what is written in the catalog with what a connection was
given (`Asked`), with parsing, caching, failed connects and reloads between the
two. It speaks of lookups that work and says what `current_dir()` takes away;
`TlsKept`, the claim without these two exceptions, fails for each of them
(`NatsClientLookup.cfg`, `NatsClientDirectory.cfg`). It is about the options of
the client, not about what is negotiated on the wire.

`LauncherLive` has the server in place and SIGTERM as its only fault, so one
worker of the database lives at a time. It says nothing about overlapping
workers, late exits, a NATS that cannot be reached or calls from callbacks: the
first two are for the safety run, the third is `LauncherDeadlock`, the last
`LauncherCallback`.

`LauncherOrphans` and `NatsClient` and the ring runs check for deadlock. The
other runs switch the check off: the launcher stops after SIGTERM, and commands
and messages are bounded.

## Bounds

| Run | Bound | Why it is enough for the question |
|---|---|---|
| RingQueueFifo | capacity 9, header 2, four messages of lengths 0, 1, 1, 3 | 9 is odd, so indices visit every residue; header and payload each start and wrap at every offset; two equal lengths show a swap. `RingIsFifo` covers every size |
| RingQueueFull | capacity 8, one message that fills the empty ring, at most 4 pending | reaches full with `read` = 0 and with `read` ≠ 0. The theorems cover every size |
| LauncherSafety | 2 databases, 2 slots, bus 2, 2 commands, 1 try | both databases with a worker, or two overlapping workers of one and none of the other; a full bus, refused sends and a call that gives up happen. The proofs cover every size for all its properties |
| LauncherLive | 1 database, 2 slots, 2 backends, bus 3, `MaxCmds` 1 (no call begins once a message has been accepted, so there are at most two, and two overlap), 2 tries, halves of 3 bits (`Half` 4) | the configurations of two statements that overlap meet the worker's start, its registration, its loop and its end, and each commits or is rolled back before or after (the theorems cover every size for `ConfigTypeOK`, `ConfigSettles` and `WorkerKnowsItself`); a bus with room for what one worker and one backend send lets a worker always report and a call give up once the launcher has stopped; all 64 pairs of halves, the highest bits included; no symmetry, as liveness requires. `LauncherConfigFaults` has statements one after the other and the faults |
| LauncherOrphans | 1 database, 2 slots, no commands | an old and a new worker around any number of launcher restarts |
| Subscriber* | 1–2 subjects, one of them refused, 1–2 functions, 1–2 options, 2–3 task handles, 2 sends, 0–2 messages | a subject with an old aborted task and a new one, a refused subject subscribed again, two functions on one subject, two messages to see an order; exits, changes of role and failures are unbounded; the theorems cover every size for all but the three liveness properties |
| NatsClient | seven ways of writing options (plain, a port that is no number, one too large with a capacity, TLS without, with half and with a whole client certificate, a certificate without TLS) or no server, lookups and `current_dir()` that work and fail, 1 name, 3 connections | each branch of `parse_config`; a connection, the next one, and a handle of the first in a cache |

Symmetry (`Permutations`) is used in safety runs only: on databases, slots and
backends, which are chosen by `\E` throughout, and on task handles.

`MaxCmds`, `MaxSends`, `MaxMsgs`, `MaxConn` and `MaxPending` are bounds of the
models; `MaxBus`, `MaxTries` and the sets of slots stand for limits of the code.

## Fairness

* `Launcher!Fairness`: weak fairness of the launcher's steps (it wakes up each
  second; the postmaster restarts it after `restart_time`); strong fairness of
  each worker and each backend, because they ask for the bus lock again and
  again while the launcher takes and releases it, and an LWLock wakes its
  waiters in order. Transactions end. Nothing is assumed of users and faults:
  a call, a signal, a crash or a failing connect need never happen.
* `Subscriber!FairSpec`: the loop goes on (latch with a timeout of a second) and
  the runtime polls every task that can proceed. Nothing is assumed about
  restarts: a worker that has ended need not be started again, and the
  properties speak of one that runs.
* `LauncherConfig!ConfigFairness` is `Launcher!Fairness` for the same processes:
  a step of `LauncherConfig` is one of `Launcher` and its effect on options.
* `FairSpecInstalled` and `ConfigFairSpecInstalled` start with extension
  and server in place; `FairSpec` with any catalog. Liveness is checked from the
  former, since a server created while
  the launcher runs may stay without a worker (`LauncherCreateServer.cfg`).

Runs of safety properties use the specification without fairness.

## Proofs

tlapm checks every proof to the last leaf, from the assumptions named in the
modules (`SizeAssumption`, `MsgAssumption`, `LeBytesAssumption`,
`LauncherAssumption`, `ConfigAssumption`, `ClientAssumption`,
`ServerAssumption`, `SubscriberAssumption`, `HalfAssumption`): the header is at
least a byte and no longer than the ring, encoding and decoding of a length are
inverse, distinct constants are distinct, bounds are natural numbers. TLC
evaluates them in each run. Hypotheses beyond them stand in the table.

| Theorem | Says, for all values of the constants |
|---|---|
| `RingQueueProofs!IndicesInRing` | `Spec => []TypeOK`: indices, flag and buffer stay in range, also in exactly full rings and after panics |
| `RingQueueProofs!RingIsFifo` | `SpecNotFull => FifoSpec`: while it is never filled to the last byte, the ring implements `FifoQueue` |
| `RingQueueProofs!PanicStays` | `Spec => PanicIsPermanent` |
| `LauncherProofs!TypeCorrect` | `Spec => []TypeOK` |
| `LauncherProofs!Inductive` | `Spec => []IInv` |
| `LauncherProofs!AtMostOneRunning` | `Spec => []OneRunning` |
| `LauncherProofs!WaitsForSignalled` | `Spec => []ReapsOnlySignalled` |
| `LauncherProofs!RoutedToOwnDatabase` | `Spec => []Routed` |
| `LauncherProofs!MapsConsistent` | `Spec => []EntriesConsistent` |
| `LauncherProofs!NeverReplaced` | `Spec => []OneActive` |
| `LauncherOrderProofs!MessagesInOrder` | `Spec => []DeliveredInOrder` |
| `LauncherConfigProofs!ConfigImplementsLauncher` | `ConfigSpec => Spec`: the launcher with options is the launcher, and all of the above holds of it |
| `LauncherConfigProofs!ConfigTypeCorrect` | `ConfigSpec => []ConfigTypeOK` |
| `LauncherConfigProofs!ConfigurationSettles` | `ConfigSpec => []ConfigSettles` |
| `LauncherConfigProofs!WorkersKnowThemselves` | `ConfigSpec => []WorkerKnowsItself` |
| `LauncherConfigProofs!PackingLosesNothing` | packing and unpacking give back OID and handle, within a signed integer, for halves of any width |
| `NatsServerProofs!Inductive` | `Spec => []IInv` |
| `NatsServerProofs!TypeCorrect` | `Spec => []TypeOK` |
| `NatsServerProofs!HandlesBelong` | `Spec => []HandlesOfConnection` |
| `NatsServerProofs!ReloadEffective` | `Spec => []ReloadTakesEffect` |
| `NatsServerProofs!ServerImplementsClient` | `ServerSpec => Spec /\ []Read`: all of `NatsClient` holds with options as written, looked up and parsed |
| `NatsServerProofs!TlsFollowed` | `ServerSpec => []TlsAsWritten`: what a connection was given is what is written, for any texts, with `current_dir()` failing at any connect |
| `SubscriberProofs!TypeCorrect` | `Spec => []TypeOK` |
| `SubscriberProofs!ListeningHolds` | `Spec => []Listening` |
| `SubscriberProofs!NoTaskLeftBehind` | `Spec => []NoStrayTask` |
| `SubscriberProofs!EntriesAreServed` | `Spec => []EntryHasTask` |
| `SubscriberProofs!ReplicaIsSilent` | `Spec => []SilentOnReplica` |
| `SubscriberProofs!BackingHolds` | `Spec => []Backing`, where functions are not created again |
| `SubscriberProofs!OnlyStoredIsServed` | `Spec => []MemoryBacked`, where functions are not created again |
| `SubscriberCommandProofs!LastCommandApplied` | `Spec => []CommandsApplied` |
| `SubscriberCommandProofs!LastCommandServed` | `Spec => []MemoryFollows`, where no body calls a missing function (`"BodyUndefined" \notin Events`) |
| `SubscriberCommandProofs!CallsInOrder` | `Spec => []CalledInOrder`, where no subscription is taken away (`OnlySubscribes`: no unsubscribe command, new configuration or demotion) |
| `SubscriptionCommandsProofs!CommandsImplemented` | `Spec => CommandsSpec`: the subscriber implements `SubscriptionCommands`, where no body calls a missing function |

**RingQueue.** `TypeOK` is inductive. The lemmas say that copying keeps the type
of the buffer, that slices are sequences of bytes, and that `Advance` stays in
the ring. The only delicate point is the branch of `RecvMessage` that does not
reduce `read`: `~ PayloadOutOfRange` bounds it by `CAPACITY`, which is why
`TypeOK` admits that value.

**RingQueue, the queue.** What the abstract queue holds is in the ring as bytes,
and `Holds(q, off)` says how: with positions that run on past the end of the
buffer and are wrapped one by one, the i-th message of `q` begins at `off[i]`,
each begins where the one before ends, the first at `read`, the last ends at
`read + Used`, and header and payload are stored byte for byte. `off` is a
function, so nothing is summed up by recursion. `QueueInv` says that some `off`
holds the accepted messages. The lemmas show that copying in one or two parts
stores a message and leaves the others as they are, and that reading returns the
first; then each step of the ring that is not full is one of the queue.

**RingQueue, panics.** A receive panics only in an exactly full ring whose
oldest message wraps (`Wedged`); sends are refused there, and receives panic
again. That the header which is read has not been torn, so that no other ring
panics, needs `WholeMessages`: the bytes in use are whole messages, also where
`read` stands on `CAPACITY`.

**Launcher.** `OneRunning` is not inductive: a `NewConfig` could start a second
worker if the running one were not in the maps. `IInv` adds `Tracked` (a running
worker without SIGTERM is in `pending_workers` or `workers` under its own
database), `OneActive` (those two exclude each other), `EntriesConsistent` (an
entry is in one map, under the right database), `BootFresh` (a launcher that
starts has empty maps for the databases it has still to visit, so the entries it
inserts replace nothing), `SendRegistered` (the receiver of the send in progress
stays registered) and `SlotClean` (a slot without process carries no message or
signal over). `OneRunning` follows from `Tracked` and `OneActive`: two running
workers of a database are both the one entry there is. The proof splits `IInv`
into the part about types, the part about maps (`MapInv`), and the rest, has one
lemma for each helper that changes the maps (`StartMap`, `RegisterMap`,
`ShutdownMap`, `EndsMap`, `MovesMap`) and one step per action.

**Order of messages.** `OrderInv` stands on `IInv`. `BusOrdered` says that
everything that has left the bus is older than what is on it. `DeliveredInOrder`
then needs `NewestHeld`: of two workers of a database that both have a message
waiting, the one in the maps has the newer. That in turn needs the receiver of a
send to be the only worker of its database in the maps that serves:
`NotYetServing` says that a worker started while the launcher drains the bus
cannot have reported before the bus is released, and before it drains again the
launcher waits for the predecessor.

**LauncherConfig.** Each step is one of `Launcher`, so `IInv` and `OrderInv` hold
here. `ConfigSettles` is not inductive, since it speaks of the moment when all
has settled; `SettleInv` says for every moment where a configuration is. What
bears on a database is placed (`CommittedPlaced`, `Statements`): on the bus, in
the send in progress, or older than all the launcher still has to send. Every
number that a message or a worker has is at most the committed one, or rolled
back, or of a statement still open (`Fates`). And of everything that a worker in
the maps has found in the catalog or been sent, it is still on its way, was
refused by a failing connect, or is past: the worker has it or a newer one, and
all that comes is newer (`GivenAccounted`). When statements have ended and the
messages are read, only the windows of `ConfigSettles` are left. The order that
`Past` needs is `BusOrdered`. `WorkerKnowsItself` is a fact about `WorkerArg`.

**NatsClient.** `HandlesOfConnection` needs that connection numbers are fresh
(drained numbers and the current one are at most `made`); `ReloadTakesEffect`
needs that the configuration remembered after a reload is the one of the server.
Both are conjuncts of `IInv`.

**NatsServer.** Every step is a step of `NatsClient` or leaves its variables
alone, so `ServerSpec` implements `Spec` with the same variables. `Read` says
that `fdw` is what parsing makes of what is written; with `ReloadTakesEffect`
the connection of a backend in sync was made for those options. `TlsAsWritten` is
then a fact about `Tls`, and about `Asked`, which takes them away from a
connection made without a working directory.

**WorkerArg.** The sum of shifted half and other half is split again by `\div`
and `%` with the base; the two reinterpretations are inverse on their ranges.

**Subscriber, tasks.** `NoStrayTask` is not inductive: unsubscribing would lose
a task if two entries named one handle. `EntryHasTask` excludes that, since a
task has one subject. It needs `SilentOnReplica` in turn, because a replica
throws away the report of a refused subject that an entry would be waiting for.
`Listening` is their conjunction, with an empty map in a stopped worker.

**Subscriber, rows.** A row read by a scan travels through the channel, and an
unsubscribe command could delete it from the table meanwhile, to be subscribed
in memory only. `Backing` says why it cannot: scans happen only where no
unsubscribe command is in the channel (`NoneLeaving`), so rows stay ahead of all
of them (`RowsFirst`), and every row in the channel is backed.

**Subscriber, commands.** `Following`: if the last command for a pair asked for
something, then the last message for the pair in the inbox asks for it; or the
inbox has none, and the last in the channel does; or neither has any, and it is
done in the table or its write failed. Each action moves the pair along these
three cases.

**Subscriber, the map.** `Remembering` is the same for the map in place of the
table, where a failed write does not count. It needs more about rows: when the
last command for a pair took it away, a row that a scan found before must still
be followed by that command, or the pair would come back (`RowsLeave`); and only
refused subjects are reported (`Reports`). A body that calls a missing function
makes the worker forget a function that exists (`SubscriberUndefined`), so the
theorem has the hypothesis that there are none.

**Subscriber, order of calls.** `InOrder` says that what a function has been
called with, what waits for it in the channel and what its task holds follow one
another in the order of publication. That holds while a subject has one task at
a time, which `Steady` says: only tasks of refused subjects are aborted, and
those never listen. Unsubscribe commands, new configurations and demotions abort
others, which may still pass on a message (`SubscriberResubscribe`); hence
`OnlySubscribes`.

**Subscriber, the refinement.** There is one lemma for each group of actions
(`SimulateStart`, `SimulateMigration`, `SimulateQueue`, …), which maps a step to
one of `SubscriptionCommands` or a stutter. They rest on `Refining`: a row is in
the channel at most once, so taking it out ends its restoring; a worker that
knows it is on a replica has no rows in the channel when it looks at the role;
only refused subjects are reported; a worker that has ended leaves nothing. What
`Only` picks from a sequence is followed through appending, taking the first and
concatenation by induction on the length. The induction theorems of the library
cannot be used, since they take an operator; `Induction` states it for sets,
from the least element of a well-founded order.

Only model-checked: the liveness properties `CallReturns`, `ServerServed`,
`ForwardedIsRead`, `ShutsDown`, `OrphansLeave`, `HeardIsProcessed`,
`StoredIsSubscribed` and `LastAnnouncementTrue`, since the prover does not
handle fairness and ENABLED. Every invariant, action property and refinement
that a run checks is proved, with the hypotheses the table names.
`LauncherCallback` has only its counterexample: no run passes for it and nothing
is proved about it.

## Disagreements the runs show

Each of these runs checks one statement of a document, comment or test and ends
in a counterexample; `PROJECT.json` quotes the lines.

| Run | Statement | What happens |
|---|---|---|
| `RingQueueFullPanic` | a full ring can be received from | filled to the last byte with `read` ≠ 0, `try_recv` slices outside the buffer |
| `LauncherDeadlock` | a send to the launcher ends after its tries | a worker that cannot reach NATS: `Exist`, command, `SubscriberExit` on the bus, and the launcher blocks for good with the lock |
| `NatsClientStores` | a forced reload makes a new connection | cached object stores keep using the drained one |

Further configurations are kept beside them. They are not part of the regular
runs; each is a question the code answers with no, and marks the edge of what
the passing properties claim. `tlc -config X.cfg M` prints the counterexample.

| Configuration (module) | Question | What happens |
|---|---|---|
| `RingQueueFullNone` (MCRingQueue) | Is every accepted message returned before `None`? | a receive that ends at the last byte of a full ring leaves `read = CAPACITY`; a later one returns `None` with a message in the ring |
| `LauncherCreateServer` (MCLauncher) | Is a database served once its server is created? | the worker starts before the commit, sees no server and exits; nothing starts another |
| `LauncherRestarts` | Is it served again after the launcher restarts? | the exit of an old worker, which names only the database, stops the new one |
| `LauncherEarlyCommand` | Does an accepted command reach a worker? | the worker is still pending: the command is dropped |
| `LauncherOverlap` | Does one worker at a time process messages? | a new one serves while the old one, told to stop, still does |
| `LauncherStopsEarly` | Does the launcher stop after its workers? | an overwritten entry in `terminated_workers` is not waited for |
| `LauncherOvertaken` | Does no worker of a database read an older message after another has read a newer one? | a worker overwritten in `terminated_workers` still runs with an unread command while its successor reads the next |
| `LauncherConfigLost` (MCLauncherConfig) | Does a worker end up with the committed options? | it read the catalog before the commit, and the message was dropped because it was pending |
| `LauncherConfigRolledBack` | The same, with transactions that roll back | it keeps the options of the transaction that failed |
| `LauncherConfigOlder` | Does a worker never go back to older options? | it reads the committed ones at its start and is sent an earlier message afterwards |
| `LauncherCallback` (LauncherCallback) | Do calls return when callbacks call `nats_subscribe`? | the callback waits for the bus lock, which the launcher holds while it sends to that worker |
| `SubscriberReconnect` (MCSubscriber) | Is a message heard processed across a new configuration? | the tasks are aborted with the messages they hold |
| `SubscriberResubscribe` | Is a message processed once across unsubscribe and subscribe? | the aborted task, still in its last poll, and the new one both pass it on |
| `SubscriberRecreated` | Is a function called only with a row in the table? | one dropped and created again while no message came is called without a row |
| `SubscriberDropRace` | Is a stored subscription made? | a row inserted after DROP FUNCTION stays; the worker has forgotten the function, and never calls it again |
| `SubscriberFlood` | Does the loop come back to its latch? | with an endless stream, never more than two messages behind, it stays in the channel: SIGTERM and the launcher's queue are not looked at |
| `SubscriberUndefined` | Is a stored subscription made and kept? | a body that calls a missing function makes the worker forget the function that exists |
| `SubscriberScanFails` | Does the last announcement tell the role? | a promotion whose scan fails announces nothing and is not tried again |
| `SubscriberNotAnnounced` | The same, with announcements that fail | the announcement is not tried again |
| `NatsClientLookup` (MCNatsServer) | Does a reload keep TLS where a CA is written? | a failing lookup is read as no server: the connection goes to the default host in plain text |
| `NatsClientDirectory` | Does a connection require TLS when a CA is written for it? | `current_dir()` fails while it is made: the TLS options are left out without a word, and `pgnats_reload_conf` finds nothing changed |
| `NatsClientCertificate` | Is a client certificate that is written used? | a certificate without its key is passed over (the repository's README says the key is required then; nothing refuses the options) |

`LauncherConfigFaults` (MCLauncherConfig) passes: `ConfigSettles` with three
statements, failing connects, crashing workers, SIGTERM and dropped servers, in
1.6 million states. It is kept apart for its size.

Two more windows follow from the models. A command sent right after a promotion
is ignored by a worker that still believes it is on a replica. And a launcher
that restarts with the `Exist` of an old worker on the bus registers the new
worker before it has started; a command behind that message makes the launcher
block in a send to it, with the bus lock that the worker needs to report, so
`LauncherOrphans` has no commands.

## What is not modelled

* The TLS files and the handshake, a `tls://` host, number conversions of the SQL wrappers, JSON
  and the Patroni call (which puts the text of an error where the name should
  be): input and output, without state of their own.
* Messages that cannot be decoded: both ends are the same code, and the handlers
  only log them.
* Wildcards in subjects: a message has one subject. A message that matches two
  subscriptions is two messages here. Contents of messages.
* What else a callback does: it may call `nats_subscribe` (`LauncherCallback`) or
  fail (`Undefined`), and nothing more. A worker that crashes inside a callback
  (`LauncherCallback`).
* The TLS options of the subscriber's own connect (`subscriber/nats.rs`, with the
  branch on `current_dir()` that `NatsClient` models), and the drain of its
  connection.
* `sub.next()` that returns `None`, which ends a task while its entry stays: the
  client ends a subscription when it is drained or closed. The worker drains it
  only when it ends (`SubscriberContext::drop`), and loses connection, map and
  tasks with that.
* Two ALTER SERVER in one transaction: each statement is one transaction.
* Two CREATE SERVER of different names at once: the event trigger of each sees
  one server, both commit, and which one is read is the choice of the catalog.
* Two workers of one database that change the table at the same time
  (`LauncherOverlap` shows that they may): `Subscriber` has one worker, and
  another one's rows are those a restart finds.
* Errors and transactions inside pgrx; each SPI call is a transaction.
* All options lead to the same NATS system; `Opt` tells connections apart.
* The SQL wrappers of `api/nats.rs`: each is one call of the client, with its
  conversions; only `nats_subscribe` and `nats_unsubscribe` have control of
  their own.
* `bgw/run.rs`, which no module declares.

## Plan

Done: `RingQueue` and `FifoQueue`, `Launcher` with the options its workers run
with and with callbacks that call it, `WorkerArg`, `NatsClient` and `NatsServer`,
`Subscriber` with its failures and `SubscriptionCommands`, in order of weight for
the system; the inductive invariants of all of them, and with them every safety
property of the runs and the refinements of `FifoQueue` and
`SubscriptionCommands`.

To model:

1. Two workers of one database over one table, in `Subscriber`: the window that
   `LauncherOverlap` shows, seen from the table.
2. The drain of a connection in `Subscriber` and `NatsClient`, which may take its
   time while calls go on.

To prove:

1. What remains true where `MemoryFollows` and `CommandsSpec` have their
   hypothesis: with bodies that call missing functions, the map holds at most
   what the last commands ask for.
2. That handing options to workers in order (`ConfigSettles`) and commands in
   order (`DeliveredInOrder`, `CommandsSpec`) compose to one statement about
   what a backend's accepted call does.
