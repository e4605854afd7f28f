# A verification development of DzGram

DzGram (package `pyrogram`) is an asyncio client of Telegram's MTProto API. This
directory holds TLA+ models of its core, the TLC configurations that check them
and TLAPS proofs about them. Paths below are relative to `pyrogram/` in the
repository.

## 1. Inventory

| Component | State | Operations | Interacts with |
|---|---|---|---|
| **Session** (`session/session.py`) | `connection`, `recv_task`, `is_connected`, `_stopping`, `_teardown_started`, `_start_active`, `_start_exc`, `_restart_lock`, `_restart_done`, `_restart_exc`, `_restart_task`, `results` | `start`, `stop`, `restart`, `send`, `invoke`, `recv_worker`, `handle_packet`, `ping_worker` | owns a Connection, asks the governor before it dials, hands updates to the client |
| **Connection governor** (`client.py` 1374-1416) | `_connect_gate`, `_next_connect_at`, `_transport_flood_until`, `_connect_backoff` | `acquire_connection_slot`, `note_connection_ok`, `note_transport_flood` | shared by all sessions of a client |
| **Connection and transports** (`connection/`) | a socket, a send lock, cipher counters | `connect` (three dials), `send`, `recv`, `close` | used by Session and Auth |
| **Message identity and replay window** (`session/internals/`, `handle_packet`) | last message id and clock offset (shared by all sessions), `stored_msg_ids`, `_msg_id_floor`, `pending_acks`, salts | `MsgId`, `sync`, the checks of `handle_packet`, `flush_acks` | every request and packet |
| **Auth** (`session/auth.py`) | locals of one key exchange | `create` | its own Connection, past the governor |
| **Updates** (`client.py` 598-624, 879-1122) | the stored pts of every peer, `last_update_time` | `handle_updates`, `recover_gaps`, `updates_watchdog` | Session delivers, Dispatcher consumes, Storage keeps pts |
| **Dispatcher** (`dispatcher.py`) | `updates_queue`, `groups`, worker tasks, one lock per worker | `start`, `stop`, `add_handler`, `remove_handler`, `handler_worker` | Updates produce, handlers and conversations consume |
| **Conversations** (`methods/pyromod`, `handlers/`) | `listeners`, their futures | `listen`, `stop_listening`, `check`, `resolve` | run inside the dispatcher's workers |
| **Uploads** (`methods/advanced/save_file.py`) | part queue, worker tasks, progress, errors | `save_file` and its workers | media sessions, rate limiters |
| **Downloads** (`client.py` 75-140, 1627-2363) | `ReadAhead`, worker tasks | `get_file`, `handle_download` | media sessions, rate limiters |
| **Media pool** (`client.py` 1291-1570) | `media_sessions`, the reaper's task | `get_session`, `_get_media_session_pool`, `reap_media_sessions` | owns media Sessions |
| **Rate limiters** (`methods/rate_limiter.py`, `client.py` 143-177) | buckets | `acquire`, `acquire_nowait`, `update_limits` | `methods/advanced/invoke.py` |
| **Storage** (`storage/`) | SQLite tables | peers, usernames, update state | all of the above |
| **Client life cycle** (`methods/auth`, `methods/utilities`) | `is_connected`, `is_initialized` | `connect`, `initialize`, `terminate`, `disconnect` | starts and stops the others |
| Cryptography, TL layer and its compiler, bound methods, types, filters, parsers | none | conversions | |

What makes each of them correct, and what is hard about it:

* **Session.** A request must end; an answer must not be lost; a break must be
  repaired once, by one task, with nobody left waiting for an event. Hard,
  because five kinds of tasks (the client's `start()` and `stop()`, requests, the
  receive loop, packet tasks, the background reconnect) change the same flags
  and interleave at every `await`, and any of them may be cancelled.
* **Governor.** Admissions are spaced, flood windows are kept, nobody starves.
  Hard, because deadlines move while a task sleeps towards one.
* **Replay window.** No message is handled twice, none is dropped as old that is
  new, and no message id is issued twice.
* **Updates.** The stored pts never goes back, every update is dispatched, gap
  recovery ends. Hard: concurrent batches, restarts between queueing and storing.
* **Dispatcher, conversations.** Handlers of a group run in order, removal and
  shutdown never deadlock, a listener gets at most one update.
* **Uploads, downloads.** Every part is sent, or the caller gets an error; chunks
  are in order; the call ends whatever its workers do; the slots that all transfers
  share are all given back. Hard: a chunk passes through two budgets and three
  kinds of tasks, each of which may be cancelled while it waits for a slot.
* **Media pool.** A session in use is not reaped, a pool is built once.
* **Rate limiters.** No more tokens go out than the rate allows.

`PROJECT.json` lists the hazards at their lines, with the properties that
cover them.

## 2. Modules

| Module | What it models |
|---|---|
| `Session` | one session's life cycle, receive loops and requests |
| `SingleFlight` | what `restart()` promises, as an abstract specification |
| `MCSession` | the constants' symmetry for the runs of Session |
| `ConnectGovernor` | the governor, with the handshakes it paces |
| `InboundWindow`, `MCInbound` | message ids, the replay window, the clock and the acks |
| `Updates` | live updates and gap recovery, with the stored pts |
| `Dispatcher`, `MCDispatcher` | the dispatcher's queue, workers, locks and stop, composed with conversations |
| `Upload` | `save_file()`: producer, queue, workers, fail-over, shutdown |
| `Download` | `get_file()` and the read-ahead slots |
| `MediaPool` | the pooled sessions: builders, reaper, transfers, `terminate()` |
| `SessionProofs`, `GovernorProofs`, `InboundProofs`, `UpdatesProofs`, `DispatcherProofs`, `UploadProofs`, `DownloadProofs`, `MediaPoolProofs` | proofs about the module of that name, after the facts on numbers and sequences they need |

In all of them an action is the code between two awaits of one task (`Dispatcher`:
between two suspensions that another task could use), so that tasks interleave as on
the event loop. Where consecutive awaits of one task are taken together, or a
cancellation at one of them is left out, the paragraphs below say so: the awaits of the
`finally` of an upload before its workers are cancelled are one point, that of a pool's
builder is not cancelled twice, and the gather and the `close()` of `stop()` are one.

### How Session corresponds to the code

An action is the code between two awaits of one task; its name says which
piece. `pc[t]` is the await at which task `t` stands (`"slot"` is
`acquire_connection_slot()`, `"dial"` `connect()`, `"hello"` the handshake's
requests, `"stopPing"` and `"stopRecv"` the awaits of `stop()`, `"shareWait"`
the `_restart_done.wait()` of `restart()`, `"waitRestart"` the one of
`_wait_started()`, and so on). Where a request runs on between two awaits through
code shared with others, the points in `Running` hold it in between, and nothing
else may happen while one of them is occupied (`At`, `Quiet`). A subroutine runs
in its caller's task: `cont[t]` says what `stop()` returns to, `via[t]` whether
`restart()` was called by `_invoke()` or by `_wait_started()`.

The tasks are the `Callers` (each runs `_invoke()` once), `Background` (the task
of `_schedule_restart()`), and `Owner` (the client, which calls `start()` without
`max_attempts` and at most one `stop()`). Each connection has the receive loop
created with it, which, like the code's, reads whatever connection is published
at its next turn (`reading`).

What is abstracted:

* Exceptions are told apart by how the handlers treat them (`Errors`), answers
  by what `send()` makes of them (`Outcomes`).
* The handshake's `Ping` and `InitConnection` are one exchange, because their
  failures are handled alike.
* An await that may complete at once suspends. Packing a payload is part of the
  await of the send; its cancellation, which the code swallows, is a stuttering
  step.
* `stop()` cancels the receive loop (`CancelRecvTask`) and keeps the task it awaits in
  `awaited`, as the code does by evaluating `self.recv_task` once; the loop it awaits may
  be in `stop()` itself after a `-404`, where the cancellation is swallowed. Cancelling
  `stop()` at these awaits is a stuttering step, for the code swallows it too. At the
  gather of the packet tasks it is not: `CancelStop` leaves `stop()` there, with the connection
  published and the results not failed, and the restart around it ends. The gather, the
  `close()` and what follows are otherwise one step.
* Time is nondeterministic: a cooldown passes, a backoff ends. Whether a
  `TimeoutError` leads to a backoff or a restart depends on when the last packet
  came; both are allowed, also for the `OSError` of `_wait_started()`. The limits on
  resending after a bad salt and on the sum of flood waits are not counted; the
  bound on faults bounds them.
* A timeout of a request that could still be answered is a fault. One whose
  answer cannot come any more happens by itself.
* The ping worker is a flag. Its sends, like the upload workers'
  `restart(max_attempts=2)`, add nothing that a caller does not do.
* `-404`, bad packets and the owner's `stop()` are `Events` that a configuration
  switches on.

### How ConnectGovernor corresponds to the code

Deadlines are kept as the time left until them (`nextIn`, `floodIn`), so that
`Tick` needs no clock. `queue` is the asyncio lock `_connect_gate` with its waiters,
first come, first served; its head is the holder. A holder that sleeps computes the
pause again when it wakes (`Sleeps`, `Wakes`, `Admitted`). Dialling and handshake
follow after the gate has been passed on, as in the code. `note_transport_flood()`
has an optional argument that no caller gives; it is left out.

### How InboundWindow corresponds to the code

`Arrives(m)` is the beginning of `handle_packet()` for a packet with one message: it
owes the acks, recognises a replay (`DiscardReplay`), or a message that is out of step
with the clock (`DiscardSkewed`), or lets it through (`Accept`), and sets the clock
where the code calls `sync()`. An id is the server's time when it sent the message,
one message a tick. `stored`, `floor`, `breaches`, `owed` are the attributes of the
session; `FlushAcks` takes all owed ids at once and `AcksSent`, `AcksLost` end their
`send()`. `Redelivers` is the server that sends again what was not acknowledged.
`ReadsClock` and `Issues` are the two halves of `MsgId()`: the time is read before the lock
is taken. `Suspends` is a machine that sleeps and wakes with a stale clock. `Stops`
and `Starts` are what `stop()` and `start()` reset.

### How Updates corresponds to the code

Every message box (`Common`, the account's, and one for each channel) has events
numbered by the server (`pts`). `pipe` holds what it has pushed; a task of
`handle_updates()` takes events out of it in any order, several as one `Updates`, which goes through `"peers"`, `"fetch"` and `"store"`, its awaits; or one
as an `UpdateShortMessage` (`"state"`, `"ask"`), whose pts is stored before its message is
asked for, and which queues nothing if the answer has neither messages nor updates; or
one as an `UpdateShort`, which is queued at once and stores nothing. `stored` is the row of
`update_state`; the ghost `writer` says what wrote it last.
`recovery` is `recover_gaps()`: it reads all rows (`states`), asks for the difference of
each box in turn, gets a slice, the whole, `Empty`, `TooLong` or an error, and stores
`local_pts` at the end. The ghost `gaveUp` has the boxes it leaves early: by an error that
it catches, by a slice that does not advance, or by a `ChannelDifference` that is not the
final one, which the code takes for the end. `Connects`, `Starts` and `Down` are the life of a client:
connected, it receives although the dispatcher has not been started; going down
it loses what was queued in memory and keeps the rows.

### How Dispatcher corresponds to the code

`queue`, `groups` and `listeners` are the containers of the same names. `lockLine` is
the list of worker locks, each with its waiters in order; `editor` counts the locks
that an `add_handler()` or `remove_handler()` has acquired in `locks_list`'s order. A
worker takes an update, parses it, acquires its own lock, and enters the groups
(`EntersGroups`). At each handler `check()` looks for a listener and may suspend
in its filter, `resolve_future_or_callback()` looks for one again, which may by then be
gone or another one; then the callback runs, which may call `listen()` and wait with
the lock held. A listener ends by an answer, a timeout or `stop_listening()`; the last leaves the future
pending when a `stopped_handler` is configured (`StopListener`), and the `listen()` waits on. `stop()` puts
one `None` per worker and waits; updates that come after that are queued behind them and
are not in `arrived`.

### How Upload corresponds to the code

`phase` is where the producer of `save_file()` stands: reading a batch, waiting for a
slot, putting the part, draining, putting the `None`s of `_stop_upload_workers()`,
waiting for the workers, and its `finally`: waiting for the growth of the pool and the
batch that is read ahead (`"cleanup"`), then for the cancelled workers (`"join"`), then
`release_all()` (`Cleanup`). A worker that is cancelled with a part is `"stopping"` until its
own `finally` has run; neither the shutdown nor the `finally` of the call waits
longer than its timeout, so it may outlive the call. `CancelCleanup` is the caller who is
cancelled in the `finally`: the rest of it is skipped, and the call is `"left"`. A worker's `TransportFails`, `Refused`,
`GivesUp`, `FailsOver` and `Quarantined` are the branches of its exception
handlers; `stale` says that its session has another connection than the one the
attempt began with. Timeouts of `put()`, of the drain and of the shutdown fire
only where the code waits with one. `Grows` is `pool_growth_task`. `Lent` are slots that
a paused stream elsewhere keeps.

### How Download corresponds to the code

`free` and `line` are the semaphore `read_ahead_slots`; `preHeld` and `bufHeld` are the
two `ReadAhead`s of a download. `ahead[d][k]` is the `fetch_ahead()` task of chunk `k`,
`worker[d][w]` a `_worker()`, `phase[d]` the generator: the first chunk, the consumer
(`"out0"`, `"out"`), the loop, and the two halves of its `finally` (`Stops`,
`WorkersStopped`, `PrefetchCancelled`, `PrefetchDropped`). `received` is the dictionary
from which the consumer gets chunks in order. `Moves` is the check of
`handle_download()` that decides whether the temporary file becomes the file. `Grant`
gives a free slot to the first of the line, as `asyncio.Semaphore` does.

### How MediaPool corresponds to the code

One data centre's pool; `kind` says whether it is the pool of
`_get_media_session_pool()` or that of `get_upload_sessions()`, whose lists are
replaced in different places. A builder waits for the lock (`line`), sorts the
sessions it finds, stops the dead ones and starts new ones (`making`), any of
which may fail. A builder that is cancelled cancels them and keeps the lock until they have
stopped their sessions (`"ends"`); a second cancellation in that wait is left out. The reaper
waits for its interval or its event, takes the lock, and stops sessions one await at a time while it makes the list `keep`.
Transfers hold a session without the lock, and `invoke()` restarts one that is
down. `terminate()` cancels the registered builders, tells the reaper to end, waits for
it, and stops what is in the pool. `outlived` remembers, for the properties, the
sessions that were stopped while a transfer or a restart had them.

### What these models abstract

* Lengths of time: a timeout fires at any moment at which the code waits with one.
  Rate limiters, pacing and flood waits below the threshold only delay.
* Bytes: a chunk is whole or short, a part is accepted or not, an update is its
  number.
* The network's doings are bounded by `MaxFaults` (`Budgets` in InboundWindow): a lost
  connection, a refused part, a failed start, a lost ack, a lost update, a failed request.
* Sessions of a pool are seen from outside (connected or not, restarted by whom);
  `Session` is their detail.

## 3. Properties and runs

| Run | Checks | Instance |
|---|---|---|
| `session_recovery` | `OneHandshakeCycle`, `OneReader`, `AnswerIsKept`, `RestartIsShared` | 2 callers, both cancellable, 4 connections, 2 faults, 2 retries, bad packets |
| `session_rare_events` | `TypeOK`, `NoStrandedWaiter` | 1 caller, 3 connections, 2 faults, all events |
| `session_liveness` | `InvokeReturns`, `LossIsRepaired`, `RestartEndsForAll` | 2 callers, both cancellable, 3 connections, 1 fault, bad packets and `-404`, `FairSpec` |
| `governor` | `TypeOK`, `NoOversleep`, `AdmittedInTime`, `WaitersAreServed` | 3 sessions, `FairSpec` |
| `inbound_window` | `TypeOK`, `HandledOnce`, `FloorIsOld`, `IdsAreFresh`, `EveryMessageIsAcked` | window 2, 2 acks a batch, 2 breaches, a suspended machine; and either 4 messages, a reconnect and a lost ack, or 3 messages, 2 threads that take 3 ids and a clock wrong by up to 2; `FairSpec` |
| `recovery` | `RecoveryKeepsUp`, `RecoveryIsComplete`, `RowsHideNothing`, `RecoveryEnds` | a common box of 3 events and a channel of 2, one of each still to come, 2 tasks, batches of 2, 2 lives, 1 fault, `FairSpec` |
| `conversations` | `TakesOneMessage`, `StopDrains`, `EditsExclude`, `AllHandled` | 2 workers, 2 messages, 2 groups, an addition and a removal, 3 listeners, `FairSpec` |
| `uploads` | `SlotsConserved`, `FileIsComplete`, `FreshStaysUp`, `UploadsEnd` | an upload that may be cancelled and a repeated part, 4 parts, 3 slots of which 0 or 1 are lent, 2 sessions, 2 retries, 1 fault, `FairSpec` |
| `downloads` | `SlotsConserved`, `MemoryIsPaid`, `WholeFileOrError`, `FinishedGivesBack`, `DownloadsEnd` | a file and a stream that may be left, 3 chunks each, 2 slots, 2 workers, 1 fault, `FairSpec` |
| `media_pools` | `NothingLeaks`, `ConnectionsBounded`, `TerminateEnds`, `IdleIsReaped` | 2 builders (one registered), a transfer, 2 sessions wanted, 3 that can be created, 1 fault, both kinds, `FairSpec` |
| `slot_leak` | `SlotsComeBack` (violated) | as `downloads`, without faults |
| `upload_slot_leak` | `GivesSlotsBack` (violated) | as `uploads` |

Session and governor:

* `NoStrandedWaiter`: while a task waits for `_start_completed` or
  `_restart_done`, some task is at work that will set it.
* `OneHandshakeCycle`, `OneReader`: two handshake cycles never overlap, and two
  receive loops never read one connection.
* `AnswerIsKept`: an answer that has reached a request is what it returns, although
  the transport fails at the same moment.
* `RestartIsShared`, `RestartEndsForAll`: Session implements `SingleFlight` (with
  `leader <- lock` and the waiting tasks), without and with its fairness.
* `InvokeReturns`, `LossIsRepaired`: every request ends; a connection lost while its
  loop reads it is replaced, unless a `start()` has given up or was rejected. Their run has
  requests that are cancelled at any await, also while one leads the restart that
  the other shares, and a `-404`, after which the receive loop runs `stop()` itself
  while another task awaits it there. `LossIsRepaired` claims nothing once a request has been
  cancelled: when that was the leader of a restart, nobody repairs the session until the
  next request.
* `NoOversleep`, `AdmittedInTime`: only the holder of the gate sleeps and never
  past the pause; admissions are outside flood windows and spaced.
* `WaitersAreServed`: once floods stop, everybody in the queue gets a turn.

Messages and updates:

* `HandledOnce`, `FloorIsOld`: a connection handles no message twice although its
  window forgets; what lies below the floor is older than more than half a window of
  handled messages.
* `EveryMessageIsAcked`: acks are forgotten before they are sent, but the server's
  repetitions are owed again, so every message that wants an ack gets one.
* `IdsAreFresh`: two threads never get one id, whatever `sync()` does to the clock. A
  rejected id is let go: there the code resets the last id on purpose.
* `RecoveryKeepsUp`: `local_pts` never passes an event that is not in the queue.
* `RecoveryIsComplete`: when `recover_gaps()` is over, everything missed is queued,
  except in boxes it left early (`gaveUp`) and below a live update that was
  stored before the rows were read.
* `RowsHideNothing`: wherever the client stops, also in the middle of `recover_gaps()` or
  after it has left a box early, what was missed and not queued is above the row of its box, so
  the next start asks for it; and a batch of live updates writes the pts of an update it has
  queued. Three things are excluded: rows that live updates have written (they hide what
  was missed below them), what lay below the row when it was read, and the time between
  the write of a `TooLong` answer and the last write of the box.
* `RecoveryEnds`: it ends, unless the server answers `TooLong` for ever.
* `EditsExclude`: groups do not change under a worker that goes through them.
* `TakesOneMessage`: a listener takes one message, although the lookup of `check()` and
  that of `resolve_future_or_callback()` may be separated by an await. Next steps with a
  filter, the only ones for which two workers may both find the listener before it is
  removed, are excluded: both would call its callback.
* `StopDrains`, `AllHandled`: `stop()` returns after what was queued is handled, every
  message is handled, and it does return, unless a callback waits in a `listen()`
  without timeout that is never answered (`ListensForEver`). That exclusion also covers an
  editor that keeps worker locks while it waits for the one of such a callback.

Transfers:

* `SlotsConserved` (both): a slot is free or counted by exactly one holder.
* `MemoryIsPaid`: chunks kept in memory are paid for by slots.
* `WholeFileOrError`: a file is moved into place only with every chunk, none of them
  short; a stream that ends without an error was complete up to the first short chunk.
* `FinishedGivesBack`: a complete download leaves no slot and no task behind.
* `DownloadsEnd`, `UploadsEnd`: every transfer ends, unless `Starved`: all slots are held
  by tasks that wait for another one, or in `Upload` by paused downloads and by calls that were
  cancelled in their `finally` (see below).
* `FileIsComplete`: an `InputFile` is returned only if the server has every part.
* `FreshStaysUp`: a failing worker takes down the connection its attempt used, never
  the one a restart has put in its place.
* `NothingLeaks`, `ConnectionsBounded`: until the pool is closed, every connected
  session is in the pool or with its builder, and there are at most `Size` of them;
  those in `outlived` are excluded: sessions that were stopped while a transfer or a
  restart had them, and may be connected again by it.
* `TerminateEnds`, `IdleIsReaped`: the shutdown ends, and idle sessions are closed again
  and again while there is a reaper.

**Bounds.** In Session, `MaxConn` bounds the connections dialled, `MaxFaults` what the
network does. Two faults let a second failure hit the recovery from the first; two
callers and the background task are enough for a leader and two that share its
restart, one of them cancelled; four connections let each of two faults be recovered
twice. A dial that would exceed `MaxConn` fails, so that the bound itself never blocks a
task. Two retries tell a first failure from a last one. `FloodBase` 3 and `MaxBackoff` 5
make the second flood reach the cap.

A window of 2 is cut while the 4 messages come in, so messages fall below the floor and
on both sides of the cut. Two lives let a client go down during a recovery and recover
again; slices of the 3 events come in every size. Two workers and two editors are
enough for a worker to hold the lock one editor waits for while the other has part
of them. Four parts exceed the upload's queue of two and what a failed worker had, so the producer
meets a full queue, with an error and without; two sessions let a worker fail over. Two slots for two downloads of three
chunks make every kind of task wait for a slot, and 3 sessions for a pool of 2 let one be
replaced. A fault that comes first, or last, or during a cleanup is one fault at
another place; what takes two faults in these modules is beyond the runs.

Deadlock is checked for the governor only: the other systems really stop, when their
transfers, requests or messages are done.

**Fairness.** Every task's steps are weakly fair: the asyncio loop runs every task that
is ready, awaits with a timeout return, sockets report what happened to them, and
the server answers what it has received on a live connection. A cancelled worker of an upload
ends at last. Users cancelling, the
owner stopping, listeners being answered, consumers leaving and the network failing are
never assumed. A restart of a pooled session ends: it succeeds or it is one of the
faults. In `InboundWindow` the
server repeats what was not acknowledged and the network delivers it, and of the acks on their
way some are sent at last. In `Updates` only the steps
of `recover_gaps()` and the server's answers to it are fair. In `Download`, the consumer's next step is
assumed, because `Generate` contains it: `DownloadsEnd` is about a download that is
consumed; in `Upload`, `Lent` stands for one that is not. For the governor, time passes
and the holder of the gate is run.

### Where the code differs from what it says

Two runs end in a counterexample (`expect: violation`), both against the docstring of
`ReadAhead`, which "always gives them back".

`slot_leak`: a worker takes the task of
its chunk out of `prefetched` and then waits for a slot (`client.py` 2078-2079). If the
download is left there, the worker is cancelled; the task is not, for `drop_prefetch()`
knows only what is still in `prefetched`. It gets a slot after `release_all()`, and
nobody gives it back.

`upload_slot_leak`: the `finally` of `save_file()` awaits the growth of the pool, the batch
it has read ahead and the workers (lines 689-696) before `release_all()` (701). A caller who is
cancelled in one of these awaits skips the rest, and the slot of a part that was read,
and that no worker took, is lost. The shortest trace cancels the call when it has just read
its first part, and again while the `finally` waits for the workers.

These are in the models too, without a run of their own. Properties exclude
them by name where they would be violated:

* Session: the receive loop may end after the packet with the handshake's last answer and
  before `start()` sets `is_connected`: nobody reconnects until a request fails.
* Session: `stop()` neither cancels nor awaits a background restart, whose `start()`
  resets `_stopping`; the session connects again.
* Session: the `CancelledError` of the task that leads a restart is raised in every task
  that shared it.
* Session: a bad packet during the client's own `start()` schedules a restart beside it.
* Session: a cancellation at the gather of `stop()` leaves the connection open and published,
  and the requests on it without a failure.
* Session: `restart()` does not look whether the session has been reconnected since the
  caller's transport died.
* Session: `start()` forgets the `AuthKeyUnregistered` of the receive loop, and dials
  again.
* Governor: "one TCP handshake at a time" is one admission at a time, and the second and
  third dial of one `connect()` do not ask it, so they may fall inside a flood window.
* Dispatcher: `stop()` waits for a callback in a `listen()` without timeout.
* Updates: a live update that is stored before `recover_gaps()` reads the rows hides
  what was missed below it; an `UpdateShortMessage` stores its pts before its message is
  fetched, and queues nothing if the answer is empty. Of two batches, one may store a higher
  pts before the other has queued a lower update, or a lower pts after it. The pts of a
  `TooLong` answer is stored before the box is done. A `ChannelDifference` that is not
  final ends the box.
* Dispatcher: a next step with a filter may be called for two messages.
* Download: a prefetched chunk holds a slot while the worker that takes it waits for a
  second one. When all slots are held so, nothing moves, and nothing times out.
* Upload: `budget.acquire()` has no timeout and does not look at the workers' errors.
* Upload: workers that do not end within the timeout outlive the call
  (`tests/test_transfer_integrity.py` 115-134 expects that), and a call cancelled in its
  `finally` may leave workers that were never cancelled.
* Upload: with a `file_id` the call returns `None` although its worker has failed.
* MediaPool: the growth of an upload's pool is not cancelled by `terminate()`, and may
  leave sessions connected after it. A session that the reaper stops under a
  transfer is restarted by it, and belongs to no pool.

## 4. Proofs

All theorems hold for all values of the constants that satisfy the assumptions named in the
modules: `TasksAreDistinct` and `ParametersOK` (Session), `GovernorAssumption`
(ConnectGovernor), `WindowParameters` (InboundWindow), `UpdatesParameters`,
`DispatcherParameters`, `UploadParameters`, `DownloadParameters` and `MediaPoolParameters`. These say that the
numbers are numbers, that sets of transfers or tasks are finite (a download has a worker,
and prefetches no more chunks than its file has, as the code's `min()` sees to), that
identifiers of different kinds differ, and that the functions that describe handlers and
listeners have their types. None bounds a size.

| Theorem | States |
|---|---|
| `TypeCorrect` | `Spec => []TypeOK` of Session |
| `NobodyIsStranded` | `Spec => []NoStrandedWaiter` |
| `SharedByAll` | `Spec => RestartIsShared`: Session implements SingleFlight |
| `HandshakesAreExclusive`, `OneReaderAlways` | `Spec => []OneHandshakeCycle`, `Spec => []OneReader`, if `earlyBadPacket` is not an event |
| `AnswerIsKeptAlways` | `Spec => AnswerIsKept` |
| `GovernorTypes`, `NobodyOversleeps` | `Spec => []TypeOK`, `Spec => []NoOversleep` of ConnectGovernor |
| `AdmissionsAreSpaced` | `Spec => AdmittedInTime` |
| `InboundTypes` | `Spec => []TypeOK` of InboundWindow |
| `NothingIsHandledTwice`, `OnlyOldIsDropped` | `Spec => []HandledOnce`, `Spec => []FloorIsOld` |
| `EveryIdIsFresh` | `Spec => []IdsAreFresh` |
| `RecoveryKeepsUpAlways`, `RecoveryIsCompleteAlways` | `Spec => []RecoveryKeepsUp`, `Spec => []RecoveryIsComplete` of Updates |
| `RowsHideNothingAlways` | `Spec => []RowsHideNothing` |
| `StopDrainsAlways`, `TakesOneMessageAlways` | `Spec => []StopDrains`, `Spec => []TakesOneMessage` of Dispatcher |
| `EditsExcludeAlways` | `Spec => EditsExclude` |
| `SlotsConservedAlways`, `FileIsCompleteAlways` | `Spec => []SlotsConserved`, `Spec => []FileIsComplete` of Upload |
| `FreshStaysUpAlways` | `Spec => FreshStaysUp` |
| `SlotsConservedAlways`, `MemoryIsPaidAlways` | `Spec => []SlotsConserved`, `Spec => []MemoryIsPaid` of Download |
| `WholeFileOrErrorAlways`, `FinishedGivesBackAlways` | `Spec => []WholeFileOrError`, `Spec => []FinishedGivesBack` |
| `NothingLeaksAlways`, `ConnectionsBoundedAlways` | `Spec => []NothingLeaks`, `Spec => []ConnectionsBounded` of MediaPool |

A proof module has one inductive invariant (Session: one for each question; Updates: two), checked with
TLC before it was proved;
its lemmas go invariant by invariant, and in each action by action.

* **Session.** `TypeOK` is not inductive: `retries[c] \in 0 .. MaxRetries` needs that a
  request without retries has failed (`RetriesLeft`). `NoStrandedWaiter` and the refinement
  rest on `FlightInv`: the lock is held by exactly the task that is inside `restart()`'s
  `stop()` or `start()`, tasks that wait for its end wait for a holder, and
  `_start_active` belongs to a `start()` in progress. `StartEndsPoints` says where every task
  stands once a `start()` has ended; each action then either leaves the flight alone,
  starts it, joins it, leaves it or finishes it. `OneHandshakeCycle` adds `OwnerInv`: until
  the client's `start()` is over, the session is not connected, the lock is free, no
  reconnect is scheduled and requests can at most wait. The lock keeps the other handshakes
  apart. `OneReader` adds `LoopInv`: a loop that runs is that of `recv_task`, and none runs
  while a task is between its `stop()` and its dial (`Redialling`); `DialsAlone` says that
  this task is then the only one there. `AnswerIsKept` rests on `AnswerInv`: as long as an
  answer is with the server or in a packet task, the request's entry in `results` does not
  have one, so a second answer or a failure never replaces the first.
* **Governor.** `NoOversleep` with the types is inductive.
* **Inbound.** `HandledOnce` and `FloorIsOld` are proved together, from `WindowInv`. That
  nothing is handled twice needs that what was handled is remembered or below the floor
  (`Remembered`), and what is remembered above it (`AboveFloor`). That the floor is old
  needs how many messages lie above the id the window is cut at (lemma `Cut`). An
  empty window, and that of a stopped session, has no floor (`EmptyIsFresh`,
  `StoppedIsEmpty`), because the code does not compare a message with the floor of an
  empty window. `IdsAreFresh` is inductive with the types.
* **Updates.** `ServerOK` and `TasksOK`: rows, pushed and queued events never run ahead of
  the server, and a task has an event of each box it has still to store. `RecoveryOK`: of the
  box that `recover_gaps()` is at, everything from its row to `local_pts` is queued
  (`BoxOK`), and what is still `Behind` belongs to this box or to one of the `rest`. A box is
  left early, and is then in `gaveUp`, or when nothing of it is behind, so at the end nothing
  is. `RowsHideNothing` adds `RInv`: what a task has done of its batch is queued, so the highest
  pts it stores is of a queued update (`QueuedOK`), and what
  is missed and not queued lies above the row (`RowOK`), for `recover_gaps()` writes no more
  than `local_pts`, up to which `BoxOK` has everything queued.
* **Dispatcher.** `LocksOK`: a worker that is inside the groups is the first in the line of
  its own lock, and an editor that has passed a lock is the first in that line; so an editor
  that edits excludes every worker. `DrainOK`: of what arrived before `stop()`, each message
  is in the queue in front of the `None`s, with one worker, or finished; a worker
  that has taken a `None` proves that the queue holds none of it. `AnswersOK`: a
  listener has an answer only when its future is done or, for a next step, gone from
  `listeners`. `MatchingTyped` shows that the lookup by specificity always has a best one.
* **Upload.** `SlotsOK` counts the slots as tokens, one for each that an upload holds
  (`Holdings`): acquiring adds one, releasing removes one, and lemmas on `Tokens` do
  the arithmetic. `PartsOK` says where each part that the producer has
  handed over is: in the queue, with exactly one worker, or settled; there are at most as many
  acknowledgements as settled parts, and without an error a settled part was accepted. So
  as many acknowledgements as parts mean that every part was accepted, whatever workers
  failed over, were repeated, were cancelled or outlived the call. What is not claimed is
  that a call that is over holds nothing: `upload_slot_leak` refutes it.
* **Download.** `SlotsOK` counts slots as tokens, here those of both `ReadAhead`s. `LineOK`: the
  line of the semaphore holds only tasks that wait for a slot, each once, so a grant never
  goes to a task that was cancelled (`WithoutIs`: leaving the line disturbs nobody else).
  `ChunksOK`: a chunk is in the queue, with one worker, or has arrived (`Got`), and once it
  has arrived its `fetch_ahead()` is over. With `StreamOK`, that no chunk handed to a worker
  is lost without an error and the consumer has passed no short one, this gives
  `WholeFileOrError`. `PaidOK` counts: untaken prefetched chunks (`Kept`) are at most
  `preHeld`, received chunks and the workers that hold a slot (`Payers`) at most `bufHeld`.
  That gives `MemoryIsPaid`, and `FinishedGivesBack` together with what is left at each stage of
  the generator (`StageOK`). What the theorems do not claim is as telling: a download that is
  left early may keep a slot (`SlotsComeBack` is violated in `slot_leak`).
* **MediaPool.** Neither property is inductive. The pool is replaced by a list that a task
  has gathered over several awaits, so nothing may be lost that is in the one and not in
  the other: whatever is in the pool and not in the list of the task that has the lock is
  `Forgotten` (not connected, and no transfer has it) or has been `outlived` (`Covers`).
  The lock makes that task the only one (`OneHolder`), and it stays the first in the line
  whoever joins or is cancelled (`WithoutKeepsHead`). What a builder starts is nobody
  else's until it is up (`BuilderOK`), for the numbers it takes are unknown to all others
  (`UnusedIs`). `Owned` counts what a transfer has among what is connected: it restarts a
  session that is down, so `NothingLeaks` has to hold of that one too. The
  connections are then in the pool, or with the one builder that grows it, and it starts
  no more than are missing (`MadeAreEnough`). All of it is claimed until `terminate()` stops
  the pool: after that an upload's builder fills a list that is not the client's any more.

Only model-checked: the liveness properties (`InvokeReturns`, `LossIsRepaired`,
`RestartEndsForAll`, `WaitersAreServed`, `EveryMessageIsAcked`, `RecoveryEnds`,
`AllHandled`, `UploadsEnd`, `DownloadsEnd`, `TerminateEnds`,
`IdleIsReaped`), because fairness is out of the prover's reach. Every other property of a
passing run is a theorem. Nothing about recursive operators is claimed: the models
have none.

## 5. Not modelled, and what is left

Not modelled:

* Transports, ciphers, the key exchange: bytes and big numbers.
* The TL layer and its compiler: generated code and a generator. Bound methods, types,
  filters, parsers, enums: conversions without state. They are most of the repository's
  lines, and nothing in them interleaves.
* Salts and sequence numbers: a choice by validity time, a counter.
* Rate limiters and the client-level `invoke()`: they compute for how long a caller
  waits, in floating point.
* Storage: SQL on one thread; `Updates` has the rows it needs.
* Of Downloads the sequential fallback, CDN and a bot's growing pool; of Conversations
  `CallbackQueryHandler` and `ConversationHandler`; `updates_watchdog()`;
  `get_session()`, which is one cache under a lock; the ping worker's own requests.

Left to do:

1. `RateLimiter`, with integer tokens: buckets and their rollback.
2. A composition of Upload with Download, where `Lent` is now.
