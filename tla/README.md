# Rhapsode, specified

TLA+ for the core of Rhapsode: a server that speaks text through local speech models. One Node
process, the *core*, owns the public API, the settings, the installed engines and the one scarce
thing on the box, the graphics card. Each engine is a Python *worker* process of its own, reached over
a Unix socket, that can hold one model. The hard part is not the audio. It is that many requests,
timers, operators and processes share a card that fits one model, and that a stream of audio goes on
long after the handler that started it has returned.

The modules here model the code that decides those things, at the granularity at which it can
interleave. Source paths below are relative to `src/`.

## The system

| Component | State | Operations | Interacts with |
| --- | --- | --- | --- |
| Residency manager (`packages/core/src/residency/`) | the Map of resident models with their leases, last use, keep-alive and expiry timer; the transition lock's promise chain; the waiters | `acquire`, lease `release`, `forget`, `replace`, `free`, `rearmExpiry`, `stopExpiry`, the timer callback | asks workers to load, unload and stop; tells the registry what it observes; called by the pipeline, the installer, the settings and the routes |
| Engine registry (`registry/`) | declared engines, their observed process and model state | `declare`, `remove`, `retune`, `observe` | written by the installer, the supervisor, residency and the settings; read by everything |
| Settings (`settings/`) | the policy object that residency reads, the database | `PATCH /settings`, validate, store, `applyLive` | mutates the live policy, `retune`s engines, queues `rearmExpiry` |
| Worker supervisor (`workers/worker.handle.ts`, `worker.registry.ts`) | the child process, its client, the start in flight, the restart count, whether it is stopping | `ensureUp`, `start`, handshake, contract check, `stop`, `onExit` | spawns the Python worker; used by residency, installer, pipeline |
| Worker client (`workers/worker.client.ts`) | none | `load`, `unload`, `speak`, `fetch`, each with a timeout | HTTP to the worker |
| Speak pipeline (`speak/speak.pipeline.ts`, `audio.floor.ts`) | one delivery: its client, its lease, its abort signal, the blocks it is relaying | `resolve`, `deliver`, `sendBuffered`, the endings of a stream | residency, worker client, the worker's answer |
| Streaming session (`speak/speak.stream.session.ts`) | the frames not handled yet, the cutter and the pieces it has given, the piece being spoken, one lease, an idle clock | start, text, flush, end, the pump, every closing | residency, worker client |
| Installer (`install/`) | the job queue, two virtualenv slots per engine | `install`, `reinstall`, `uninstall`, `pull`, cancel | residency (`forget`, `replace`, `acquire`, `free`), supervisor, registry, database |
| State store (`state/`) | SQLite: settings, engines | transactions, migrations, backup | settings, installer |
| Update checker (`update/`) | a cached release, one fetch in flight | `check`, `start`, `stop` | settings |
| Python worker (`python/rhapsode-worker/`) | the loaded engine and variant, the load lock, the synthesis slots | `/load`, `/unload`, `/speak`, `/health` | the engine adapter |
| Python answer stream (`streaming.py`, `encoding.py`, the end of `app.py`) | a thread and its bounded queue, an encoder with its three pipes and two tasks, the response | prime, stream or buffer, encode, trailer, hang-up | takes the slot from the worker, gives it back |
| Engine adapters (`python/rhapsode-engine-*`) | the voices on disk, the analyses of them the model keeps, their labels | create, delete, synthesis | the worker |
| Clients, sites | a generated client, pages | | behind the interfaces above |

### What is hard

JavaScript runs one turn at a time, so nothing here is a data race; everything is what happens
*between* two awaits. The residency manager holds a lock across worker calls that take seconds, but
a lease's release takes no lock, timers fire when they like, and `PATCH /settings` changes the policy
object under a running eviction. A timer's callback queues behind the lock and runs when what it was
armed for may be long gone. A waiter can be settled by its own timer or by a wake. A worker can die,
fail to load, or finish a load that the core has stopped waiting for. An operator can uninstall an
engine whose requests are already queued. A client of a streaming session writes while it is being
read to, flushes, ends, hangs up and falls silent as it likes. In the worker an answer is a thread, a
process, two tasks and a response, each blocked on the next, and any of them may end first, with a
core and its client at the other end of the connection that may go as well; and a voice is two files, a cache entry and a label, written and read by threads that nothing orders. `PROJECT.json` lists each of these at its line under
`hazards`.

### What makes each component correct

- Residency: a lease keeps its model; lease counts are exact; no load over the budget; nothing on the
  card that the Map does not know; a keep-alive is neither cut short nor forgotten; every request gets
  an answer; what `/health` says is what the Map says.
- Supervisor: no process that nobody will stop; a stop is never mistaken for a crash; whoever asks for
  a client is answered and every stop ends; what is reported is the state of the worker.
- Pipeline and session: exactly one release per acquire whatever ends the stream; nothing the client
  wrote is lost, repeated or out of order; the worker is never left idle over something to say; no
  session keeps a model for good.
- Python worker: no synthesis while weights are loaded or unloaded, though its client be gone; no more
  utterances on the device than the engine's concurrency; a slot goes back exactly once; every
  request ends.
- Answer stream and delivery: an answer that ends well is all of the audio, at the client too, and one
  that broke off never looks like it; a failure before there is audio is a status; a slot and a lease go
  back once; nobody is left blocked.
- Voices: after a create or a delete the voice is whole or nothing, whatever went wrong before, and
  the next synthesis speaks that recording and not an analysis of an older one.
- Installer: one job per engine; the live virtualenv is never the one being built or deleted; a crash
  at any point boots on a virtualenv that exists.

## Modules

`Residency` is the whole residency manager with the parts of the registry, the settings and the
installer that touch it. `ModelSlots` is what it promises, in four actions and no mechanism.
`MCResidency` gives the constants that a `.cfg` cannot write. `ResidencyProofs` holds the theorems about
its leases, `ResidencyPromises` those about its slots, its timers and the card.
`WorkerSupervisor` is the supervisor of one engine's worker with the registry that keeps its handle,
and `MCWorkerSupervisor` its symmetry. `ModelWorker` is the Python worker, with `MCModelWorker`, and
`EngineInstall` the installer, which needs no more than its `.cfg`. `SpeakSession` is the streaming
session, over `Segments`, which is where both the core and the worker cut a text into pieces;
`AnswerStream` is one answer of the worker, `SpeakDelivery` the `/speak` of the core that it answers,
and `VoiceStore` one cloned voice of the worker. The theorems of each are in the module of its name and
`Proofs`: `WorkerSupervisorProofs`, `ModelWorkerProofs`, `EngineInstallProofs`, `SpeakDeliveryProofs`,
`VoiceStoreProofs`, `SpeakSessionProofs`.

The modules meet where the code does. A `SpeakSession` acquires and releases as a request of
`Residency` does, and its `Acquired` takes what `RequestAnswered` promises. A request of `Residency`
takes its client from `WorkerSupervisor`. `card` of `Residency` is what a `ModelWorker` holds.
`SpeakDelivery` composes the core's delivery with the worker's answer, each an actor with its own
steps over the connection between them; it begins where a request of `Residency` has its lease and one
of `ModelWorker` begins to speak, and its `GivenBackOnce` is what the release of a lease there and of a
slot here take for granted. `EngineInstall` calls `replace` and `forget` of `Residency`.

### Residency

One action is the code from one await to the next.

- `lockQueue` is the promise chain of `Mutex`: a call of `run` appends a task, the head is the one
  running, and `step` is what that task awaits (`granted`: it has the lock and has not begun).
  `Unlock` is the `finally` that settles the next link.
- A request is `idle`, `queued` for the lock, `refused` (back in `acquire` with nothing), `asleep` in
  `waitForRelease`, `speaking` with a lease, or over. `tryAcquire` is `Hit`, `SwitchVariant` and
  `Miss`, then, at each await, `RoomMade` (the eviction loop, which re-reads the Map and the budget),
  `Spawned`, and `Loaded` or `LoadFailed`.
- `residents` is the Map; `Absent` stands for no entry. A lease's release and a timer's callback close
  over the `Resident` object rather than its key, so `loads` numbers the objects of each engine and a
  queued expiry carries the number.
- `waiters` holds one entry per sleeper. A sleeper whose own timer fires leaves its entry behind
  (`Spent`), which the code does too: the closure stays in the array.
- The operator calls (`forget`, `replace`, `free`, `rearmExpiry`) are `StartCall` and `Patch`, then
  `CallBlocked` or `CallGranted` when they get the lock, then `Forgotten`, `Swapped`, `Freed` or
  `Rearm` when their callback is over. `replace` polls: `PollAgain`. Its wake comes in a turn after
  the lock is handed on: `SwapWakes`. A settings change remembers the keep-alives it replaced (`was`):
  history, which `ExpiryHonoursLastUse` reads and no action does.
- `card` is external: what the worker of each engine really holds. It is what the properties compare
  the Map with. `Faults` names the failures an instance has: a spawn or a load that fails, a load that
  the worker finishes after the core gave up, an unload or a stop that fails, a swap whose database
  write throws, a process that dies.

Abstracted: times are ticks, the 50 ms floor of a sleep is one tick, an engine's or a request's
keep-alive is one of `KeepAlives`, model sizes and `blockedBy` are left out (they are only reported).
Of two equally old idle models any may go: the sort is stable but the order of a Map is not a
promise. A terminate of an engine with no resident model whose stop throws ends the call rather than
being logged; the model does not tell those two apart.

### ModelSlots

Section 3 of `docs/protocol.md` without lock, clock, worker or waiter. A slot is claimed only below
the budget, used only in the variant that was asked for, vacated only when nobody uses it, and the
budget may change at any time. `Residency` maps onto it: an engine's slot is its Map entry, or, from
the moment the lock holder has made room and decides to load, the variant it is about to load
(`ClaimedSlot`); its users are the requests that speak it.

### WorkerSupervisor

`worker.handle.ts` and `worker.registry.ts` for one engine. `state` is what each handle holds and
`handle` is the registry's Map entry; a handle that was forgotten goes on existing while its process
drains, which is why there can be several. `process` is external: the processes as the operating
system has them. One is `dead` before the core hears of it and `reaped` once its exit event ran.

- `Client` is `client(id)`: `HandleOf` builds a handle from the entry declared now, `EnsureUp` hands
  out the client, joins the start in flight, begins one or refuses. `Spawn` is the second half of
  `start`, after its socket, with the check that a stop has not come in between; `HandShake` and
  `GiveUp` are its two endings that are not an exit.
- `Exit` is the exit event: `onExit`, then, in the same turn, every `stop` that awaited it and what
  its caller does next. For an uninstall, an install and a reinstall that is `Redeclare`: the engine
  is removed or declared with a new `version` of its entry, and its reported state goes with it.
- `Evict`, `Forget` and `StopAll` are the callers of `stop`; `Stop` is its code up to the first await,
  `AskedToTerminate` the answer of the terminate verb, `Kill` the end of the grace period.
- `since` is what `upSince` can tell: never up, up lately, or a handshake more than
  `restartDecaySeconds` ago. `LongTime` lets that time go by. It is never reset, as in the code.
- `said`, `stable` and `asked` of a process are history: it printed a line, it was up for long, it was
  told to leave. `stable` and `asked` are read by properties only.

Kept apart as the code keeps them apart: evictions and removals by the transition lock, installs by
the job queue; a client is asked for only before the shutdown, whose hook runs after the requests.
Abstracted: the socket files, stderr, the wording of errors, and which of the two reasons for
refusing a handshake it was (`stranger`). A remote handle owns no process and is left out, and so is
`autostart`, which is one more caller at boot.

### ModelWorker

`worker.py` and the part of `app.py` that makes an answer. There is one event loop and one thread per
synthesis. A task that need not wait goes on, so an action is a whole turn: a request that finds its
model, a slot and a quiet device speaks in the turn it arrives in, and one that has just loaded goes on
to its slot in the turn that lets go of the lock.

- A request is `locking` (it waits for `_transition`), `settling` (it holds the lock and waits for the
  syntheses to end), `unloading` or `loading` (the engine's call runs), `slotting` (it waits for a
  slot), `holding` (it has one and waits for the device), `speaking`, and then over. `todo` is what is
  left of `_unload_locked` and `_load_locked` on its stack, `retry` whether its load has failed once.
- `Arrive` is the handler up to its first wait; `Resume`, `Settle`, `Unloaded`, `Loaded`, `LoadFailed`,
  `Slotted` and `Speak` are what follows each wait. `Locked`, `Begin`, `Onward`, `Answer` and
  `WithSlot` are the rest of a turn, from one place to the next.
- `transition` and `slotQueue` are asyncio's `Lock` and `Semaphore`: first come, first served, and
  nobody passes those who wait.
- `thread` is external: whether the engine's call of a request still runs. `synthesising` is what the worker counts, which
  falls a turn after the thread has ended (`SynthesisEnded`).
- `Release` is every ending of an answer: the end of the audio, an engine that raises, an encoder that
  fails, a client that hangs up. With its thread still running it leaves the synthesis behind.
- `Drain` is `/terminate`, SIGTERM or a core that is gone, `Exit` the end of `server.run`.

Abstracted: a preview and a dialogue follow the protocol of a `speak` and are not told apart; an
`engine.unload` that raises is treated by the code as one that does not; the queue of chunks between
the thread and the answer; a buffered answer, which a hang-up does not cancel (the model lets it).

### EngineInstall

`engine.installer.ts`, `install.jobs.ts` and the records of `managed.engines.ts`, with the death of the
core at any step and its next start.

- `entry` is the slot the registry runs each engine from, `record` the slot the database says it boots
  from, `disk` what is in both slots of each: `empty`, `partial` (being built or being deleted, which
  the code cannot tell apart either) or `built`. A virtualenv is removed over a while, so the start and
  the end of an `rm` are two actions, and the core may die between them.
- `queue` is the jobs' `Mutex`, and `job` where the job of each engine is. `Submit` is all the calls
  that queue one; `Begin` is `execute` up to the first await of its work. An install then goes through
  `Cleared`, `Emptied`, `Built` and `Declare`; a reinstall through `Emptied`, `Built`, `Swap` (or
  `GiveUp` and `Undone`, when the engine never falls silent), `Declare` and `Dropped`. `Fetched` ends a
  pull or a warm, and the weights of an install. `BuildFails` is any command that fails, or that a
  shutdown kills.
- `uninstall` is where the uninstall of each engine is. It is no job: it asks `refuseIfBusy` once
  (`AskUninstall`) and then waits for the transition lock.
- `Stop` and `Exit` are the shutdown, `Crash` the death, `Boot` the next start.
- `kept` is history: the engines whose record the database refused to delete.

Abstracted: residency is a choice (the engine speaks or does not) and `Locked` its lock; the commands of
a build are one; a worker's `forget` does not throw; an `rm` and a read of the database do not fail; an
install without weights and one with them differ only in whether they go on to `Fetched`; engines of the
operator's file are never managed and are left out. An uninstall in flight at a shutdown is waited for,
as the server waits for its requests; that it is not is `Crash`.

### AnswerStream

`from_blocking` of `streaming.py`, `encode_stream` of `encoding.py` and the ends of `speak` in `app.py`,
for one answer. An action is what one party does between two points where it may be blocked.

- `engine` is the thread: it makes a chunk (`Make`), waits for room (`Put`), and ends with `_Stop`,
  after which `on_exit` runs on the loop (`ThreadGone`). `queue` is the bounded queue and `source` the
  generator that reads it: `Abandon` closes it, which sets the flag the thread looks at and then drains
  the queue (`Drain`), because the thread may be blocked on it.
- `task` is the handler and then the response. A stream is primed with its first PCM chunk (`Prime`),
  given back to whoever reads next (`replay`), and then with its first encoded block, before `Start`
  sends a status. `Collect` and `encodeAll` are `stream: false`. `Refuse` is an error status, `Abort` a
  connection cut under a 200, `Finish` the trailer.
- `feeder` and `drainer` are the two tasks beside the encoder, `ffmpeg` and `pipe` (external) the
  encoder and its three pipes, each of which holds `Pipe` blocks and then blocks its writer. It may
  complain about a block, die, or exit 0 before it has read everything.
- A hang-up is noticed by the streaming response alone: while it waits for a chunk (`HangUpReading`)
  or for the client to take one (`HangUpSending`). A cancellation is delivered again at every await,
  so in the first the clean-up is itself interrupted at its first one: a drain stops when the queue is
  empty, and where the encoder still runs the wait for its death is the last thing done. In the second
  nothing closes the generators but their collection: `CloseBody`, then `CloseStreams`.

Abstracted: a chunk is its number and so is the block made of it, whose sizes need not match in the
program; a client that hangs up during priming or a buffered answer is answered into the void, as the
worker does. An encoder that exits 0 early counts as a success in the code, and `CompleteIsWhole` says so.
A buffered answer of no audio is a 200, where a stream of none is an error; both are modelled.

### SpeakDelivery

`deliver` and `sendBuffered` of `speak.pipeline.ts`, `audio.floor.ts` and `spoken` of
`worker.client.ts`, from the lease on, before an `AnswerStream` whose client is the core.

- `core` is where `deliver` awaits: the worker's headers (`asking`), the pipeline (`relaying`), the body
  of a buffered answer (`buffering`). `Refused`, `Headers` and `TimesOut` are what the first may come
  to, `Relays`, `RelayEnds`, `RelayBreaks` and `RelayLeft` the second, `Buffered` the third.
- `Fails` is every way to fail: an envelope while there is no status, a destroyed connection after one.
  `Settles` is the `finally` and the `catch` with their release, so `returned` counts the calls.
- `relay` is what the core holds of a stream, `Hop` blocks; the worker's `Send` waits for room in it
  and so for the client. `link` is the connection to the worker: dropped by the core, after which the
  worker sends to nobody until it notices (`HangsUp`), or dead with its process, and with whatever of
  the answer the core had not read.
- `listens` is the client. What a hang-up does depends on when: a stream that is being relayed ends at
  once, but before that only the request's `close` event tells, and the listener is added after the
  lease was waited for. The event may come with the end of the request's body or with the connection,
  so `Aborts` may happen or never: then the worker speaks to nobody, for as long as it takes.

Abstracted: the floor counts blocks; `acquire` before it is `Residency`'s; a dialogue is a `speak`; a
buffered body is read at once, or not at all when the worker dies. Node keeps a 200 back until the first block
follows it, so what the model calls an aborted 200 without audio is a connection without an answer.
After `TimesOut` nothing of the
request is left in the core, and the worker finishes what it was doing and throws it away.

### Segments

`segments` of `rhapsode_worker/text.py`, and `sentences.ts`, its copy in the core, as functions of
intervals: pack what lies between the sentence ends, a sentence too long between its clauses, a clause
too long between its words, and a word never. `Segments` lists the ends in order by their rank, the
number of ends up to each. White space at a joint and scripts without any are left out.

### SpeakSession

`speak.stream.session.ts` for one connection, and the `SentenceCutter` it feeds. The client writes any
text of `Longest` fragments, split over its frames in any way.

- `frames` is the chain of promises each frame is handled on; `#start` holds that up through `resolve`
  (`Resolved`) and `acquire` (`Acquired`), and either goes on though the session be closed meanwhile.
- `cutter` holds from where to where it has text, `queued` the pieces a `flush` or an `end` took out of
  it, `piece` and `at` what the worker is at. `ReadyTo` is `SentenceCutter.next`: the first sentence is
  spoken alone, later ones as many as fit; a sentence end counts once something follows it. `Pump` is
  `#pump` and `Ends` the end of the session it finds.
- `Refused`, `Answered`, `BreaksOff` and `Spoken` are `#speak`; a piece of nothing but cues is spoken
  without an answer. `IdleOut` is the idle clock, armed again while something is spoken (`Rearms`).
- `Close` is `#close` from every one of its callers. What only a closed session would still hold is
  reset in the model, since nothing reads it.
- `silent` and `owed` are history: how long the client has sent nothing, and what it wrote before its
  first `end`.

Text after an `end` is spoken or dropped, as the timing has it, and both are modelled. So is a flush
before any text, which spends the first sentence's privilege.

### VoiceStore

`voices.py` of the Fish engine, `references.py` and the labels of `worker.py`, for one voice. A create
and a delete run in a thread each and a synthesis in another, so a step is one call on a file or the
cache: `OpenClip` (which empties the file), `FillClip`, `OpenWords`, `FillWords`, `Forget`, `Describe`,
`Created`; `Find`, `RemoveClip`, `RemoveWords`, `ForgetRemoved`, `Deleted`; `Speak`, `Read`, `Look`,
`Analyse`, `Keep`. `Evict` is a cache that is full or thrown away with its model, `Crash` a worker that
dies between any two of these and comes back with the files as they were.

- `clip` is the recording in the file and the file's time; the cache's key is the time and the size,
  and every recording is taken to have one size, the worst case. `Stamps` picks the least time that is
  kept nowhere, since times are only compared for equality, and with the fault `tick` it may be the
  time of the write before, as on a coarse file clock.
- `last` and `mixed` are history: the outcome of the writers when they met no other, `Unknown` after one
  that did, or that failed.

Breeze and Dia store their voices the same way; Breeze reads its clip again for every piece and keeps no
words. The calls on the cache are atomic here: two of the code's that collide can raise a `KeyError`,
and fail, but leave no other entry. Not modelled: `GET /voices`, which a torn `.json` makes fail until
the voice is deleted or recorded again, and which can fail beside a delete.

## Runs

| Run | Asks | Instance | States |
| --- | --- | --- | --- |
| `residency_budget` | nothing unaccounted on the card, exact lease counts, refinement of `ModelSlots` (no slot is claimed over the budget) | 3 requests, 3 engines, budget moved between 1 and 2 by a patch, dying workers | 0.96 M |
| `residency_expiry` | no model forgotten; none taken within its keep-alive, the one in force or one that a change queued behind the expiry replaced | keep-alives never, 0, 1 from request, engine and server, a patch | 0.87 M |
| `residency_operators` | types, an engine in transit is alone, a lease keeps its model | 2 requests, 2 variants, 2 operator calls of five kinds, five faults | 1.52 M |
| `residency_answers` | every request is answered | 3 requests, 2 engines, one slot, failing loads | 0.48 M |
| `supervisor_forgets` | no process unsupervised, a stop is no crash, types | 3 callers, 3 calls of all five kinds, 3 handles, 3 processes, crashes, commands that cannot run | 0.36 M |
| `supervisor_answers` | callers are answered, stops end | 2 callers, 2 evictions or shutdowns, 2 processes, all faults | 0.02 M |
| `supervisor_orphan` | *violated*: a stopped core leaves nothing | a worker that is slow to announce itself | |
| `worker_device` | slots exact, utterances within the concurrency, no load over a synthesis, types, requests end | 3 requests, 2 variants, 2 slots, failing loads | 0.06 M |
| `install_slots` | engines run from and boot on a whole virtualenv, a failed reinstall changes nothing, types, stops end | 2 engines, 4 calls, 2 deaths or stops, failing commands and writes | 0.11 M |
| `speak_delivery` | a clean end is whole, audio in order, an early failure is a status, lease and slot back once, types, deliveries and answers end | 3 formats, streamed or buffered, up to 6 chunks through a queue of 2, pipes of 1 and a relay of 1, a floor of 2, all faults and troubles | 1.70 M |
| `speak_session` | text spoken in order, pieces that read well, nothing ready waits, `done` is all, one lease that comes back, types | every text of 4 fragments over up to 4 frames, limit 2, all faults | 0.31 M |
| `voice_store` | a voice is whole or gone, a synthesis speaks the last recording, types | 2 recordings, 2 deletions, syntheses without end, full disks, deaths, coarse times | 1.57 M |

`CHECK_DEADLOCK FALSE` everywhere but in `speak_delivery`, where only a delivery of which nothing is
left may stand still (`Stays`), and in `voice_store`, where a synthesis can always be asked for: each
request and each call is made once, and when all are over and
the clock is at its horizon the instance really stops; a core with its engines installed is idle; a
session that was closed is over. The longest run takes a few minutes with two
workers on a small machine, most of it spent on symmetry.

**Bounds.** Two engines and one slot already force an eviction on every miss; three engines are
needed for a budget of two to be lowered to one while two models idle, so that one `tryAcquire` evicts
twice. Three requests are needed for a waiter's queue with more than one entry, one of them spent.
Two variants are needed for the variant switch, which `residency_operators` has. `Horizon` leaves the last deadline a tick to pass, so a
timeout can really happen. Two calls let a reinstall meet an uninstall or another reinstall. Requests,
engines, variants and calls are interchangeable, so the safety runs take the symmetry of all four; the
liveness run takes none.

In the supervisor, three processes let a second one be spawned while the first drains and a third
after a crash; three handles let an uninstall, an install and a reinstall follow each other while the
first handle's process is still alive; `MaxRestarts` of two opens the circuit within them. `Handles`
and `Processes` are the only bounds on what may happen: a caller or a call happens once.

In the worker, three requests and two slots let one utterance be abandoned, one wait for the device with
a slot, and one with the lock. `Requests` is the only bound.

In the installer, `MaxCalls` of four lets an engine be reinstalled away from its first slot, interrupted,
reinstalled again and uninstalled; `MaxRestarts` of two lets both reinstalls be interrupted. A second
engine is what a job can wait for, and whose transition can hold the lock.

In an answer, six chunks fill a queue of two, a pipe of one on each side of the encoder and what the
feeder, the encoder and the response have in hand, so everyone can be blocked at once with the thread
still waiting to put; with a client that reads slowly, `Hop` of one adds the core to them. A `Floor` of two is
below, at and above what an engine makes. `Most`, `Depth`, `Pipe` and `Hop` are the only bounds. A session's four fragments and a
limit of two give sentences that fit, that must be cut at words and that cannot be, two of them at
once; four frames are a start, text before and after a flush, and an end. `Idle` of one lets the clock
go off at any wait. Two recordings are the fewest of which one can be stale, and two deletions the
fewest that collide; four times are enough for a clip, two keys and a new one.

**Faults.** An unload that fails, or a load that finishes late, leaves a model on the card that the core
does not list, and the code accepts that. `NothingUnaccounted` is therefore
checked without those faults, and `LeaseHoldsModel` with them: what the manager leases must be there
even when what it forgot is there too. A worker's faults are `crash` (it exits unasked), `nospawn` (its
command cannot run), `slow` (no handshake in time) and `stranger` (a handshake that is refused).
`Supervised` and `StopIsNoCrash` are claimed without the last two: after either, the code loses the
child, which is what `supervisor_orphan` shows. The installer's are `command`, `database` (a write or a
deletion that throws) and `overlap` (a job is asked for while an uninstall of the engine is under way).
`install_slots` has all but the last, under which the code does delete what it builds. A record that the
database refused to delete leaves an engine that an install may clear: `EngineIntact` and `BootsIntact`
except such an engine (`kept`) until a job has declared it again.
An answer's faults are `engine` (it raises), `spawn` (no encoder), `encoder` (it dies) and `early` (it
exits 0 too soon), and a delivery's troubles `leave` (its client goes), `wait` (the headers come too
late) and `death` (of the worker); a session's `resolve`, `acquire`, `refused`, `worker` (the audio breaks off or
falls under the floor), `bad` (a frame that is none) and `close`; a voice's `disk`, `crash` and `tick`.
The last is not taken while an analysis is under way: on a clock so coarse that a clip replaced then
has the old one's time, the code would keep the old analysis under the new clip's key for good.

**Fairness.** Weak fairness of the clock, of the timers, of the task that holds the lock (every worker
call has a timeout, so it is answered in the end) and of a promise that is settled. None for callers,
operators and the end of an audio stream: `RequestAnswered` holds though nobody ever stops speaking,
because `acquire` gives up past its deadline. The supervisor's fairness is that promises continue, that
the startup and drain timers fire, that the terminate verb has a timeout and that an exit is reported
in the end. A worker owes nothing: it need neither announce itself nor drain. Inside the worker, the
loop runs what is ready and the engine's calls return; a client reads its audio to the end or hangs up,
and need not do the latter. Without the engine's calls returning nothing could be promised: the
code has no timeout on them, and leaves that to the core's SIGKILL. The installer's fairness is that a
job and an uninstall go on: a command ends (nothing bounds how long pip takes, and nothing is promised
if it never ends), `replace` gives up, a worker is killed in the end, the lock is let go of. A delivery's fairness is that
whatever can go on does: the engine's calls return, the threads and tasks of the worker and the encoder
run, the core's promises continue, and a client that has not gone reads. One that neither reads nor goes
holds lease and slot, in the code too. No failure is owed: that an encoder that is stuck may die is no
way out, which is why `Breaks` is outside. A session's is that promises continue, the
idle clock runs, the engine and the residency manager answer, the worker ends its audio and the client
reads it; the client owes no frame and need never close, which is what the idle clock is for. A voice
needs none: nothing is promised of it but safety.

## What the violated run shows

`docs/protocol.md:114` says that a core stops what it spawned. A start that times out or is refused for
its contract rejects and leaves its child running; the next start overwrites the only reference to it,
and `stopAll` stops the new child.

Known of the code, modelled, and stated by a property that does not hold and no run checks:

- **A keep-alive changed too late** (`ChangeReachesIdle`, on `ResidencyExpiry.cfg`).
  `docs/protocol.md:1499` says that a change to either keep-alive moves the deadline of every model idle
  now. An expiry whose timer has fired waits for the lock, behind a load perhaps. A change that arrives
  meanwhile moves the policy at once and queues its `rearmExpiry` behind the expiry, which checks the
  entry's old deadline and unloads a model that is still within its new keep-alive; the rearm then finds
  nothing to rearm. TLC shows it in nine states. `ExpiryHonoursLastUse` claims what is left: such a model
  is past the keep-alive that the waiting change replaced. A use or a release in between has no such
  exception.
- **A restart count that resets** (`DecayOnlyWhenStable`, on the instance of `SupervisorAnswers.cfg`).
  `docs/operating.md:729` says that the count decays only after a worker has been up continuously.
  `upSince` is never cleared, so once a worker has been up for long, each later crash, in its startup
  too, is measured from that run and resets the count.
- **A model that leaves before its request** (`SpeaksItsModel`, on `WorkerDevice.cfg` with one slot).
  `docs/protocol.md:197` says that `/speak` loads on demand and then speaks. `answer` lets go of the
  transition lock once the model is loaded and then waits for a slot and for the device; an `/unload`,
  or a request for another variant, takes the model away in between. With one slot busy, three requests
  are enough. The core's leases keep its own unloads away from its own requests, so this needs two
  variants in use at once or a caller other than the core.
- **A virtualenv deleted under its job** (`DeclaresWhatItVerified`, on `InstallSlots.cfg` with the fault
  `overlap`). `docs/protocol.md:1747` says that the interpreter a reinstall verifies is the one the core
  will spawn. An uninstall looks for a job before it waits, for the lock that a load may hold for
  minutes and for a worker that drains. A reinstall or an install asked for meanwhile builds in a slot
  that the uninstall then deletes, and the engine is declared all the same.
- **A session closed for a silence that was not one** (`OnlyTheSilentAreClosed`, on `SpeakSession.cfg`
  with no faults). `docs/protocol.md:786` says that a session that sends nothing for 60 seconds while
  nothing is being spoken is closed. The clock is set back by frames that are handled, and frames wait
  behind `#start`: a client that goes on writing while its model loads for longer is closed.
- **A voice spoken half and half** (`SpeaksItsWords`, on `VoiceStore.cfg` with no faults).
  `voices.py:3` says that neither half of a voice is any use alone. A synthesis reads the words and then
  the clip, and a voice recorded again between the two is spoken with the new clip and the old words.

Known of the code, modelled, and not stated:

- A free slot may wake nobody: `residency.manager.ts:211` wakes a waiter after a swap so that a request
  does not sleep out its deadline over a model that has gone. A load that fails after its eviction, an
  uninstall, an unload and an expiry free a slot too, and wake nobody.
- A release may wake nobody: `residency.manager.ts:196` says it wakes exactly one waiter, but a waiter
  whose own timer has fired leaves its entry in `waiters`, and `wake` may shift that one.
- A keep-alive patched while a reinstall waits for the engine to fall silent is undone when the reinstall
  declares the entry it built before the wait.
- A client asked for while `forget` awaits its stop builds a handle from the entry still declared, which
  stays in the Map after a reinstall; and the old worker's exit then reports the engine down.
- A create beside another, or cut short by a full disk or a death, leaves the clip of one and the words
  of another, or an empty file, until the voice is next recorded or deleted alone.
- A finished sentence of one word longer than the limit is held by the cutter until a flush or an end
  comes. `NothingReadyWaits` takes ready to mean what the cutter gives out (`ReadyTo`), so it does
  not see this.
- A lease may be of a model whose worker has died: nobody tells the manager, and the new worker loads the
  model on demand when it is asked to speak. `WorkerDies` is that death.
- A crash starts nothing, where `docs/protocol.md:110` speaks of a restart with backoff.

## Proofs

`ResidencyProofs` proves, for every finite set of engines and requests, every set of variants and
calls, every clock bound and every set of faults:

| Theorem | States |
| --- | --- |
| `TypeCorrect` | `Spec => []TypeOK` |
| `LeaseSafety` | `Spec => []LeaseHoldsModel` |
| `LeaseAccounting` | `Spec => []LeasesCounted` |
| `TransitSafety` | `Spec => []TransitIsAlone` |
| `Invariance` | `Spec => []IInv`, from which the others follow |

The assumptions are `ResidencyAssumption`: finite engines and requests, `None` not a variant, budgets
of at least one, and the kinds of call and fault the module knows.

`LeaseHoldsModel` is not inductive. A lease holds a model because nobody drops a model that is leased,
and the code tells whether it is leased by a counter, so the counter has to be the number of speakers
(`LeasesCounted`). A load makes a fresh entry with one lease, which is right only if nobody spoke that
engine before, so whoever holds the lock with an engine in transit must find it out of the Map
(`TransitIsHeads`). A wake may queue only somebody who sleeps, so an entry that is not spent is a
sleeper's and appears once (`WaitersAsleep`). And a task that reaches the head of the lock must know
what it wants (`AskKnown`, `JobKnown`). `IInv` is their conjunction; TLC checks it on the same
instances.

The proof does not go action by action through eight conjuncts. It sorts the actions by what they
can disturb: those that touch no request that speaks (`Quiet`), those that take a lease
(`LeaseTaken`), the one that gives it back (`LeaseGiven`), and, for the lock, those that leave it,
wait at its tail, start a transition at its head or hand it on (`HandsOn`, `Waits`, `Starts`).
`LeasesCounted` then needs the cardinality of a finite set with one element more or less, from the
library's theorems.

`ResidencyPromises` goes on from that invariant:

| Theorem | States |
| --- | --- |
| `SlotsImplemented` | `Spec => ImplementsSlots`: the refinement of `ModelSlots` |
| `NeverExpiredEarly` | `Spec => ExpiryHonoursLastUse` |
| `NeverForgotten` | `Spec => []IdleWillExpire` |
| `EverythingListed` | `Prompt` implies `Spec => []NothingUnaccounted` |

A slot is claimed between two awaits of the task that holds the lock, and the task may then be nobody's
but a request's that waits for this very engine (`ClaimIsHeads`); given that, each step is sorted by what
it does to the lock (`LockTurns`) and mapped to an action of `ModelSlots` or to a stutter, and the budget
is respected because the eviction loop's last look at the Map and the claim are one turn. The two about
expiry rest on the deadline of an idle entry: it is the entry's last use and the keep-alive in force, or
one that a settings change still waiting for the lock replaced (`DeadlineCurrent`). A rearm at the lock
brings every deadline up to date, an expiry queued ahead of it goes by the older one, and so the theorem
claims no more than that (see `ChangeReachesIdle` above). An idle entry with a keep-alive has a deadline
and a timer, or has its callback queued, once no rearm is waiting (`IdleWatched`). `Prompt` says that the instance has none
of the faults `lateload`, `unload`, `stop` and `swap`. It is a hypothesis and not a convenience: with
each of the four alone TLC finds a model on a card that the Map does not list, as the code accepts.

`ModelWorkerProofs`, for every finite set of requests, every concurrency and every set of faults:

| Theorem | States |
| --- | --- |
| `WorkerTypeCorrect` | `Spec => []TypeOK` |
| `NoSlotLost` | `Spec => []SlotsAccounted` |
| `DeviceNeverShared` | `Spec => []OneUtterance` |
| `NothingMovesUnderASynthesis` | `Spec => WaitsForAbandoned` |
| `WorkerInvariance` | `Spec => []IInv`, from which the others follow |

A slot belongs to the request that holds it and a thread to the count, and the two part when a client
hangs up: the slot goes back and the thread goes on. So `IInv` has two counts, of the requests that hold
a slot (`SlotsAccounted`) and of the threads that are not over (`CountExact`), a thread's request is
speaking, served or gone (`ThreadsKnown`), and whoever moves a model is the head of the lock with
something left to do (`InTransit`), or it could not be said who lets go of it. The proof found that
`Todo`, what a request has left to do once it has the lock, was written with cases that overlap, of which
TLC takes the first and a prover none; it now says which comes first, as `ensure_loaded` does.

`EngineInstallProofs`, for every set of engines, any number of calls and restarts, and commands and
databases that fail when they like:

| Theorem | States |
| --- | --- |
| `InstallTypeCorrect` | `Spec => []TypeOK` |
| `EngineNeverBroken` | no `overlap`: `Spec => []EngineIntact` |
| `EveryBootWhole` | no `overlap`: `Spec => []BootsIntact` |
| `ReinstallKeepsWorking` | no `overlap`: `Spec => []KeepsWorking` |
| `DeclaredAsVerified` | no `overlap`: `Spec => DeclaresWhatItVerified` |
| `InstallInvariance` | no `overlap`: `Spec => []IInv`, from which the others follow |

Per engine, its job and its uninstall exclude each other (`Alone`); what it runs from is what it would
boot from except between the two halves of a swap (`Agrees`); a job at each of its stages builds in the
slot the engine does not use (`Stage`); and what is run from or booted from is whole (`Whole`). The
hypothesis is that no job is asked for of an engine while its uninstall waits. `Alone` is what breaks
without it, and the last theorem says that nothing else does: the divergence listed above is the only one.

`WorkerSupervisorProofs`, for any callers, calls, handles and processes, any limit of restarts, and
workers that die or fail to spawn when they like:

| Theorem | States |
| --- | --- |
| `SupervisorTypeCorrect` | `Spec => []TypeOK` |
| `EveryProcessSupervised` | no `slow`, no `stranger`: `Spec => []Supervised` |
| `StoppedIsNotCrashed` | no `slow`, no `stranger`: `Spec => StopIsNoCrash` |
| `StoppedCore` | no `slow`, no `stranger`: `Spec => []StoppedCoreLeavesNothing` |
| `SupervisorInvariance` | no `slow`, no `stranger`: `Spec => []IInv`, from which the others follow |

A process that the core has not seen exit is the child of its handle, and that handle is the registry's or
has a stop under way (`ProcessInv`); a handle has a client only while its child is afoot, and a child afoot
only while it has a client or waits for one (`HandleInv`); a stop under way is of a process that is not
wanted (`CallInv`). The hypotheses are the two ways in which the code gives up a start and leaves its child
behind. `StoppedCore` is the property that `supervisor_orphan` shows violated: together they say
that what a start gave up on is all that a stopped core can leave running.

`SpeakDeliveryProofs`, for utterances, queues, pipes, relays and floors of any size, any formats, every
set of faults and every trouble:

| Theorem | States |
| --- | --- |
| `DeliveryTypeCorrect` | `DeliverySpec => []DeliveryTypeOK` |
| `NothingLostOnTheWay` | `DeliverySpec => []HeardInOrder` |
| `CleanEndIsWhole` | `DeliverySpec => []HeardWhole` |
| `FailuresAreStatuses` | `DeliverySpec => []FailureIsAStatus` |
| `OnceGivenBack` | `DeliverySpec => []GivenBackOnce` |
| `DeliveryInvariance` | `DeliverySpec => []IInv`, from which the others follow |

Between the engine's thread and the client there are the queue, the chunk that priming put back, the
feeder's hand, three places in the encoder, the response's hand, the connection, the relay. Each holds a
run of consecutive numbers (`Follows`), perhaps with a mark at its end (`EndsAfter`), and the invariant
says of each where its run begins: one after what is in everything in front of it. `QueueInv` and
`ReplayInv` say so of the chunks the engine has made and nobody has counted, `PipeInv` of those in the
encoder, `SentInv` and `RelayInv` of those that have left. `TaskInv` and `SlotInv` follow the response
through its places, `EncoderInv` says which of the encoder's three parties may still be running, and `WholeInv`
is why a clean end is a whole answer: it is reached only from a reader that saw the mark of an engine that
did not fail, with nothing left in between. The exception is an encoder that exits 0 too soon, after
which the client has a prefix, as in the code. `CoreInv` is the same for `deliver`. The worker's half does
not mention the core's, so the proof has two parts: `AnswerKept`, of any step of an answer whoever reads
it, and `CoreKeepsFront` with the lemmas before it, of the delivery in front. The bounds of the types
follow in the end from the runs (`Bounds`, `TypesHold`): a buffer that holds the numbers from one on to at
most what was made holds chunks.

`VoiceStoreProofs` proves, for any number of recordings and deletions, whichever of them name the voice,
and every set of faults:

| Theorem | States |
| --- | --- |
| `VoiceTypeCorrect` | `Spec => []TypeOK` |
| `VoiceStoredWhole` | `Spec => []StoredWhole` |
| `VoiceSpeaksTheLast` | `Spec => []SpeaksTheLast` |
| `VoiceInvariance` | `Spec => []IInv`, from which the others follow |

The assumption is `VoiceAssumption`: creates are no deletes and none of the module's marks.

Nothing locks a voice, so everything rests on history: as long as no writer met another (`~mixed`),
there is one at most (`Alone`), and what it has done by each of its steps is known (`WrittenSoFar`),
which at its last step is `StoredWhole`. What a synthesis speaks comes from the cache, where an analysis
of an older clip may be kept at any moment. It is served only under the key of the clip that is there;
a clip written while an analysis is under way has another time than the analysis' key, so what is kept
under a key is always of the clip that has the key (`AnalysesItsKey`), and a create's `Forget` takes
away what an older clip left under the same time and size. From there to the next writer the cache
serves the clip or nothing (`KeptIsTheClip`), and a synthesis that began after has read only the
recording that was stored last (`CalmReads`). `IInv` is the conjunction; TLC checks it on the instance
of the run too. The lemmas are of writers' steps, one for each conjunct they can disturb, of a
synthesis' steps, and of a death; `StampFresh` is the one about the clock: three times are in use at
most, so one of four is free.

`SpeakSessionProofs`, for every text, limit, number of frames and idle time, and every set of faults:

| Theorem | States |
| --- | --- |
| `SessionTypeCorrect` | `Spec => []TypeOK` |
| `LeaseIsHeldAndGivenBack` | `Spec => []LeaseIsTheSessions` |
| `TextIsSpokenInOrder` | `Spec => []SpokenInOrder` |
| `EveryPieceReadsWell` | `Spec => []PiecesReadWell` |
| `WorkerIsNeverLeftFree` | `Spec => []NothingReadyWaits` |
| `DoneMeansAllWasHeard` | `Spec => []DoneIsAll` |
| `SessionInvariance` | `Spec => []SInv`, from which the others follow |
| `PiecesAreCutWell` | what `PieceEnds` of `Segments` computes is `Cuts`, for every text |

The assumptions are `SegmentsAssumption` and `SessionAssumption`: a limit, a length, a number of frames and an
idle time of at least one, and the kinds of end and of fault the modules know.

It has two halves. The first is about `segments` alone. `Cuts` says what a good way to cut a text is:
nothing is left over, every piece but the last ends where a word ends, and two neighbouring ends are
within the limit or have one word between them. The words of a text are such a way (`WordsCut`), packing
keeps it (`PackCuts`), and so does cutting again between given ends (`PartsCut`); so clauses, sentences
and the whole text follow. `Pack` is a recursive function, and a function defined by recursion is only
what it says if there is one: `PackExists` gives it as a least set, without recursion. What it computes is
then shown for the end nearest to `hi` for which it would fail: `Least`, that a set of naturals has a least
element, is taken from the library's theorem on well-founded relations, which takes no operator and so
can be cited where an induction theorem cannot. `EveryRank` puts the ends in order in the same way, and
`PiecesAreLocal` says that where a text is cut depends on nothing that comes after it.

The second is the session. Frames that wait carry the text on from what the cutter has, and only text
frames add to it (`CarryOn`); what is spoken, queued and in the cutter is one chain from what was heard,
each link well read (`Line`); an end asks for no more than lies before it, and once it was handled that is
out of the cutter (`Owes`); a session not started has nothing to say, and a free worker nothing to do
(`Open`). `PumpKeeps` and `ContinueKeeps` are `#pump` once, for all of its callers. That more text makes
nothing ready that was not is `ReadyIsLocal`, without which `NothingReadyWaits` would not survive a client
that goes on writing. `LeaseIsKept` is the lease: a session that is being resolved has none yet, a
strengthening no run needs but the induction does.

**What is only model-checked.** Liveness (`RequestAnswered`, `CallerAnswered`, `StopEnds`, `RequestEnds`,
`DeliveryEnds`, `LeaseComesBack`), which is out of the prover's reach. Every invariant named `IInv`
or `SInv` above was checked by TLC on the instance of its module's run before it was proved; what TLC adds to the
theorems is that the instances reach what they are about.

## Plan

Done, in the order of what matters most: residency (modelled, checked, its safety proved), the
supervisor, the Python worker, the installer, the worker's answer and its delivery by the core, the
streaming session with its sentence cutter, the voices. Every safety property that a passing run checks
of these is proved.

To come:

1. Compositions: residency with the supervisor, so that `card` is what the supervised process holds; the
   worker with several answers, so that `Release` is theirs.
2. What is partly modelled: the worker's start and its watch on the core's life; the Orpheus framer and
   the batches of Dia, which are algorithms; the backup beside a migration.

## Not modelled

The HTTP surfaces (`/speak`, `/v1/audio/speech`, MCP, `/health`) translate requests and keep no state;
the control calls of the worker client are HTTP with timeouts, which appear as faults of their callers. The SDK, the CLI, the
conformance suite, the web page and the documentation site are clients. SQLite is trusted to be
transactional. The update checker is one cached answer and one fetch that its callers share. Weights, audio samples and formats matter to no property here.

About half of the repository's code by lines is `python/rhapsode-vendor-breeze` and the models of the
other engines: vendored network definitions, tensor by tensor, whose only state is weights and caches on
a device. A model of it in TLA+ would be a transliteration with nothing to say, and so would one of the
generated clients. What the engine adapters add of their own protocol is in `VoiceStore`.
