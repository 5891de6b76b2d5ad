# A specification of the Metasequoia input method

TLA+ models of the concurrent and fault-handling parts of MSIME-Windows, the TLC
configurations that check them on small instances, and TLAPS proofs of what must
hold on every instance. Source paths below are relative to the repository root.

## The system

MSIME-Windows is an input method in three kinds of processes.

- The **TSF client** (`windows/`) is a DLL loaded into every application. Each
  thread that takes text input is one client, identified by `PID << 32 | TID`.
  It eats key events, sends them to the server and applies the answers to the
  document.
- The **server** (`server/`) is one resident process. It accepts the pipes of
  all clients, decides which client is the *active* one, runs its keys through
  the conversion engine, answers it and shows candidate windows and a toolbar.
- The **engine** (`engine/`) is a library inside the server: composition
  editing, dictionaries, ranking, asynchronous rescoring. Settings, watchdog,
  web pages, the native UI library and the installer complete the product.

### Inventory

| Component | State it keeps | Operations | Interacts with | What is hard | What makes it correct | Modelled |
|---|---|---|---|---|---|---|
| Active client state (`server/src/ipc/active_client_state.h`) | active client, last owner, epoch | activate, renew, deactivate, invalidate, retire | every caller in `ipc.cpp`, under `g_pipe_clients_mutex` | an epoch must name one state of the route for ever | owner changes with exactly one new epoch | `ActiveClientState`, `RouteLease` |
| Pipe client registry (`server/src/ipc/ipc.cpp`, `outbound_session_state.h`) | per client: three pipes and registrations, dirty routes, focus token and kept token | register, negotiate, unregister, activate, deactivate, bounded writes | readers, monitors, Aux thread and worker call it; it enqueues tasks | writes fail half-way through; old threads outlive their connection | the active client is reachable; a kept token ends only its own session | `PipeRouting` |
| Readers, monitors, Aux listener (`event_listener_pipes.cpp`) | one thread per pipe, the frame in hand | hello, one frame at a time, exit | registry, task queue | registry and queue are two critical sections; frames of a replaced connection | only the registered reader moves the route | `PipeRouting` |
| Worker and queue (`event_listener_worker.cpp`, `event_listener.cpp`) | FIFO of tasks, the current composition | one task at a time after a staleness check | registry (checks, replies), engine, windows | check and task are not atomic | text of one activation never reaches another | `PipeRouting` (lifecycle, keys, candidates, snapshots) |
| Windows and toolbar (`server/src/window/`) | `global_hwnd`, `g_is_ime_active`, deferred activation | create windows, replay, apply visibility | posted messages from the worker; reads the route | no shared lock with the worker | the toolbar follows the route | `WindowActivation` |
| Server key handling (`event_listener_keys.cpp`, `_selection`, `_candidates`, `_async_candidates`, `event_listener_worker.cpp`) | composition, candidate page and its owner, request generations, account of pushed commits, replay guard | keys, selections, late answers, hides | engine, network threads, the client's edit sessions | a word is pushed while the user types the next; late answers; repeated selections | both ends cut the stream of keys at the same places; an answer is applied only to what asked for it; a selection is learned once | `TopCommit` (letters and pushed commits); the rest planned: `CandidateTasks` |
| Client IPC (`windows/src/IPC/Ipc.cpp`, `MetasequoiaIME_IpcWorker.cpp`) | pipe handles, focus token minted and acknowledged, dirty flag, pending reset | connect, activate, send key, wait for the reply with a deadline, flush deactivation | the server's pipes; a worker thread of its own | ambiguous writes, late replies, resets from two threads | a reply answers its own request; no key is sent before its session is acknowledged | `DeferredKeys` (focus session, pipes, resets) |
| Deferred keys (`windows/src/Key/KeyEventSink_DeferredKeys.cpp`) | FIFO of eaten keys, one in flight, replay token, focus generation | queue, drain, fail, clear | client IPC, edit sessions | focus changes during a replay; capacity; lost drain message | an eaten key is replayed at most once, in order, in its own context | `DeferredKeys` |
| Rescore worker (`engine/neural/rescore_worker.cpp`) | pending job per model, two slots, result table | order_for, run, shutdown | worker queue through a callback | requests that equal the running one; exceptions; shutdown | the newest request is computed; shutdown returns and nothing is called after it | `RescoreWorker` |
| Serial threads (`server/src/utils/serial_task_runner.cpp`, `server/src/settings/serial_task_queue.h`) | queue of jobs, queue of completions | post, stop, drain | dictionary writer, settings page | stop racing post | accepted work runs exactly once before the thread ends | planned: `SerialTasks` |
| Typing statistics (`windows/src/Statistics/`, `server/src/statistics/`) | bounded queue, loss counter, one flush at a time | queue, flush, aggregate | a lossy pipe | losses counted outside one critical section | an event is delivered or its loss reported once | `StatsCollector` |
| User dictionary (`engine/user_dictionary/`) | journal database, main database, connection cache | rank, pin, remove, learn, replay | worker thread, dictionary writer thread, settings process | two commits, a crash between them; locks taken in opposite orders; a pick ranked after a removal | nothing the user taught is lost by an upgrade; what was removed stays away | `DictionaryJournal` |
| Engine sessions (`engine/core`, schemes, quanpin, shuangpin, japanese, providers, local modes) | composition text, candidates | edit, look up, select | server key handling | long sequential string code | unit-tested | no |
| Online candidates (`server/src/cloud`, `ai`, `english`, `mixed`) | request generation, caches | request, answer | network | late answers | the generation check, planned with `CandidateTasks` | no |
| Voice, panels, settings, configuration, skins, web view, watchdog, installer, scripts, UI libraries, vendored decoders | | | | | | no: user interface, file formats, numeric or third-party code |

`PROJECT.json` lists the components with their sources and, for the parts left
out, the reason; its `hazards` name each place where this code can go wrong in a
way a test would hardly reach.

### How the routing works

A client connects Main (client to server) and the two reverse pipes Reply and
Worker (server to client). A reader thread per Main pipe handles its frames:

- `ClientActivated(token)` makes the client active if all its pipes are up and
  none of its routes is dirty; a new token for the owner renews the epoch.
- A key or `FocusRestored` also activates its client, reusing the token of the
  session; every other frame is attributed to the client that is active.
- `ClientSuspended` and `ClientDeactivated` empty the route. A terminal
  deactivation by a client that is not the owner is honoured if its own earlier
  suspension emptied the route, or if the user is looking at its window.

Each handler changes the registry under `g_pipe_clients_mutex`, then enqueues a
task for the worker *after* releasing it. The worker drops a task whose
activation is not current, then runs it without holding the mutex. Monitors
notice broken reverse pipes; any write that fails drops its pipe and ends the
activation of its client; the Aux thread brings a late terminal deactivation
when the Main pipe could not.

## Modules

| Module | Models | Builds on |
|---|---|---|
| `ActiveClientState` | the transitions of the class, as operators on a record | |
| `RouteLease` | abstract: a lease held by at most one client, one new epoch per change | |
| `PipeRouting` | server: registry, readers, monitors, Aux thread, queue and worker | `ActiveClientState`; implements `RouteLease` |
| `WindowActivation` | server: how an activation reaches the toolbar during start-up | `ActiveClientState` |
| `DeferredKeys` | client: eaten keys, focus session, local reset, reconnecting | |
| `RescoreWorker` | engine: the execution slots that rescore sentences, and their shutdown | |
| `StatsCollector` | client and server: the lossy path of typing statistics | |
| `DictionaryJournal` | engine: ranking, removing and learning words in two files, crashes, upgrades | |
| `TopCommit` | server and client: wubi codes that commit themselves while the user types on | |

Each of the last seven has an instance for TLC (`...MC`) and a module of theorems
(`...Proofs`); `PipeTaskProofs` holds those about the tasks of `PipeRouting`.

### State and actions of PipeRouting

`session` is `g_pipe_clients`: registration ids stand for pipes (0: absent), a
reverse pipe being present, registered and ready together in every state that is
visible without the lock. Ids are compared within a client and a role only, so
each role counts its own. `route` is `g_active_client_state`; `reader` holds the
program counter and locals of each Main thread; `posts` the
`EnqueuePipeSessionInvalidatedTask` calls other threads still owe, in no order;
`queue` is `taskQueue`. Three variables summarise what the worker does:
`comp` is the set of activations whose keys are in the composition, `toolbar`
is the last lifecycle message it posted, and `worker` its task.

An action is one critical section of the mutex, one append to the queue, or one
task of the worker. So the reader's handling of `ClientActivated` is
`ReadFrame` (registration check), `ActivateExplicit` (the critical section of
`ActivatePipeClient`) and `Announce` (the append), and anything may happen in
between. Each definition is tied to its lines in `PROJECT.json` ("map").

Abstracted: the text of the composition, packets other than their type, the
frame validator, settings sent to a client when it connects (only that such a
write may fail), waiting times. A failed write of a reader or a monitor is the
action `WorkerPipeWriteFails`, at any time rather than at the points where these
threads write, which allows more than the program does.

### State and actions of WindowActivation

The route and the queue are kept in small: a reader moves the route and then
enqueues its task (`Activate`, `Suspend`, `Deactivate`, `Enqueue`). The worker
and the UI thread share no lock, so each access to `global_hwnd` and
`g_deferred_client_activation` is a step: `RunActivated` / `Defer`,
`RunDeactivated` / `PostDeactivated`, `PublishWindow`, `ExchangeDeferred` /
`Replay`. `Apply` is the part of `ApplyConfiguredFloatingToolbarVisibility` that
repairs the flag from the route. `terminal` is a history variable.

### State and actions of DeferredKeys

Everything but the worker thread runs on the client's own thread, in handlers
that call one another. So the state is one record, `ime`, whose fields carry the
members' names in their comments; a handler is an operator from a state to the
set of states it may leave; and an action is one message, timer, edit session or
key event from beginning to end, with every handler it calls. `fifo` and
`flight` are the queue and the key being carried, `asyncs` the posted requests,
`sessions` the edit sessions the host has accepted and not yet granted, `mail`
the messages posted to the client's window; `expected`, `acked` and `ready`
are the focus token and its acknowledgement, `pending`, `resetToken` and
`queued` the reset that cancels a composition.

- The thread: `Type` (a key arrives, healthy, deferred or refused), `Pump`
  (one message: `OnDrain`, `OnConnect`, `OnDisconnect`, `OnReconnect`,
  `OnDirty`, `OnLost`, `OnAsync`), `Retry` and `LoseFocus`
  (timers), `Grant` (the host runs an edit session: `RunKey`, `RunText`,
  `RunReset`).
- The host: `FocusDocument` (its second parameter is
  `windowsTextInputHostTransition`: a return from Win+. begins a new focus
  session though the client is connected), `KeyFocus` (the keystroke focus),
  `FocusNothing`, `StackChange`, `HostEnds`, `CompositionLost`.
- The worker thread: `ReadEcho` and `StoreAck` are the comparison of an
  acknowledgement and its store, two steps; `NoticeLoss` sees the pipe break.
- The server, external: `ServerDies`, `ServerStarts`.

Abstracted: which keys are eaten, the text of the composition, the answers of
the server other than that they come or do not, the deadline of a reply. Keys
are numbered in the order of typing. A composition remembers the token it was
begun under (`origin`, a history variable); `NewSession`, the begin of a focus
session by one of the two `OnSetFocus`, hands a composition that is still alive
over to the token it mints, since the code keeps the composition.

### State and actions of RescoreWorker

The variables are the members of the class; a batch of candidates with its
context is a *key*, and a result is the fact that its key is in the table. One
action is one critical section, one call made outside the lock, or one
notification: `Take`, `Publish`, `CallbackEnds`, `Release` and `NotifyAll` are a
slot's way through `run()`, `TakeFails` and `ScoreThrows` its exceptions,
`AskAnew` / `NotifyOne` the two halves of a look-up, `Shutdown` /
`ShutdownLooks` the wait for the slots, `WakeSpuriously` what a condition
variable may do. Who sleeps on which condition variable is state, so that a
notification nobody waits for is lost as in the program. `SetReady` ends with
the start of the shutdown although `set_ready_callback` checks nothing: the
server sets the callback once, when it starts, on the thread that later runs the
shutdown. `queued` and `relied`
are history.

### State and actions of StatsCollector

An event is its number in the order of capture. `Capture` pushes it, giving up
the oldest at a full queue, as part of `CaptureBehind` (a flush is under way),
`Submit` or `SubmitFails`. A callback pops
a batch with the losses so far (`Pop`), writes a frame (`Send`, `SendFails`),
gives a failed one back (`Return`), looks again before it ends (`Check`) and
releases its module reference (`Release`, with which the callback is over: the
return of the callback behind `DllRelease`, `stats_collector.cpp:148-149`, is
code of the DLL that no reference covers and is not a step here); `Store` and
`Discard` are the server's end. `sent` and `told` count what frames carried, to balance them
against what was captured.

### State and actions of DictionaryJournal

Rows of `msime.db` and `english.db` (`dict`) and of `msime_user.db` (`journal`)
are keyed by the word; a weight is the stamp it was given. Each thread of the
server is in at most one operation: `StartRank` to `CommitMain` or
`UpdateEnglish` (ranking and pinning, in the different orders the three kinds of
word are written in), `StartDelete` to `CommitSecond` (removal, two files of one
SQLite transaction that become durable one after the other), `StartLearn` to
`Record` or `Unlearn`. `Holds` and `Wanted` say which file's write lock a
program counter holds or waits for; a thread that waits for a lock that is held
may give up (`Busy`, the five-second busy timeout). `Crash` ends every operation
where it stands, a commit may fail, and `Upgrade` ships new dictionaries and
replays the journal into them. How SQLite locks attached files and the order in
which it makes them durable are taken from its use here and marked external in
the map. `removed` and `overtaken` are history: the words removed and not entered
again since, and those of them whose deletion in the journal `Record` has
overwritten, having been under way when the word was removed.

### State and actions of TopCommit

One activation of one client, whose user types letters; a letter is its number
in the order of typing, and what word a code commits is left out. `comp` is the
server's composition, `buffer` the client's; `toServer` holds the Main pipe and
the worker's queue in one (letters and `Hide`), `pushes` and `posted` what is on
its way the other way, the latter stamped with the composition epoch of the
moment the client's worker thread received it, `lane` the edit sessions the host
has accepted. On the client, `TypeLetter` sends a key and asks for its session,
`GrantLetter` is that session, `PostServerTextDelivery`, `OnCommitMessage` and
`GrantCommit` are a push's way to `HandleCommitCandidateAndContinue`, which cuts
the code off the buffer and ends the old composition, once hiding the candidates.
On the server, a letter is a `PlainLetter`, the last one of a code with one
candidate (`AutoCommit`) or one behind a complete code (`TopCommit`);
`HideCandidate` consumes an entry of the account `pending` and clears the
composition only if there was none or the limit has passed (`LimitPasses`).
`dropped` and `late` are history: what the properties must allow for.

The user types letters only, mixed input is on, the preedit is the raw spelling
(so no key waits for a reply), the session stays established, its pipes stay up,
and the host does not report the end of a composition that the service itself ended.
Space, Backspace, Escape and a composition ended by the host are left out: see
below, they part the two ends in further ways.

## What is checked

| Run | Instance | Checks | Result |
|---|---|---|---|
| `routing_two` | 2 clients (symmetric), 1 connection each, 1 token, 4 inputs | `ReplyFromOwnKeys`, `SettledState`, `ImplementsLease` | holds, 1.6 M states |
| `routing_reconnect` | 1 client, 2 Main and 2 connections per reverse pipe, 2 tokens, 3 inputs, fair threads | `TypeOK`, `ActiveRouteComplete`, `OneFocusSession`, `OnlyRegisteredReaderActs`, `ActivationShown`, `TerminalEndShown` | holds, 0.9 M states |
| `routing_stale_reader` | 1 client, 2 Main connections, 4 inputs | `PageFromOwnKeys` | violated |
| `window_activation` | 2 clients, 5 changes of the route | `TypeOK`, `ActivationKept`, `ActivationReachesToolbar` | holds, 178 k states |
| `deferred_keys` | 3 contexts of 2 documents, queue of 2, 2 keys, 2 troubles | `TypeOK`, `GateAttended`, `FlightCarried`, `ProjectionRetired`, `NoOvertaking`, `SessionOwnsComposition`, `KeysSettle` | holds, 1.0 M states |
| `deferred_offline` | the same | `OfflineLaneEnds` | violated |
| `rescore_worker` | 2 models, 3 batches, 2 slots, table of 2, 2 callers | `TypeOK`, `SlotAccount`, `QueuedKept`, `NoLateCallback`, `PendingServed`, `ShutdownReturns` | holds |
| `rescore_evicted` | the same with a table of 1, no exceptions, no clear | `RelianceSound` | violated |
| `stats_collector` | queue of 2, 6 events, 2 callbacks, 1 outage or flip of the switch | `TypeOK`, `OneFlush`, `ModuleHeld`, `QueueAttended`, `Balanced`, `InOrder` | holds |
| `dictionary_journal` | 1 English, 2 wubi and 1 pinyin word, 4 operations, 1 crash or failed commit | `TypeOK`, `BoostJournaled`, `UpgradeKeeps`, `CheckedStaysRemoved`, `OperationsEnd` | holds, 390 k states |
| `dictionary_removed` | 1 pinyin and 1 wubi word, 3 operations, no fault | `RemovedStaysRemoved` | violated |
| `top_commit` | codes of 2 letters, 7 letters typed | `TypeOK`, `HidesAccounted`, `EndsAgree`, `RemainderKept` | holds, 30 k states |

Routing:

- `ReplyFromOwnKeys`: when a key can still be answered, the composition it is
  answered from holds keys of its own activation only. The staleness check does
  not guarantee this; it rests on `ClientActivated` being queued before every
  key of its epoch.
- `SettledState`: when nothing is left to do, an active client has the toolbar
  up and the composition belongs to it or is empty, in whatever order racing
  lifecycle tasks were queued or rejected.
- `ImplementsLease`: ownership and epoch change together, by one.
- `ActiveRouteComplete`, `OneFocusSession`: the registry and the route stay in
  step through every failure and replacement.
- `OnlyRegisteredReaderActs`: a thread of a replaced connection moves nothing.
- `ActivationShown`, `TerminalEndShown`, `ActivationReachesToolbar`: what must
  eventually happen.
- `ActivationKept`: the activation that races window creation is not lost. The
  deferred flag alone does not ensure it (the worker may store the flag after
  the UI thread has looked); the reconciliation from the route does.

The client's keys. A key that was eaten cannot be given back to the host, so it
must never be forgotten. Three properties say who is responsible for what a key
waits for: `GateAttended` (while the reset gate is closed, something is on its
way that opens it), `FlightCarried` (the key in flight is in exactly one session
or one live request), `ProjectionRetired` (keys stop waiting when the queue is
empty). That the head of the queue always has a drain coming follows from
`KeysSettle`, which says under fairness that every eaten key is done with. `NoOvertaking`: keys take
effect in the order of typing, also when one is refused at a full queue or
dropped. `SessionOwnsComposition`: keys are sent into a composition of the focus
session they are sent under, one that was begun under its token or was handed
over to it by `OnSetFocus`. A pipe that breaks, an endpoint that is opened again
or a write that fails replaces the token too, at any point of any handler, and
then the reset gate must close over the composition and stay closed until it is
gone. The property does not say that the server has seen the composition from its
beginning: of one that was handed over it has not, see below. `KeysSettle` is
written as `[]<>` of what a leads-to from "a key waits" would end in, which is
the same and cheaper to check.

Background rescoring. `SlotAccount`: the count shutdown waits for and the table
of running keys agree with the slots on every path, the throwing ones included.
`QueuedKept`: the newest
batch of a model is not displaced by a look-up for an older one. `PendingServed`:
once the user rests, all that is queued is served, so no notification is lost
between callers, slots and the slot that gives a model back.
`NoLateCallback`, `ShutdownReturns`: shutdown ends, and no callback begins after
it has the lock; that every slot is quiet when it has returned is a theorem.

Statistics. `Balanced`: queued, in flight, delivered, and reported losses add up
to what was captured. `InOrder`: the server stores events in the order of
capture. `OneFlush`, `ModuleHeld`: one loop at a time, one module reference per
callback. `QueueAttended`: an event is not left behind a flush
that is about to end.

Dictionaries. `BoostJournaled`: every weight a committed ranking gave a word has
been journaled, whichever of the two commits a crash separates. `UpgradeKeeps`:
without a fault, an upgrade leaves wubi words as the user had them.
`CheckedStaysRemoved`: a removed English or wubi word is brought back by no queued
ranking, failure, crash or replay, with the one exception the property names: a
word removed between its insertion by `learn_entered_english_word` and
`record_user_insert` (`overtaken`).
`OperationsEnd`: two threads that hold what the other waits for part in the end.

Codes that commit themselves. `HidesAccounted`: the account `pending` is exactly
the pushes on their way, received, waiting in an edit session, answered by a hide
not yet handled, or dropped by the client. `RemainderKept`: a hide handled within
the limit takes no letter from the server's composition, though it may belong to
the last push but two. `EndsAgree`: when nothing is on its way the two
ends hold the same letters, unless a delivery was dropped or a hide came late.

### Four disagreements

Each run that expects a violation checks what the repository says of itself, and
finds a behaviour of the code that contradicts it.

*A superseded reader publishes the old composition* (`routing_stale_reader`).
A reader passes the registration check, the client reconnects and activates, and
the old reader attributes its `ShowCandidateWnd` to the new activation, because
`GetActivePipeClient` knows the client and not the connection
(`server/src/ipc/event_listener_pipes.cpp:524`). Its task may be queued before
the new `ClientActivated`, and the page it publishes shows the keys of the old
session, although the epoch was advanced to prevent it (`ipc.cpp:770`). Keys are
not exposed to this: they are activated with their registration id.

*A look-up relies on a run that is over* (`rescore_evicted`). `order_for`
answers "being computed" from the table of running keys, which names a batch
until its slot is given back, that is, after its order was published and its
callback sent. If the other slot finds the result table full in between, it
empties it, and a look-up for the batch waits for a callback that nothing will
send (`engine/neural/rescore_worker.cpp:70`; the comment on lines 73-76 gives
the promise).

*The offline lane outlives the outage* (`deferred_offline`). The retry timer
that establishes the session schedules a drain but does not leave the offline
lane, as the `WM_IpcReconnect` handler does at the same point; the next key is
handled as raw input with the server at hand
(`windows/src/IME/MetasequoiaIME_WindowProc.cpp:460`).

*A removed word comes back* (`dictionary_removed`). A pinyin pick that was
queued on the writer thread before its word was removed journals an upsert over
the deletion, since `update_pinyin_weight` does not ask whether its UPDATE found
a row (`engine/user_dictionary/user_dictionary_journal.cpp:266`); the next
replay inserts the word. The English and the wubi ranking ask, so no ranking
brings such a word back; `CheckedStaysRemoved`, which is proved, says so, and
names what can (an entry half recorded, under "Seen in the code").

### Seen in the code, and not made a run

Behaviours met while modelling that no document of the repository denies, or
that lie outside what is modelled:

- `DeferredKeys`: when a document gets the focus after a loss that was carried
  out, or on return from Win+. (`ThreadMgrEventSink.cpp:169`), and when the
  keystroke focus comes first (`KeyEventSink.cpp:618`), the client mints a new
  token and keeps a composition that is still alive; no reset gate closes.
  The code means to: "A genuine focus-session handover starts here"
  (`ThreadMgrEventSink.cpp:171`), and the return from TextInputHost is "to force a
  new Server activation" (`ThreadFocusSink.cpp:104-106`). But the server replaces
  its composition at `ClientActivated` (`event_listener_worker.cpp:448`), so keys
  that follow extend on the client what the server no longer has; of the reset,
  `MetasequoiaIME.cpp:552-553` says that binding the old composition to a new
  token is to be avoided. What the server holds is not modelled in
  `DeferredKeys`; the property counts the composition as handed over.
- `DictionaryJournal`: after a crash between inserting an entered English word
  and journaling it, entering it again finds it present and it is never
  journaled. Journaling a learned word can overwrite a pin journaled between its
  two writes, and can turn a deletion made in between into an upsert, so that the next
  replay brings the removed word back
  (`user_dictionary_journal.cpp:1302-1308`; the exception of
  `CheckedStaysRemoved`). Ranking
  and pinning one English word concurrently can leave the dictionary with the
  older weight. The edits of the settings process write the dictionary first and
  ignore a failure to journal. The model contains the first three; the torn
  removal is documented (`user_dictionary_journal.h:121-123`).
- The settings page's completion queue (`settings/serial_task_queue.h`): a
  completion may show a message box, whose loop can deliver a later completion
  first or destroy the window before the outer `Drain` returns.
- `CandidateUiOwnerIsCurrent` compares client and epoch, so a click posted for a
  page that was replaced within one activation selects the same index of the new
  page, although the comment at `event_listener_worker.cpp:257` speaks of a
  hidden or replaced page.
- The deadline of the pushed-commit account (`event_listener_worker.cpp:177`) is
  moved by each new push, so an expired push that was never matched counts again
  after the next one.
- `Stop()` of the cloud, AI, English and mixed threads clears the running flag
  and notifies without the mutex; a thread between its test and its wait misses
  both.
- `EnglishIme`'s thread reads the current generation only after it has opened
  its dictionary (`english_ime.cpp:59`), while pipes are served from before it
  is started: a request made in between is not answered, and a window that
  waits for the answer waits for the next key.

- `ReplayDeferredClientActivation` exchanges the deferred flag and posts
  `WM_IMEACTIVATE` afterwards (`event_listener_worker.cpp:118`). If the worker
  runs a whole terminal deactivation in between, its `WM_IMEDEACTIVATE` comes
  first and the toolbar comes back, against the comment on lines 493-495. It
  takes a deactivation within the instant between two statements, once per start
  of the server; `WindowActivation` contains the behaviour.
- Pushed commits are stamped with the composition epoch when the client receives
  them. Of two received before the first is applied (fast typing behind a server
  that lags) the second is dropped: its word is lost and the two ends part,
  against `event_listener_keys.cpp:1353-1356`, which says they cannot. This is
  why `EndsAgree` allows for `dropped`; without that it fails in `TopCommit`.
- A Space posted under an epoch that the application of a push changes is
  dropped, or makes the push stale. With Backspace and another letter typed
  while a push is in flight, `min(consumed, buffer)` swallows the new letter.
  The end of a composition reported by the host sends a hide that the account
  takes for a pushed one. With mixed input off, the server refuses the fifth
  letter of a code the table does not answer, and the client shows it.

### Bounds

`MaxMains`, `MaxReverses` and `MaxTokens` bound connections and focus tokens,
`MaxInputs` the frames, Aux messages and failures of the outside world, `MaxMoves`
the changes of the route in `WindowActivation`. Two Main connections are the
least with a superseded reader, two tokens the least with an old and a new focus
session, two clients the least that contend. Interference between a client's own
connections and between clients is checked in separate runs; the proofs have no
such limit. Four inputs suffice for activate, key, activate elsewhere, key.

`DeferredKeys`: two keys are the least with one in flight and one behind it, a
queue of two the least that a third event finds full together with the key in
flight; three contexts of two documents are the least with a change of context
both within and across documents. Two troubles (`MaxTroubles`: focus moves,
returns from TextInputHost, compositions ended by the host, server deaths, late echoes, refused or failed
resets) let one interrupt the recovery from another.

`RescoreWorker`: two slots are the program's own number; two batches of one
model and one of another are the least with a batch that displaces a batch and
with two models running at once; `MaxCallers` lets two look-ups be between
unlock and notification. `MaxResults` (128 in the program) is at its limit from
the second publication.

`StatsCollector`: six events through a queue of two fill it, evict from it and
fill it again while a batch is held; `MaxCounter` is the largest 32-bit number,
which that many events do not reach; two callbacks are the least that could
overlap.

`DictionaryJournal`: two threads are the program's own; two wubi words make a
ranking that moves a neighbour with the word it is for; four operations give pick,
removal, another pick and an upgrade; one fault can fall anywhere among them.

`TopCommit`: a code of two letters (`CodeLength`; 4 in the program) and seven
letters allow three pushes in flight at once, and a letter behind each.

Once its budget is spent the outside world stops, and the model with it: the
runs set `CHECK_DEADLOCK FALSE` for that reason only. What deadlock would mean
here, a thread that never gets on, is covered by the liveness properties.

### Fairness

Fairness is stated where the operating system's scheduler, or a rule of the
platform, gives it, and nowhere else. No fairness is assumed of users, clients'
connections, failures or crashes.

- `PipeRouting`, `WindowActivation`: weak fairness of each reader's own steps, of
  the threads that owe a task, of the worker and of the UI thread. They wait
  only for a mutex held for bounded writes (the reverse pipes are `PIPE_NOWAIT`)
  or on a condition variable.
- `DeferredKeys`: the thread pumps its messages, the retry timer comes back, the
  host grants in the end the sessions it accepted, and a server that died is started again, by the client itself
  (`NoteFailure` launches it). Nothing is asked of the worker thread or the
  focus. Without a server to come back `KeysSettle` would not hold.
- `RescoreWorker`: weak fairness of each slot (scoring ends), of a caller's
  notification and of the thread in shutdown.
- `DictionaryJournal`: weak fairness of each thread; its busy timeout is one of
  its steps.

In `PipeRouting` and `DeferredKeys` what enables an action is written out in the
fairness formula, for the model checker's sake.

## What is proved

For all values of the constants allowed by the modules' named assumptions. `TypeCorrect`
is the type invariant of each of the seven modules; the others:

| Module | Theorem | States |
|---|---|---|
| `PipeRoutingProofs` | `ActiveComplete` | `Spec => []ActiveRouteComplete` |
| | `FocusOnce` | `Spec => []OneFocusSession` |
| | `LeaseRefined` | `Spec => ImplementsLease` |
| `PipeTaskProofs` | `RepliesFromOwnKeys` | `Spec => []ReplyFromOwnKeys` |
| | `RacesSettle` | `Spec => []SettledState` |
| | `OldReadersAreInert` | `Spec => OnlyRegisteredReaderActs` |
| `WindowActivationProofs` | `ActivationsAreKept` | `Spec => []ActivationKept` |
| `DeferredKeysProofs` | `KeysInOrder` | `Spec => []NoOvertaking` |
| | `GatesAreAttended` | `Spec => []GateAttended` |
| | `FlightsAreCarried` | `Spec => []FlightCarried` |
| | `ProjectionsRetire` | `Spec => []ProjectionRetired` |
| | `SessionsOwnCompositions` | `Spec => []SessionOwnsComposition` |
| `RescoreWorkerProofs` | `SlotsAccounted` | `Spec => []SlotAccount` |
| | `WorkNotWasted` | `Spec => []NoWastedWork`: no batch is queued or scored twice |
| | `NewestKept` | `Spec => []QueuedKept` |
| | `ShutdownIsQuiet` | `Spec => []QuietAfterShutdown`: shutdown has returned, no slot holds a job |
| | `CallbackBeforeStop` | `Spec => NoLateCallback` |
| `StatsCollectorProofs` | `FlushesAreSingle` | `Spec => []OneFlush` |
| | `QueuesAreAttended` | `Spec => []QueueAttended` |
| | `EventsBalance` | `Spec => []Balanced` |
| | `ReferencesCount` | `Spec => []ModuleHeld` |
| | `EventsStayInOrder` | `Spec => []InOrder` |
| `DictionaryJournalProofs` | `BoostsAreJournaled` | `Spec => []BoostJournaled` |
| | `CheckedRemovalsAreFinal` | `Spec => []CheckedStaysRemoved` |
| | `UpgradesKeep` | `Spec => []UpgradeKeeps` |
| `TopCommitProofs` | `HidesAreAccounted` | `Spec => []HidesAccounted` |
| | `RemaindersKept` | `Spec => RemainderKept` |
| | `BothEndsAgree` | `Spec => []EndsAgree` |

*PipeRouting.* `TypeOK` is inductive, because the readers' type relates a
thread's program counter to what it carries: a thread about to enqueue has a
nonzero epoch, one that handles `ClientActivated` a nonzero token. Neither
property of the registry is inductive by itself. `OneFocusSession` says that a
live token excludes a kept one and needs a Main connection;
`ActiveRouteComplete` is what makes `FocusEnded` keep a real token. `RegistryInv`
is their conjunction, and is inductive relative to `TypeOK`. For each critical
section, `LeavesRegistry(c)` records what all of them have in common: the
sessions of other clients are untouched, the session of `c` keeps its focus
invariant, and afterwards either `c` is active and complete, or the active
client is another one that was active before, or nobody is. For the refinement,
every change of `route` is one of the operators of `ActiveClientState`, and
`RouteOps` shows each to be a `Grant`, a `Vacate` or a stutter of `RouteLease`.

*Tasks and the route.* The reader checks a frame's epoch under the lock and
enqueues its task after the lock is released, so a task may be stale at once; that
the worker's replies are right all the same is an argument about order.
`ReadersSound`: only the reader of the registered connection carries the
present epoch to an announcement or a key. `Stamped`: no task is ahead of the
route's epoch. `KeysBehind`: the `ClientActivated` of the present activation is queued
before any key of it. `OwnerServed`: if the composition holds foreign keys, the
toolbar is down, or the worker runs a task that will make it so, a
`ClientActivated` of the present activation is still to come. Their conjunction
is `IInv`. For the settled state, `NobodyServed` adds the case of no owner (what is
left over has the end of its activation posted, queued or running behind it) and
`AuxSingle` that the Aux thread owes at most one task. The proofs go by the
shape of a step, not by the action: the route stays or mints one epoch; a reader
moves; a task is appended, taken or run.

*WindowActivation.* `ActivationKept` speaks of settled states only. `Owed` says
what holds before: in the message loop, with nothing in the mailbox, an active
client and the toolbar down, the client's *current* activation task is still
with its reader, in the queue or being run. A deferred activation cannot be the
last thing left, since the loop is entered behind the reconciliation.

*DeferredKeys.* A handler is a composition of operators on one record, so the
lemmas follow the operators. `Wire(s, r)`: the transport writes its own fields
only, and a reset it begins is announced in the mailbox. `Tame(s, r)`: what
gives up keys, completes them or schedules them only ever removes keys and
requests, and keeps the gate attended. Both compose, and `TameFull` carries the
invariant over any chain of them. The rest is what must be looked at one by one: where a
key takes a carrier or leaves it, where a message is consumed, where the host
grants a session, where the gate opens. Three parts of the invariant do not hold
in the middle of those handlers. `Mid(s, k)` is the invariant for every key but
`k`, which is between two carriers; `Held` lacks the gate, since the message that
attended it has just been taken; `Opens` is what the opening of the gate must
leave. `NoOvertaking` is strengthened by `Ordered` and `Behind`: the queue is
sorted, no session or request carries a key younger than the one in flight (a
key given up may stay with the host long after the queue was dropped), and what
has been applied is older than both. `FlightCarried` needs `Free`: a key that has
just become the one in flight has no carrier left from before.

`SessionOwnsComposition` has an invariant of its own, `Owning`, which needs of the
other only the type of the edit sessions. `Owned` says that while there is a
composition, online and with the gate open, there is a worker endpoint, whether
or not the client has the focus, and that a client that has it composes under the
token in force, begun under it or handed over to it by `NewSession`; `Linked`, that an
acknowledgement, whether stored, compared or still in the pipe, belongs to the
published endpoint. The endpoint is what makes `Owned` inductive: opening the
first one mints a token without closing the gate, so a composition begun before
there was any would be left with the old token. It cannot have been begun: its
key was granted under an acknowledged token, and `Linked` makes that imply an
endpoint. `Firm(s, r)` is the step relation that keeps both, for every operator
of the transport, of the keys and of the resets: the token may be replaced only
with the gate closed at the end or where there was no endpoint, a closed gate
stays closed, and the offline lane is not left while something is composed.
Where the gate does open (`ReopenOwning`) nothing is composed.

*RescoreWorker.* The invariant is the type, `SlotAccount`, `NoWastedWork`,
`QueuedKept` and `Stages`: a stopping worker has nothing pending or ready, no
slot exists before the threads start, and a returned shutdown saw no slot busy.
The count of busy slots is shown equal to a cardinality, step by step, by
`OneMore` and `OneLess`.

*StatsCollector.* The invariant is the conjunction of the type and the four
proved properties. `Balanced` is what makes the type hold: it bounds the losses,
queued and in hand, by the number of events captured, and so shows that the
saturating and the 32-bit sums of the code are never anything but sums. `InOrder`
speaks of concatenations; `Ordered`, from which it follows, of pairs: what is
stored is before what is on the wire, in a batch and queued, the wire before the
batches and the queue, a batch before the queue, each of them increasing and none
later than the last event captured. It is inductive given `OneFlush`: without it
a frame written by one callback could be later than a batch another one holds.

*DictionaryJournal.* The invariant strengthens the properties by `Kinds` (the
words of an operation are of one file; a removal is of one word), `Exclusive`
(a lock has one owner), `Stamps` (a weight on its way to a dictionary is in the
journal's log), `Gone` (a removed English or wubi word that is not `overtaken` is
absent and journaled as deleted, and no ranking about to commit its journal row
names it; an entry about to be recorded may, and then makes the word
`overtaken`) and `Kept` (while no fault
has happened, a wubi row agrees with what a replay would make of it, outside a
transaction that is half-way).

*TopCommit.* `HidesAccounted` is inductive with the type: each action moves one
push from one term of the sum to the next. The terms count entries of sequences;
`PositionsAppend` and `PositionsTail` say what appending and taking the head do
to such a count. `RemaindersKept` follows: a hide at the head of the queue is
counted, so the account is not empty when it is handled. For `BothEndsAgree`,
`End(k, s, q, T)` says of either end alike that it has cut `k` codes, holds the
letters `s` right behind them, and that `q` brings, in order, every letter from
there to the last one typed; taking a letter, cutting a code and typing keep it.
What ties the ends together is a witness `m`, in no variable of the model: how
many codes the client will have cut before each edit session it has requested
(`Marks`). The server has cut those, the pushes and the posted messages;
a letter in the lane lies behind the codes cut before its session. So a commit
that is granted finds its whole code in the buffer (`CodeIsHere`): were a letter
of the code still to come, it would be in the lane behind the commit, where only
letters of later codes are.

Only model-checked: the liveness properties `ActivationShown`, `TerminalEndShown`,
`ActivationReachesToolbar`, `PendingServed`, `ShutdownReturns`, `KeysSettle` and
`OperationsEnd` (fairness is out of the prover's reach). Every other property of a
passing run is stated by a theorem.

## Not modelled

The table above and `PROJECT.json` name every part left out. The models are of
the parts that have states worth exploring: threads, messages, failures, files
that commit one after the other. They are a small part of the source by lines.
The rest is of four kinds, none of which a small instance says anything about:
sequential code whose results come from large tables (schemes, look-up, decoders,
language and neural models; vendored code among it), user interface (panels,
settings, skins, web pages, painting and layout), COM calls whose outcome the
host decides (composition, edit sessions, language bar), and formats, adapters,
scripts and packaging. Within the modelled components, what is left out is in
each component's note; the larger pieces are the matching of replies with their
deadlines, `ShutdownPipeClients` and the listener loops, the candidate page with
its owner and late answers, and the settings process's edits of the dictionary.

## Plan

Done: routing, window start-up, the client's keys and focus session, rescoring,
statistics, the user dictionary, pushed commits, with the theorems above. Left, in this order:

1. `CandidateTasks`: candidate-UI ownership, asynchronous requests and their
   generations, the replay guard. Abstract: an
   answer is applied at most once, to the composition that asked for it.
2. Replies and their deadlines in the client, with a server that may have
   executed a frame whose write failed.
3. `SerialTasks`: accepted work runs once before its thread ends, and the
   settings page's completions meet a window that may be gone.
