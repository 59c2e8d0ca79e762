# A TLA+ model of thinwire

thinwire is a desktop client for several messengers. One process (`thinwire`) draws
the window and holds the core; WhatsApp and Signal run in helper processes behind
pipes; Telegram runs in the app process on TDLib; Discord and Slack run in the app
process on HTTP. This directory holds TLA+ modules of its concurrent core, TLC
configurations that check them, and TLAPS proofs about them. Paths below are relative
to `src/crates/`; line numbers are in `PROJECT.json` (`map`).

- [1. Inventory](#1-inventory)
- [2. Modules](#2-modules)
- [3. Runs](#3-runs)
- [4. Findings](#4-findings)
- [5. Proofs](#5-proofs)
- [6. Not modelled](#6-not-modelled)
- [7. Plan](#7-plan)

To run them: `tlc -config MCHelperSystem_sends.cfg MCHelperSystem.tla` (each `.cfg` is
named after its MC module), `tlapm HelperSystem_proofs.tla`.

What is here covers about 7 % of the lines of the implementation: the state machines
that several tasks, threads or processes share, and the decisions that depend on an
order nobody chose. Most of the rest maps data (section 6).

## 1. Inventory

Threads: the UI thread runs the shell (`Core::dispatch`, `Core::pump`). The host
thread runs one tokio runtime: `AdapterHost` takes the commands of the shell from an
unbounded queue and gives each to an adapter; the adapters, the supervisors and the
TDLib workers are tasks or threads of their own and answer with events in an unbounded
queue, which the pump applies. Nothing but those two queues and a few atomics (the
login epoch, the vault, the gates) is shared between the UI thread and the adapters.

| Component | Source | State | Operations | Talks to | Hard behaviour | What makes it correct |
|---|---|---|---|---|---|---|
| Helper supervisor | `thinwire-protocol/src/helper/supervisor.rs` | link, held commands, open sends, replay, wake link, failures, six deadlines, last report | on_command, on_restart, on_shutdown, on_timer, on_line, on_exited, launch, helper_ended, stop_for | host (commands, events), helper (pipes), OS (spawn, kill) | crash loops; exits that overtake lines; a start that waits for an exit; close in any state | one process at a time; a send is answered once; no pairing without gate, none after a cancel; rows and spinners tell the truth; close ends |
| Helper launcher | `helper/launch.rs`, `helper/fds.rs` | the child | start, kill on drop, wait | OS | a killed process still runs for a while | exits are reported once |
| Helper serve loop | `helper/serve.rs`, `bin/helper.rs` | adapter behind the pipe | hello, command with Ack, events, Shutdown with Stopped | supervisor, WhatsApp or Signal adapter | final events race Stopped | Ack per command; Stopped is last |
| IPC protocol | `thinwire-ipc`, `helper/convert.rs` | read buffer | encode, decode, frame | both pipe ends | partial and oversized frames | a line survives any split; secrets cross once |
| Shell: gates and pairing | `thinwire-core/src/state.rs` | risk gates, pairing screens, phone field | acknowledge, begin, cancel, use phone | host | keeps its own copy of the helper's gate | a pairing that starts is accepted |
| Adapter host | `host.rs`, `adapter.rs` | adapters by account, login epoch | run, add, remove, shutdown, deliver | everything | account numbers are reused; shutdown with a limit | no event of a dead login; all stop |
| Telegram login | `telegram/lifecycle.rs`, `mod.rs`, `tdlib.rs` | worker slots, closing flag, marker, TDLib client | start, answer, cancel, log out, respawn, wait for the old one | shell, TDLib | cancel races Ready; new client while the old one closes | one client per database; a cancel is final; no linked account is logged out |
| Telegram inbox, media | `telegram/inbox.rs`, `media_map.rs`, ... | pages, pending sends | load, send, map updates | TDLib | updates overtake answers | order of messages |
| Core sends | `thinwire-core/src/sends.rs`, `core.rs`, `state.rs` | open and expired sends, drafts, held lines | begin, settle, expire, late answer, retry | adapters | answer against timeout against edit | no text is lost or sent twice unasked |
| Core account and inbox state | `state.rs`, `view.rs` | rows, open chat, loads | apply every event | host | late answers of an old session | no state of a dead session |
| Instance lock, show | `instance.rs`, `show.rs`, `app/startup.rs` | lock, socket | acquire, ask, show | another copy | start while the first one closes | one copy; a start never does nothing |
| Notifications, mutes | `notify.rs`, `mutes.rs`, `thinwire-notify` | muted chats, shown groups | notify, withdraw | desktop | click races withdraw | no notification of a muted or read chat |
| Settings, secrets, keys | `settings.rs`, `secrets.rs`, `store_key.rs` | files, keychain | load, save | OS | key read fails for a while | a key is never replaced while its store exists |
| Session store encryption | `session_cipher.rs`, `*/cipher.rs` | store, `.enc-new`, `.plain-old` | prepare, migrate, resume, move aside | file system | crash between two renames | a store that opens survives every crash |
| WhatsApp link owner | `thinwire-whatsapp/src/whatsapp/link.rs`, `mod.rs`, `live.rs` | owner task, generation | begin, cancel, restart, stop_wait | session, serve loop | callbacks of old generations | one client per store |
| WhatsApp session, inbox | `session.rs`, `inbox.rs`, `cache.rs` | chats, cache | wa-rs events | owner | reconnects | state belongs to one generation |
| Signal adapter | `thinwire-signal/src/signal/*` | generation, receive loop, queue | link, receive, send, reconnect, wake | store, server | reconnect against cancel and removal | a dead generation does nothing |
| Discord, Slack | `discord/*`, `slack/*` | session, token | connect, poll, send, log out | HTTP | token revoked in flight | a dead session does nothing |
| Frontend, media, demo | `thinwire/src/app/*`, `media.rs`, `voice_files.rs`, `fake.rs` | widgets, files | draw, convert | core | none of the protocol | - |

`PROJECT.json` lists the components with their status, and under `hazards` what in
this code is hard to test, each at its line with the property that watches it.

## 2. Modules

| Module | Models | Role |
|---|---|---|
| `Supervisor` | `supervisor.rs` | the supervisor as a record, one operator per method |
| `HelperSystem` | shell, supervisor, pipes, helper processes, OS | composition, next-state relation, properties |
| `Filters` | `Vec::retain`, `Iterator::filter` | the filter of a queue, as an operator with a set |
| `SendContract` | ADR 0010 rule 4 | abstract specification of the sends of an adapter |
| `TelegramLogin` | `state.rs`, `host.rs`, `telegram/*` | logins of the Telegram accounts |
| `CoreSends` | `sends.rs`, `core.rs`, `state.rs`, `tdlib.rs`, `discord/session.rs` | the texts that the user sends |
| `SignalHistory` | `signal/live.rs`, `state.rs` | the history of a chat that has unreadable rows |
| `StoreContract` | - | abstract specification of a session store |
| `SessionCipher` | `session_cipher.rs`, `*/cipher.rs`, `store_key.rs` | the migration of a store; implements `StoreContract` |
| `WhatsAppLink` | `whatsapp/link.rs`, `session.rs`, `mod.rs`, `live.rs` | the owner of the WhatsApp link |
| `SignalLink` | `signal/mod.rs`, `owner.rs`, `live.rs` | the owner of the Signal link and its workers |
| `SignalRelink` | `signal/live.rs` | the store files of Signal over unlinks and links |
| `DiscordSession` | `discord/session.rs`, `discord/mod.rs` | session owners of a Discord account and their adapter |
| `InstanceLock` | `instance.rs`, `show.rs`, `app/startup.rs`, `app/mod.rs` | copies of the app |
| `MCHelperSystem`, `MCTelegramLogin` | - | instances for TLC |
| `MCSessions` | - | instances of `SessionCipher`, `WhatsAppLink`, `SignalRelink`, `SignalLink`, `DiscordSession` |
| `MCShell` | - | instances of `CoreSends`, `InstanceLock`, `SignalHistory` |
| `Filters_proofs`, `Supervisor_proofs`, `HelperSystem_proofs`, `TelegramLogin_proofs`, `Sessions_proofs` (of `WhatsAppLink` and `SessionCipher`), `Signal_proofs` (of `SignalLink` and `SignalRelink`), `DiscordSession_proofs`, `Shell_proofs` (of `CoreSends` and `InstanceLock`) | - | TLAPS proofs |

How they compose. `HelperSystem` is the composition of the shell, a supervisor, its
pipes and its helpers; the adapter behind a helper is there only by what it may write.
What a WhatsApp or a Signal helper does behind that pipe is `WhatsAppLink` and
`SignalLink`, each with its adapter, its owner task and the clients or workers that
the owner starts; `SessionCipher` is what a helper does with its store before the
owner runs, and `SignalRelink` what the calls of a Signal worker do with the files of
the store, which `SignalLink` has only as missing, empty or linked. `CoreSends` is the
shell against an adapter in the app process, `DiscordSession` such an adapter.
`SignalHistory` is the shell against a Signal worker for one chat.

`MCSessions` and `MCShell` hold modules that share no state. A behaviour of a run is a
behaviour of one of its parts, the others stay as they began, so that the states of
the run are the sum of theirs and not the product.

### Supervisor and HelperSystem

A Rust method that mutates `self` is an operator from a record to a record, so that
one handler, with all the calls it makes, is one step. `sup` is the struct
`Supervisor` with its `Link` and `Replay`; `input[r]` and `output[r]` are the pipes of
process `r`; `up` is what the OS runs, `sup.alive` what the supervisor believes to
run; `reading` are the reader tasks that still have lines.

| Actions | Code |
|---|---|
| `ShellStep` (accept gate, begin, cancel, phone link, send, load, restart, close) | `on_command`, `on_restart`, `on_shutdown` with the guards of `state.rs` |
| `TimerStep` (`RestartTimer`, `StopTimer`, `OldExitTimer`, `DrainTimer`, `HelloTimer`, stable, busy) | `on_timer` |
| `LineStep(r)` | `on_line`, `on_exited`, `on_helper_gone` for the reader and the exit task of `r` |
| `HelperStep(r)` | `serve.rs`, the adapter behind it, and a process that dies at any point |

Abstractions:

- A deadline is a boolean that may fire whenever it is armed. This covers every
  relation between the time limits and the speed of the machine, with one exception: a
  "stable" run said Hello, because `hello_wait` is far below `stable_run`.
  `startWaits` stands for `launch_after_exit` and `old_exit_deadline`, which are set
  and cleared together.
- A process has a name of the set `Runs`, used again when nothing of the old process
  is left. The code numbers processes; only that a new number differs from those in
  use matters, and the proofs hold for every set.
- Texts, ids and payloads are left out. A request that does not fit a line is a member
  of `TooLong`. The fault inside `Stopped` is collapsed. `load` stands for all commands
  whose spinner ends with an event.
- `use` is chosen at the start from `Uses`: a run of an app that sends or of one that
  loads. `StoredDevice` are the uses with a linked device in the store. One run so has
  the sends of an empty store beside the loads of a linked device.
- A process whose link was dropped got its kill: it reads and writes nothing that
  matters any more, so it only ends.
- Bounds: `MaxQueue` commands without Ack (one more for a cancel, so that it can always
  come), `MaxLines` unread lines. `phones` and `streak` are ghosts.

### SendContract

What ADR 0010 promises: a send is answered once; it is open only while something
serves the account; when the server goes, its open sends are answered in the same step.
`HelperSystem` implements it with `state` computed from `asked` and `sup.answers`,
`serving` from the link, `closed` from `stopping`.

### TelegramLogin

`row` is the account list, `screen` and `login` the login screen and the account that
it belongs to. `pending` are the commands that event handlers pushed; the pump sends
them after its last event (`Flush`), and an intent of the user sends at once. `epoch`
is the login epoch, `commands` the queue of the host, `checked` a login step between
the epoch check of `handle_auth` and the start of its worker; that gap is one of the
interleavings that matter. `adapter[a]` are the `WorkerSlots` with the shutdown task,
`worker[w]` a worker thread with its queue and `ClosingFlag`, `client[w]` its TDLib
client with the updates that the worker did not read yet. `session` and `marker` are
what survives the app: the signed-in database and the marker in the vault.

| Actions | Code |
|---|---|
| `OpenLogin`, `Resume`, `Answer`, `CancelLogin`, `TryAgain`, `Use`, `Remove`, `AddAgain`, `CloseApp` | intents of the user (`state.rs`, `core.rs`) |
| `ShowForm`, `Link`, `ShowFailure`, `CloseFailedClient`, `EndSession`, `DropEvent`, `Flush` | `Core::pump`, `apply_telegram_phase`, `apply_background_telegram` |
| `CheckStep`, `StartStep`, `FailStep`, `UseInbox`, `Disconnect`, `ShutDown`, `RemoveAccount`, `AddAccount`, `StopEnds` | host and adapter |
| `OpenClient` ... `Announce` | the worker thread: one command or one update at a time |
| `EndedElsewhere`, `Released` | TDLib (external) |

Abstractions:

- The password step is a second "code". Of the commands of a linked account only that
  they can start a worker matters ("use").
- TDLib is external: `close` and `logOut` lead to `closing`, then to `closed`; an answer
  may be refused; `setParameters` may fail; it holds the lock of its database from the
  first call until it reports `closed`.
- A pump is atomic against the other threads, which only append to the event queue.
  So is a flush: its commands go to one queue with nothing between them.
- `Link` on a row is offered only for a row without a session. An error status clears
  only the waiting flag of the screen; it has no epoch, may come at any time, and is
  left out (a user who answers twice is not in the model).
- Worker names are not used again: `Worker` bounds the clients that a run can start.
  `MaxEpoch` bounds the logins that are ended, `MaxQueue` the queue of the host. A
  worker gives up waiting (`RETIRE_TIMEOUT`) and a stop ends late (`SHUTDOWN_LIMIT`) at
  any time.
- `loggedOut` and `late` of a worker are ghosts. `late` marks a worker whose login was
  cancelled between the epoch check of its step and its start (`telegram/mod.rs` 141,
  `lifecycle.rs` 35): it takes the epoch after the cancel, its events are current, and
  they reopen the cancelled form until the host takes the Disconnect. `LateStart`
  excepts it from `LinkedClientServes` and `LinkedSessionKept`. Nothing else is
  excepted, but for an app that closes (`LinkedClientServes`: a shutdown moves the
  epoch of every account before its client reads it).

### CoreSends

`core` is the shell: the compose field and the drafts, the open and the expired sends
(`SendTracker`), the text that a rejection gave back, the rows of the open chat, the
lines "Sending..." that Telegram holds (`holds`), the error of the screen. `calls` are
commands that the adapter did not take, `flight` the messages that the server has,
`answers` the events that the pump did not apply.

| Actions | Code |
|---|---|
| `UserStep` (`Type`, `Select`, `SendCompose`, `RetrySend`) | intents of `core.rs` and `state.rs` |
| `PumpStep` (`ApplyEvent`, `ExpireSend`, `ExpireHold`, `PruneExpired`) | `Core::pump` with `SendTracker` and the event handlers of `state.rs` |
| `AdapterStep` (`TelegramTakes`, `DiscordTakes`, `Refuse`, `End`, `Announce`, `Confirm`, `FailMessage`) | `tdlib.rs`, `discord/session.rs`, and their servers |

- A pump expires, applies and prunes. They are three kinds of step, since an answer may
  come between any two of them, and entries expire one by one, which gives every
  result that a batch gives. How old an entry is when it expires is left open.
- TDLib names a message anew when it is sent or fails, so a message is its request and
  its stage. Message 0 failed before the run and can be retried.
- One account of one protocol; `Elsewhere` is a chat of another account. Texts have no
  blanks around them and differ only by name (symmetry).
- `late` and `forgotten` are ghosts: the sends that expired, and those whose answer came
  after the tracker forgot them. After an expiry Telegram may bind the message of the
  old send to the line of a new one, which `LineIsOwn` excepts.
- Left out: topics, files, replies, edits, the read cursor, a removed conversation, and
  a link of the same account after its session ended.

### SignalHistory

`store` are the rows of one chat, each readable or not. `worker` publishes the first
page row by row after it said Linked, answers older pages one after the other
(`jobs`, `answer`), and reconnects. `thread` is the chat in the core: its rows, the
lines of unreadable messages above them, the cursor, and whether it says "Start of
chat".

| Actions | Code |
|---|---|
| `EmitRow`, `ReadFirst`, `EmitMessage`, `EmitAnswer`, `ServeOlder`, `Drop`, `Reopen` | the Signal worker (`fetch_history_page`, `publish_history`, the receive loop) |
| `HandleOpen`, `HandleOlder` | the adapter |
| `ApplyRow`, `ApplyMessage`, `HistoryLoaded`, `OlderHistoryLoaded`, `ApplyLinking`, `ApplyLinked`, `Flush` | the pump (`note_unreadable`, `older_history_loaded`, ...) |
| `SelectConversation`, `SelectOther`, `LoadOlder` | intents of the user |

- The scan of `fetch_history_page` is a recursive function of the cursor, the window
  and what it saw. A batch is the newest `PageSize + 2` rows of a window before the
  cursor, or what `ScanCap` leaves of them; a short batch doubles the window, a full
  one moves the cursor. A line of unreadable messages is a number at a place, which
  stops counting at `LastTime`.
- The store does not change during a run: live messages, a refresh, the end of the
  session, retained chats, topics, the wait before a retry and the note about a failed
  page are left out.
- `HistoryIsTrue` has two exceptions. `torn` is a chat whose first page failed, or whose
  `OpenChat` was answered while the first page was still published. `NoStall` is a
  store no read of which stalls: in a sparse part of a store the windows double, each
  reads the rows again that the one before it saw, and they count towards the cap.
  Near the cap a batch asks only for what is left of it, so it is full with rows that
  were seen before, and the scan ends below the cap and not at the end of the store;
  its page is empty and says `more: false`.
  The core shows "Start of chat" although older rows are readable
  (`signal/live.rs` 3036, against the comment of `HISTORY_SCAN_CAP` at 117). By the
  constants of the code that takes about 182 to 208 unreadable rows in a row, in a chat
  with fewer than 52 messages a day. `StartIsStart` alone, with no `NoStall`, is what to
  check after a change there; it fails today.
- The lines may count a row twice: a first page that reached the end of the store is
  told and scanned again, and a reopened chat returns the cursor of its first answer.
  `LossIsTold` so says "at least". The comment at `state.rs` 155 says "The line is drawn
  once."
- A reconnect drops a queued page. When that page was the continuation of a capped
  scan, `history_asked` stays set, and each later scroll reads the same stretch again
  and adds its count to the line. It needs more unreadable rows than the cap.

### StoreContract and SessionCipher

`StoreContract` is what the protection of a store promises: a helper opens the content
that was last written, and the content goes only when the keychain lost the key and
the store is closed. `SessionCipher` is the start of a helper: `files` are the store,
the encrypted export and the plain original beside it, `keychain` the key that the OS
has, `start` the point at which the start is.

| Actions | Code |
|---|---|
| `PrepareStep` (`FindKey` ... `PutBack`) | `prepare`, `migrate`, `resume`, `finish`, `put_back`, each file operation a step |
| `FailStart`, `EndHelper` | an operation that returns its error; a crash between any two |
| `LoseKey`, `CreateStore`, `Write` | the keychain; the open session |

A file is its kind, its key and a number for its content, and the row check compares
contents. Its -wal, -shm and -journal go with it. Left out are `remove_device_store`
and what a power loss does to writes that were not synced. WhatsApp and Signal find
encrypted files in different ways (`owner`).

### WhatsAppLink

`adapter` is `WhatsAppAdapter`, `inbox` the messages to the owner task, `link` the owner
with its message and the point at which it waits, `stops` the stop tasks, `clients` the
bots that hold the device store, `session` what the adapter, the owner and the sends
share, `shown` the account row.

| Actions | Code |
|---|---|
| `OwnerStep` (`TakeBegin` ... `OwnerEnds`) | `LinkOwner` (`link.rs`) |
| `Acknowledge`, `BeginLink`, `RetryStoreKey`, `CancelLink`, `SendText`, `FinishSend`, `Shutdown`, `Drained`, `ShutdownTimesOut`, `ShutdownDone` | the adapter and its sends (`mod.rs`, `session.rs`) |
| `StopTaskEnds` | a client that stopped, in time or late |
| `ClientEvents`, `RevokeDevice`, `Connect` | callbacks of the bot of a generation, the phone |
| `Restart` | the process ends and starts again |

The owner takes one message at a time, but it waits inside one (for the stop of a
client, for a start), and everything else goes on meanwhile. The bot of a generation
holds the store until its stop ends; a stop that is late goes on in the background.
`word` is a ghost. QR codes, chats and the cache are left out.

### SignalLink

The owner task starts a worker thread for each attempt; before the next one it cancels
the generation and waits, three seconds and one more after an abort.

| Actions | Code |
|---|---|
| `TakeMail`, `JoinEnds`, `JoinGivesUp`, `JoinAborts` | the owner (`owner.rs`) |
| `WorkerStep` | the worker: link, load, receive, reconnect, wake (`live.rs`) |
| `AcceptNotice`, `BeginDevice`, `RetryDevice`, `CancelDevice`, `CloseDevice`, `TakeResumeMail` | the adapter (`mod.rs`) |

A check of the generation and the event after it are two steps of a worker: the owner
can cancel between them. Two assumptions: an aborted worker comes to its next await
within the second that the owner waits, and the hand-over of its abort handle (2 s,
`mod.rs` 596) succeeds or the start fails. `quiet` is a ghost.

### SignalRelink

`todo` is the list of calls that the worker still makes, the next one first: a call
that makes other calls puts them in its place. Every file operation is a step and the
helper may end before any of them; a failure that the code only logs is a step of its
own. `sessionFile`, `pendingFile`, `retained` and `mark` are the files; a chat is the
account and the link that received it. `published` (retained rows that were shown) and
`noteStayed` (the note of an earlier account could not be removed) are ghosts. Links
and failures share the bound `MaxLink`.

### DiscordSession

One record: `owner[k]` is session owner `k` with its queue and its tasks (HTTP calls
and timers that end with a message), beside the gate that the owners share (open, sends
in flight, attempt, epoch), the adapter (`doing`, `session`, `closing`) and the account
row.

| Actions | Code |
|---|---|
| `SessionStep(k)` | the owner task: list, history, send, 401, seal, shutdown (`session.rs`) |
| `ConnectBot`, `ConnectNothing`, `Disconnect`, `UnlinkIfIdle`, `LoadChats`, `OpenChat`, `Send`, `ShutdownAdapter`, `ClosingEnds` | the adapter (`mod.rs`) |

The runtime of the app has several threads (`app/mod.rs` 849), so a check of an owner
and the act after it (publish the channels, register a send) are two steps, and
`unlink_if_idle` is a step after the disconnect. A timer may end at any moment; only
`Closing` is assumed to wait long enough for its owner. Excepted, each named in the
module: a close that takes the handle of a retiring owner whose settle timer has just
ended, so that the owner ends before its limit beside a send of the session before
(`CloseLost`); an owner that was between its check and `Linked` (the ghost
`lateLinked`); and finding 5.

### InstanceLock

| Actions | Code |
|---|---|
| `Launches`, `Ask`, `AskEnds`, `TryLock`, `AwaitLock`, `GiveUp`, `TryAgain`, `HoldLock`, `OpenApp` | a launch (`startup.rs`, `instance.rs`, `show.rs`) |
| `ReadClosing`, `Reply`, `Signal` | the listener thread (`show.rs`) |
| `BeginFrame`, `MarkClosing`, `RaiseForShow` | a frame of the window (`app/mod.rs`) |
| `Ends`, `EndpointEnds` | the process ends; its lock goes before its endpoint |

The listener reads the flag, replies, and wakes the window in three steps; a frame is
the close request, the flag and the show. A deadline and the end of a process come at
any time, and each copy is launched once. The code names one gap itself: a show whose
reply left before the close is dropped (`app/mod.rs` 534), which `ShowIsOwed` excepts.
A copy may run without a listener (`show.rs` 401), and without the lock when the file
is of no use (`LockFails`).

## 3. Runs

Passing runs, with what they answer:

| Run | Instance | Properties | Question |
|---|---|---|---|
| sends | 2 process names, 2 failures; 2 sends, one over the line limit, or loads with a linked device | `OneProcess`, `NoSendIsLost`, `StoppedOnce`, `KeepsSendContract`; `SpinnerHasHelper`, `RestartingHasStart`, `LinkedRowHasHelper`, `CrashLoopBounded` | does every send get one answer, whatever the helpers do, does one process run at a time, and does the row tell the truth |
| pairing | WhatsApp, 1 pairing by QR or phone, 2 failures, 1 held command and room for a pairing after it and a cancel after that | `TypeOK`, `PairingHasGate`, `CancelWins`, `PhoneCrossesOnce`, `PairingKept` | does the gate come first, does a cancel win, is a phone pairing neither lost nor sent twice |
| progress | no commands, 2 failures, fairness | `CloseEnds`, `RestartingEnds` | do the waits end |
| login | 1 account, 2 workers, 2 ended logins | `TypeOK`, `OneClient`, `CleanStopHasNoClient`, `LinkedClientServes`, `CancelledLoginEnds` | logins, cancels, lost sessions and the close in every order |
| accounts | 2 accounts that start signed out, one removed and added again, 2 workers, 1 ended login | `NoOrphan`, `LinkedSessionKept` | does a login of one account log out the other, and can every client still be closed |
| sessions | the five parts of `MCSessions` (next table) | `SessionsTypeOK` and those of the next table | does a session of an adapter keep its store, its client and its row right |
| shell | the three parts of `MCShell` (next table) | `ShellTypeOK` and those of the next table | are no text, no launch and no message of the history lost |

What the parts of `sessions` and `shell` check:

| Part | Bounds | Property | What it says |
|---|---|---|---|
| `SessionCipher` | 2 contents, 2 keys; crashes and failures without a bound | `KeepsStoreContract` | the store that opens holds what was last written, until its key is lost |
| | | `StartEndsWell` | no plain copy is left beside a store in use (`NoPlainCopy`); a start fails for good only after a key was lost (`CrashIsResumed`) |
| `WhatsAppLink` | 3 commands and restarts, 3 messages to the owner | `OneClient` | two clients never hold one store, also when a stop is late |
| | | `DeviceStoreSafe` | the store goes only while no client holds it; a revoked one gets no client again |
| | | `ClientsEnd` | no client after `Stopped`, nothing of the account after it, no client once a cancel is over |
| `SignalRelink` | 2 numbers, 4 links and failures, 2 directories of a number, 1 logged failure | `NothingLost` | each chat stays in some file, a finished link stays until it is placed |
| | | `AccountsKeepTheirFiles` | chats of two numbers never meet, a slot is given once, a resume finds a finished link, a link through the pending file has its whole history |
| `SignalLink` | 4 commands of the user, 2 that wait | `KeysGoAfterTwoRefusals` | one refusal of the server never removes the keys of a linked device |
| | | `LinkedRowIsTrue` | after a cancel nothing changes the row, a code is of its own pairing, a row that says linked has a worker or says why not, a worker that receives has the session |
| `DiscordSession` | 4 commands, 1 of them a load | `DiscordIsTold` | each send has one answer, before the end of the account and before `Stopped`, which comes once; nothing unlinks a live session, and an account without one ends unlinked |
| `CoreSends` | 1 chat and one of another account, 2 texts, 2 sends or retries, Telegram or Discord | `TextKept` | a text leaves the compose field or a draft only with its own answer, or with a session that keeps no text |
| | | `SendsEndTrue` | a send ends by its own answer, its timeout, a late accept or the end of the session; a sent row does not fail |
| | | `RowsAreTrue` | a row that spins will be moved (`SpinnerEnds`), a message that is sent is not called unsent (`NoFalseTimeout`), a line has its own message (`LineIsOwn`) |
| `InstanceLock` | 3 copies, a lock file that may be of no use | `OneCopy` | the copy that runs holds the lock and the path leads to its listener |
| | | `ShowIsServed` | a launch that was told "shown" gets the window (`ShowIsOwed`), and a window that closes does not come back (`HiddenEnds`) |
| `SignalHistory` | 5 times with every store over them, page 1, cap 4, window 3, 1 opening or leaving of the chat, 1 reconnect | `HistoryIsTrue` | a spinner of the thread will end; at "Start of chat" every readable message is shown and every unreadable one between two shown ones is told |

Why the bounds are enough.

- Helpers. Two process names are the smallest instance in which an old and a new
  process overlap, which is what `launch` prevents; a third differs from the first only
  after its exit and output were handled, and then its name is free. Two failures let a
  helper fail, start again, and stop for good. One pairing can wait for Hello, be
  replayed, wake a helper and be cancelled; the second one, which the `phone_gate` run
  has, can only meet what the first one left. Two sends are one open and one rejected,
  in each order. One unread line lets an exit overtake a line; more lines are read in
  order before anything else.
- Telegram. Two workers of one account are the one that closes and the one that waits
  for it; the third is in the `readd` run and, for every number of workers, in the
  proofs. The accounts of the `accounts` run start without a saved session, since a
  resume beside removals is beyond what TLC finishes; saved sessions are in `login` and
  `shared_epoch`.
- `SessionCipher`: two keys are the lost one and its successor; two contents tell a
  stale copy from the last write. The proofs hold for every bound.
- `WhatsAppLink`: three commands are a begin, its cancel and the begin after it, each
  with a stop that may outlive the next. `SignalLink`: four orders, so that a close can
  follow a begin, a cancel and a begin.
- `SignalRelink`: four links are A, B, A again and one more, or three with a failure;
  two directories of a number give every suffix rule (`<aci>` and `<aci>-2`).
- `DiscordSession`: four commands are two sessions, a send of the first and an end, with
  the close on top.
- `CoreSends`: two requests are a send with its retry, or two sends of one text.
- `InstanceLock`: three copies are one that closes and two that want its place.
- `SignalHistory`: with page 1 a batch is 3 rows; cap 4 is the smallest with which a scan
  takes a second, smaller batch; 5 times give a stretch that is as long as the cap
  with a readable row beyond it, and window 3 widens once.

Symmetry over process, worker and text names is used only in runs without liveness.
Each run checks deadlock except those of `TelegramLogin`, where the app closes and the
bounds on logins and workers stop it, and those of `MCSessions` and `MCShell`, where
the bounds on commands do.

Fairness (`FairSpec`, run progress). Weak fairness of the armed timers, of the handling
of lines and exits, and of the death of a process that was killed: tokio polls a due
timer and a readable pipe, and the OS ends a killed process. The death of a process
that is still linked has no fairness, nor has anything that a helper or the user does:
`CloseEnds` holds with a helper that hangs for ever. The other modules state no
fairness. What must end there is stated as an invariant: whoever waits has something
on its way that ends the wait (`SpinnerEnds`, `LoadsAreServed`, `ShowIsOwed`,
`SendsAreAnswered`, `LinkedRowServed`), or, once everything is at rest, the end was
said (`StoppedComes`, `RowIsOfSession`, `CancelLeavesNoClient`).

Every property has a mutant (`PROJECT.json`): a change of one mapped operator, of the
kind a slip in that code would make, that violates it.

## 4. Findings

Each is a run whose only property TLC refutes; the property states the quoted comment.

1. `phone_gate`: "Use phone" after a QR pairing cancels the running pairing. The cancel
   clears the gate in the helper and in the replay, the shell keeps its own, and the
   pairing that follows is refused (`state.rs` 6887).
2. `shared_epoch`: the login epoch is one for all Telegram accounts. A cancel of one
   account leaves the client of a linked one with an old epoch: it emits nothing more and
   its row stays Linked (`host.rs` 296, `tdlib.rs` 263).
3. `readd`: an account is removed and added again while its client closes. The new
   adapter has empty `WorkerSlots`, so its worker waits for nobody and opens the database
   that the old client still holds (`core.rs` 491).
4. `return_history`: a Signal number whose chats are parked in `retained/` links into an
   empty session file. Its history is neither moved back nor merged, and it is hidden
   because the number is live (`signal/live.rs` 1640).
5. `busy_end`: a Discord account is disconnected with a send in flight, and disconnected
   or connected without a token once more before the answer. The adapter leaves the end
   to the owner and the owner to the newer attempt: nobody says Unlinked
   (`discord/mod.rs` 341, `discord/session.rs` 2207).

Smaller disagreements that the modules show and no run is about:

- the unreadable stretch that ends as "Start of chat", the line that counts a row twice,
  and the scroll that reads one stretch again (section 2, `SignalHistory`);
- the login step that starts after its own cancel (section 2, `TelegramLogin`);
- a Hello after Shutdown still writes the held commands, a pairing with its phone among
  them, and reports Restarting (`supervisor.rs` 888, 471; the comment at 381). `launch`
  looks at `stopping`, so no process follows;
- when the helpers of a linked account crash before Hello until the stop, its pairing is
  in `wake_link`, which the stop clears (`supervisor.rs` 1056, 1081): Restart does not
  link again.

## 5. Proofs

`HelperSystem_proofs` proves, for every set of processes, pairings and sends and every
limit, every safety property that is checked of it: `TypeOK`, `OneProcess`,
`NoSendIsLost`, `StoppedOnce`, `RestartingHasStart`, `LinkedRowHasHelper`,
`SpinnerHasHelper`, `CrashLoopBounded`, `PhoneCrossesOnce`, `CancelWins`, `PairingKept`,
`PairingHasGate`, and that it implements `SendContract`. The assumptions are those of the
CONSTANTS (`ASSUME` in `Supervisor` and `HelperSystem`), nothing else, with one exception:
`PairingHasGate` is refuted by "Use phone" (finding 1), and `PairingsHaveGate` proves it
of the behaviours without that step. For a messenger without it (Signal, `HasPairCode`
FALSE) a corollary has no hypothesis on the behaviour.

None of these invariants is inductive alone. That two processes never overlap, for
example, depends on `sup.alive` holding every process that runs, which depends on exits
being handled once, and `launch` only asks for a process when `alive` is empty. The
invariant `IInv` has two parts:

- of the supervisor alone (`Supervisor_proofs`): the link is in `alive`; held commands,
  the drain and the deadlines exist only with the states that set them; a send that is
  open has a link; a row that is not Unlinked has a link, a restart or a start that
  waits; `stops` is at most one and leaves no link; `failures` is at most the limit;
- of the composition: `up` is a subset of `sup.alive`, what was asked is open or
  answered, and `streak` is at most `failures` and its bound.

The proof follows the code. For each operator of `Supervisor` one lemma says what it
leaves alone (a frame: the fields in which its result differs) and one that it keeps
the invariant; the lemma of a handler cites those of the operators it calls. In the
second half `BecomesKeeps` lifts them to a step of the composition, and there
is one step per action.

The queues. A handler that gives up, cancels or greets filters its queues, and the
proofs need what a filter returns: no element but those of the set, all of them, in
their order, each as often as before. This is induction over the length of a queue. The
induction theorem of the library takes an operator and cannot be cited, but the least
element of a set of numbers can (`Filters_proofs`): a set of lengths that has 0, and
n + 1 with every n, has every length. So `Filters!Those` takes a set where `SelectSeq`
takes a test, and `ThoseFacts` is proved for every set and sequence.

Pairings. `PairingInv` follows a pairing from the shell to the helper. `QueueInv` (of the
supervisor): a pairing start waits in the held commands before Hello and in `wake_link`
while there is no link, never in both, and one with a phone is there once. A number that a helper may still be told of is
one that the shell gave out, and is not cancelled unless the supervisor stops. A phone
that crossed a pipe waits nowhere. The newest pairing start with a phone is the last word
about pairings in its queue, so that no cancel behind it takes it along. For each
operator one lemma says which pairing starts it moves on (`Moves`), one that it keeps the
newest (`Keeps`); `PairingStep` is what a step then does, `CancelWins` and `PairingKept`
follow. The proof found `PairingKept` too strong as it was first stated: a second pairing
may begin while the first still waits, and the helper then tells of the newer one only.

The gate. `GateInv` follows the acceptance in the same places. `Gated(queue, g)`: a helper
that holds the acceptance if g, and takes the commands of the queue in order, holds it at
every pairing start; `EndsGated`: it also holds it when the queue is empty. They are
lemmas about sequences: the head is taken, commands come behind, a filter lets the
acceptances and the cancels pass. The invariant says that every queue is gated for its
helper, that the queue of the linked helper also ends gated while the supervisor has the
acceptance, that a supervisor without it can tell no helper of a pairing (`Consented`),
and that the supervisor has it when the shell has it. The last part is the one that "Use
phone" breaks: its cancel takes the acceptance from the supervisor and the shell keeps it.
No other step does, and no restart, replay or overlong line parts a pairing from the
acceptance before it.

Sends. `ContractInv`: each open send is in one place of the helper of the link (its
stdin, the sends in work, its stdout) or among the held commands, and there once; a send
that is not open is in none of them, and none was answered twice. With it each operator is
a step of `SendContract` or a stutter: `Submit` asks, `LineStep` answers, and whatever
ends a helper ends all of its open sends with "unknown". The steps of a helper process
move a send from one place to the next and are stutters.

`TelegramLogin_proofs` proves, for every finite set of accounts and every set of workers,
`TypeOK`, and `OneClient` and `NoOrphan` under the assumption that no number of a removed
account is used again (`[][NoReuse]_vars`; finding 3 shows that `OneClient` needs it), and
`CleanStopHasNoClient` when no account is removed. `TypeOK` needs to know that the epochs
which the waiting commands of a pump will use up are within the bound (`ShellTypes`). Two clients of one database are
excluded over several steps of several workers, so `IInv` has a chain:

- `SlotInv`: a worker that did not let go of its database is in a slot of its adapter,
  or the adapter was dropped. A cancel moves it to `retiring`, it does not lose it.
- `WaitInv`: hence a new worker waits for every such worker, and of two of them one
  waits for the other. This stays true when a worker gives up, since it is then done.
- `OpenInv`: one that has a client has seen the end of all that it waits for.
- `ClientInv`: the lock is held only while the worker is open. The update "closed" is
  the last one, so the worker that reads it has released the lock.

`WorkerAdvances` says of each of the fourteen steps of a worker that it only moves that
worker on and leaves a good client (`Advances`), and `AdvancesKeeps` does the invariant
once for all; the steps of the adapters are done by `SameWorkKeeps` and `EnqueueKeeps`.
`CleanStops` adds `StopInv`: after its shutdown an adapter starts no worker, and it
awaits all of its slots.

`CancelledLogins` proves `CancelledLoginEnds`: a login that was cancelled leaves no
session and no marker behind, or its client is still there to log out. Its invariant
`SignInInv` relates four things that change in different steps: what TDLib reported, what
of it the worker read, the session in the database and the marker in the vault.
`Ordered`: the states of a client come in one order, only the code is asked for twice.
`SignIn`: a session exists only once the client is past its forms; a worker that read a
form is a new login, and one that is and read or will read "ready" wrote no marker before.
It speaks of the one open worker of an account, which is what `IInv` gives, and hence has
the same hypothesis.

`Sessions_proofs` proves of `SessionCipher`, for any number of crashes, failures, writes and
keys, `StartEndsWell` and `KeepsStoreContract`, that is the refinement of `StoreContract`:
every file operation of a start is a stutter of the content. The invariant `CInv` says
which copies there can be at all. `OneFileCopy`: the plain store has one name, before the
swap or after it, and an encrypted one beside it holds the same. `NewIsCopy`: an export
without its original is a checked copy. `OneKey`: while no key was lost, there is one
and every encrypted file has it. `AtStep`: what each step of a start knows of the files
it was given. A crash leaves the files as they are, so that `AtStep` only has to hold
where the next start goes on. `StepImplements` then maps each step.

Of `InstanceLock`, `Shell_proofs` proves `OneCopy` and `ShowIsServed` for any number of copies. To
them `IInv` adds `CopyShapes`: only a copy that runs may be without the lock, a listener
belongs to a copy that had the lock, and the gate of the close is shut before the
listener hears of it. The last one is why a promise to show a window cannot meet a
window that already closes.

Of `WhatsAppLink`, `Sessions_proofs` proves `OneClient` and `ClientsEnd` for any number of commands and
any length of the queue. The owner has a bot, a stop that it waits for and the number of
a stop that it stopped waiting for; the stop runs in a task of its own. `LInv` says how
they fit. `Held`: a client is the bot or belongs to the one stop that runs, and while
there is a bot none runs. `Known`: the owner waits for that stop or keeps its number in
`stopping`. `AtWait`: a client starts only when no stop runs. `EndsAreTrue`: a "stop
ended" in the queue is of a stop that did end, although the owner may have begun the next
one. For `ClientsEnd`, `ShutdownIsLast` (nothing but answers is behind the shutdown in the
queue), `EndIsEnd` and `CancelInv` (a cancel is on its way with no start behind it, or
there is no bot and no start).

`DeviceStoreSafe` needs a second invariant, `StoreInv`, over `LInv`. `Numbers`: no
message, client, send or session is of a link that comes later, so that a late "logged
out" cannot name the link that is starting. `RetryIsOld`: no retry is behind a message of
the client that runs; without it a "logged out" would be followed by a retry, which opens
the store and deletes nothing. `RevokedIsKnown`: while the owner or the mark on the disk
says revoked, no start is under way that is not allowed to delete first. `StopIsKnown`:
the owner deletes after the stop that runs, not after an older one.

`Signal_proofs` proves of `SignalLink` `LinkedRowIsTrue` and `KeysGoAfterTwoRefusals`, with the same
generality. `OneThread`: a thread that lives is the one that the owner started last, and
from the moment a command waits for it, its generation is over; the owner goes on without
it only when nothing but its blocking thread is left, which reads no session. This is
where the time limits of `cleanup` are safe. `ThreadOf`: such a thread knows what its
session says: the number of the pairing, the jobs while it is current and in the loop, two
refused opens before it takes the keys. `QuietInv`: after a cancel no thread is left that
could write the row. `ServedInv`: a row that says linked, over a store that is, has a
thread, or a command waits that will start one or end the link, or the line says why.

Of `SignalRelink` it proves `RelinkTypeOK` and `NothingLost` for any finite set of
accounts and any number of links, directories and failures. What a file may lack depends
on the calls that are still to come: while a retained store is being copied back, for
example, a chat may be in two files or in one of them, and which one may be removed is
known only from `todo`. So the invariant `RelinkInv` has two kinds of parts.

- `Plan`: the calls that are left come in one of the orders that the worker makes.
  `Leads` says which call may come right after which, `Third` what comes after both; each
  step puts calls in place of the first one that fit before the rest (`Joins`).
- What a call finds when it is reached is said from the moment on when only calls that do
  not matter to it are before it (`Near`). `StoreAway`: a new store is made, and a link
  placed, only where no session file is. `SlotsMade`: the directory of a call is there.
  `MergeReady`: the pending file is dropped after the session file has its chats and is
  registered for its account. `CopiesAhead`: when the directories of an account are
  cleared, each one is copied or its copy is still ahead. `HeadNeeds`, `NoAccountOpen`,
  `AccountReceives`, `FilesPlain` and `LinksCounted` say what the calls `absorb`,
  `receive` and `link` rely on.

`ChatsAre` then reduces `NothingLost` to the files that one step writes. That the
directories can be sorted at all (`OrderExists`), and that the calls made for them name
each one, is induction over a set of numbers, as in `Filters_proofs`.

`DiscordSession_proofs` proves `DiscordIsTold` and `DiscordTypeOK` for any number of
sessions, sends and commands (`MaxCall` and `MaxLoad` are any numbers; the commands are
counted so that they end). Owners of earlier sessions run on beside the newest one, with
the same gate, so the invariant `Inv` says what an owner may still do, and which of them
may touch the gate.

- `Places`: the adapter has a handle of the newest owner or of none, and the epoch of the
  gate is that of the newest owner, or one more after the close. `Stops`: the close is on
  its way to the newest owner or was answered by the adapter itself, never both, so that
  `Stopped` comes once.
- `Ordered`: nothing that needs an answer is behind the message that ends a session
  (`EndersLast`), because the adapter lets go of the handle when it posts that message.
  Hence an owner that ended has no send left, and one of the session has not ended.
- `Flights`: a send in flight has no answer yet and an owner that is not closed and will
  read its result. `Waiting`: a send in a queue is in no other queue, is there once, and is
  not in flight. `Answered`: a send has one answer, is in flight or waits. Together they
  are `SendsAreAnswered`: it needed no exception for `CloseLost`, as it was first stated
  with, since the owner of the earlier session still reads the result of its send.
- `RowIs`: the row says unlinked only with the gate shut, and a session that was not
  revoked has it open. `Leaving`: while there is no session and the row is not yet
  unlinked, the adapter is about to unlink it, or the newest owner was told to, with the
  attempt that is still the active one.

One lemma per helper says which fields it changes (`Only`, `SameAdapter`), and steps that
only let an owner go on are done once for all (`Grows`, `GrowsKeeps`).

`Shell_proofs` proves all that the run checks of the sends (`TextKept`,
`SendsEndTrue`, `RowsAreTrue` and the types, `SendsTypeOK`), for any number of chats, texts and sends and for both
protocols. Beside the names of things it assumes that there is a text at all and that
`NoRow` is no id of a row.

- `Shapes /\ Numbers` is inductive alone. `Numbers`: a request that is open, expired, in a
  call, at the server or in an answer was made, and no two open or expired entries have
  the same one. One lemma per helper of the shell says which fields it changes (`Frame`);
  a chat whose text is in none of them keeps it, and that is `TextKept` for all events but
  an accept, a reject and the end of a session, which have a case each.
- `SentStays`, the second half of `SendsEndTrue`, is about rows that the shell, the server
  and the events on their way name each in their own way, so it needs `Marks`. `Owned`:
  one function gives each request its chat, and everything that names a request is of
  that chat. `OneRow`: an id has one row. `Links`: a command, and on Discord a message in
  flight, is of the row that the retry in the tracker has. `Pairs`: beside the accept of
  a retry is the event that takes its row away, before it on Telegram, after it on
  Discord. `SentRows`: a row that a late accept marked as sent is the next that goes, and
  no open retry can fail it. `Brought`: what brings a "Sending..." row comes before what
  moves it on.
- `SpinnerEnds` is a part of `Marks` itself: that a "Sending..." row will still move is
  kept only while `Links`, `Pairs` and `Brought` order the events that move it.
- `NoFalseTimeout` needs `Timeouts` over these. `OneEach`, `OneStage`: a request is a
  command, then a message of the server, and only then refused or its row is sent.
  `AcceptFirst`: what brings the sent row of a send that still waits comes after its
  accept. `TimedOutKnown`: what is in the list of the timed-out sends was forgotten, or
  is still expected, and then its accept takes it from the list before the row says
  sent, or can no more be sent. `Apart`: nothing is both open and expired.
- `LineIsOwn` needs `Staged` and `OwnLines` over `Marks`. `Staged`: a message that failed
  is never pending again under the same id, since TDLib names it anew, so that a retry
  never rebinds a line. `OwnLines`, without a send that expired: a line has the pending
  message of its own request, and the server or an event behind it will end it
  (`LinesEnd`); an accept comes right behind the event that brings that message, so its
  row is noted with the one open send of its chat when the accept makes the line
  (`AcceptsFollow`). A send that expires ends that order, and with it the claim: `late`
  is the exception that the property makes.

Only model-checked:

- `CloseEnds`, `RestartingEnds`: liveness under fairness, out of the prover's reach.
- `LinkedClientServes` of `TelegramLogin`: with two accounts it does not hold (finding 2).
- `LinkedSessionKept` of `TelegramLogin`. A run checks it without the inbox (`Inbox` is
  FALSE) and with two workers. A proof needs `NoReuse`, since two clients share a
  database without it (finding 3), and an invariant that relates the answers of the user
  to the forms that the shell did not apply yet: a "disconnect" that waits for the end of
  a pump must not have a "ready" of its own client behind it.
- `AccountsKeepTheirFiles` of `SignalRelink`. Its part `SlotStaysGiven` is about few
  failures: a slot that cannot be written is only logged (`live.rs` 1247), and with
  several such failures in one run a number comes back.
- `HistoryIsTrue` of `SignalHistory` depends on what a recursive scan computes.

## 6. Not modelled

- The bytes: JSON, SQL, TDLib objects, images, audio; cryptography.
- The mapping of server data to events (Telegram inbox and media, WhatsApp inbox and
  cache, Signal receive of messages and groups, Discord and Slack rows): most lines of
  the adapters, with no state that two actors share.
- The vault: the phone of a pairing is carried from the shell on, while the supervisor
  reads it from the vault when it handles the command.
- The file search and the file descriptors of the launcher; the order of the last
  events of a helper in `serve.rs`.
- The recovery of a Telegram folder that does not open (move aside), and the throwaway
  folder of the process that a clean stop removes.
- The Slack session. It has the shape of the Discord one with an OAuth login before it.
- Notifications and mutes, settings, the frontend (it turns clicks into intents and
  draws views), media.
- Components marked `not_modelled` in `PROJECT.json`, each with its reason.

Known, and covered by no property:

- Telegram: a client whose login is cancelled between the epoch check and the start
  reopens the cancelled screen until the host takes the Disconnect (`LateStart`;
  `NoOrphan` says that it can still be closed).
- Telegram: TDLib refuses `logOut` for a client that already closes, and the cancelled
  login keeps its session on the disk (`tdlib.rs` 1230).
- Core: a late accept of an expired retry leaves its text in the compose field
  (`state.rs` 3903); a retry that is rejected while an older rejected text is stored
  loses its text when the session ends.
- Core loads: the key of `history_loading` has no topic; a marked chat that is left
  during a reconnect keeps its entry until it is opened again; a late last page after a
  conversation was removed and added again says "Start of chat"; when the continuation
  of a first page with no readable row is dropped or fails, the chat stays empty until
  the next link.
- WhatsApp: a Begin that was queued before its cancel says Linking after it
  (`link.rs` 455); the check of a resume eats the notice of a stop that ended
  (`link.rs` 417).
- WhatsApp and Signal: the key of a session is kept once per process
  (`OnceLock`, `cipher.rs` 41).
- Signal: a Retry that waits behind a Cancel (`owner.rs` 196); the blocking protection of
  the store beside that of the next Begin (`mod.rs` 611); a note of an earlier account
  that cannot be removed (`live.rs` 776; `noteStayed` excepts it); a store that cannot
  be cleared keeps old identity rows; a failed keychain read with a saved link says
  Linked without a registration; an `OpenChat` is answered Ready with no worker.
- Signal history: an unreadable stretch just short of the cap of a scan is taken for the
  start of the chat (`NoStall`).
- Discord: the result of a send whose owner is gone may come after Stopped (`CloseLost`;
  `SendsAreAnswered` says that it comes once).
- Discord: delete, reaction and voice tasks may emit after Unlinked or Stopped; a
  connect that fails on a missing token does not keep a busy owner for the shutdown,
  which then rejects its sends at once.

## 7. Plan

Done: the helpers and their supervisor, Telegram logins, sends of the core, session
stores, the WhatsApp and Signal owners, the Signal files and history, the Discord
session, copies of the app; proofs of the supervisor and its pairings and sends, the
logins, the stores, the copies, the WhatsApp and Signal links, the Signal files, the
Discord session, and the sends of the core.

Next, in this order:

1. A proof of `LinkedSessionKept` of `TelegramLogin`, over `SignInInv` and the invariant
   that section 5 names.
2. `HelperServe`: the final events of a helper; it implements what `HelperSystem`
   assumes of one.
3. `AdapterHost`: exit after every Stopped, and the throwaway folder.
4. `Slack` after `DiscordSession`; topics, edits and read cursors of the core.
5. `FrameReader`, a pure function against a reference.
