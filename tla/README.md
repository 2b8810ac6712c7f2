# termua: a verification project

termua is a desktop terminal written in Rust on GPUI: local, serial and SSH sessions in docked tabs,
an SFTP panel with uploads and downloads, files dropped on a terminal, terminals shared with web
browsers, a lock screen, and an assistant. Most of it is drawing. The modules here cover the part
where correctness depends on an order of events: tasks detached on executors, channels with a
bounded capacity, timers, sockets that fail, and one UI thread that all of them come back to. Paths
below are relative to `src/`.

## 1. Inventory

### Modelled

| Component | Code | State it keeps | Operations |
|---|---|---|---|
| Permit pool | `crates/gpui_common/src/limiter.rs` | maximum, permits in flight, queue of parked acquirers, under one mutex | `acquire`, `drop(Permit)`, `set_max`, dropping the `acquire` future |
| Transfer list | `crates/gpui_transfer/src/lib.rs` | rows, their order, totals per batch, an index from batch to rows | `upsert`, `remove`, `remove_group` |
| Panel uploads | `crates/gpui_sftp/src/view/table/actions.rs` | a worker per file, a channel and a result per batch, cancel flags, dismiss timers | list, acquire, open, read, write, flush, report; collect; toast; dismiss |
| Panel downloads | same | one task per file with a cancel flag, its row, a dismiss timer | size, open, create, read, write, pause, end; cancel; dismiss |
| Dropped files | `crates/gpui_term/src/terminal.rs` (module `sftp_upload`), `termua/src/window/main_window/actions/sftp.rs` | a plan of remote names, a queue of workers and a message loop per drop; the terminal's events; rows and timers | confirm, resolve, plan, receive; open, read, write, remove; cancel; close the terminal |
| SFTP browser | `crates/gpui_sftp/src/state.rs`, `view/table/{navigation,actions}.rs`, the request loop of `crates/wezterm-ssh` | the tree (nodes, children, expanded), rows, selection, spinners, the session | expand, refresh, change of directory, rename, new folder, move, delete, disconnect; a listing answers |
| Share server | `termua/src/web/mod.rs` | `ShareAccess` (clients, controller, open request), `ServerState` (message queues, sockets), control and input channels | connect, authenticate, ask for, grant, deny, release and revoke control, input, broadcast, disconnect, shutdown |
| Share screens | same, and `crates/gpui_term/src/cast.rs` | the snapshot, the last broadcast, a wake-up token, what each browser shows | update, token, drain, broadcast, first screen |
| Opening SSH sessions | `termua/src/panel/sessions_sidebar/actions.rs`, `termua/src/window/main_window/actions/ssh.rs`, `crates/gpui_term/src/backends/ssh.rs`, ssh2 login in `crates/wezterm-ssh` | connecting marks, restored tabs, stacked dialogs, attempts; a login and a session thread per attempt; `known_hosts` | click, delete, restore, close; dial, verify, authenticate; ask, answer, time out, finish, retry |
| Saved sessions | `termua/src/session/store.rs`, `keychain.rs`, `window/new_session/actions.rs`, `panel/sessions_sidebar/actions.rs`, `app_state.rs`, `window/main_window/actions.rs` | a table of sessions, a password per session in the credential manager, operations under way, edit windows, queued commands, the sidebar's list and the listing under way | save, edit, delete, each in two steps; report; process commands; list again; restart |
| Shares of the window | `termua/src/window/main_window/{actions,state}.rs`, hub in `web/mod.rs` | share per terminal, starts under way, indicator and client count, expiry loops; sessions of the port's listener | toggle, start completes, tick, tab closed, lock, unlock, bind |

How they interact:

* Upload workers hold a permit of the pool while they copy; resizing the pool in the settings acts
  on workers already parked. Each worker sends `Progress` and one verdict on its batch's channel;
  the batch's collector (UI thread) turns them into rows of the transfer list. The footbar reads
  that list and raises a row's cancel flag; a timer takes ended rows away.
* Dropped files share the pool and the list with the panel. The workers of a drop send to the drop's
  loop, which starts the next ones, counts ends and emits events on the terminal; the window turns
  these into rows. A terminal that is closed takes the events with it, not the workers.
* An attempt to open an SSH session is three actors. The session thread (one blocking thread) sends
  events and waits for the answer to each question. The login reads the events on a background
  executor, with a timer for inactivity and one for questions to the user. The window shows a
  question in a dialog, stacked on those of other attempts, and shows how the attempt ended: a
  terminal, a message in the tab, or a dialog about a changed key whose retry is a new attempt. All
  of them read and rewrite one `known_hosts`.
* Sessions are saved from the form that also opens them, edited in windows of their own and deleted
  in the sidebar. Each operation runs on the background executor, beside others; its result returns
  to the UI thread, which asks the sidebar to read the table again, by a command the main window
  takes from a queue or directly.
* The browser sends every request to the thread of the SSH session, which serves them in turn, and
  goes on when the answer comes to the UI thread; by then the tree may be another one. A batch of
  uploads that ends, a rename, a move and a delete all list directories again.
* A browser's WebSocket handler takes the share's state lock for every access decision, and talks to
  the desktop through two bounded channels: requests for control (capacity 16) and terminal input
  (256). The desktop answers by calling the server back (`approve_control`, `deny_control`,
  `revoke_control`). A broadcaster task sends screens to bounded per-client queues (64); a client
  whose queue is full has its socket shut down.
* The window starts a share asynchronously (binding a port may block) and must reconcile the result
  with what happened meanwhile: a closed tab, a lock, a second press of the toggle. A loop per share
  polls it once a second for its client count and for expiry. Shares of one port have one listener,
  the hub, which closes with its last session.

What is hard, and what makes each component correct:

* *Permit pool*: a permit is on its way between the grant and the moment the task is polled, and the
  future may be dropped just then. No permit is invented, no wake-up is lost, arrivals are served in
  order.
* *Transfer list*: the same row is reported many times, may change group and may come from several
  sources. The four structures agree; the footer's totals neither jump nor keep what belongs to
  nobody.
* *Panel uploads*: cancellation races with completion, verdicts race with late progress, timers with
  running rows. Every batch ends; what is shown is what happened.
* *Panel downloads*: three cancel checks, of which only one looks at how much came. The row's last
  status is true and final.
* *Dropped files*: names are looked up long before they are used, and a cancelled file is removed by
  name. What is shown as uploaded is on the server, whole; the loop's count of active workers, the
  rows and the terminal's count of drops stay in step; every drop ends.
* *Opening SSH sessions*: each actor can give up before the others notice. A late or lost answer is
  never taken for trust where there is a `known_hosts` file, no question hangs without a dialog, and
  what the window shows as being opened is being opened.
* *Saved sessions*: row and password are in two stores without a transaction, and a failing
  credential manager is only logged. A session ends up with its own password or none, and the
  sidebar with what the table says.
* *SFTP browser*: answers carry nothing that says which tree they were asked for or which listing is
  the newer one. What is drawn and selected is the tree's, a listing is never replaced by an older
  one, and what the panel changed is listed again, unless a typed name led out of the dialog's
  directory.
* *Share server*: clients come and go while requests, approvals, revocations and inputs are in
  channels. Only an approved, present client controls the terminal, and each side of the protocol
  learns what it needs to.
* *Screens*: every message is a difference, so one lost or misapplied is visible for good.
* *Window*: every share can still be stopped by whoever is responsible for it, and nothing is shared
  behind a lock.

### Not modelled yet, or not to be modelled

* *SFTP previews* (`gpui_sftp/src/view/preview.rs`): one at a time, with an epoch that tells a late
  answer from the current one. Of the browser itself, sorting and the filter of hidden names are
  left out: they decide where and whether a row of the tree is drawn.
* *SSH*: the backend libssh (the modelled one, ssh2, is the default), what happens to a session once
  its terminal is open, editing a session while it is being opened, the test connection of the
  new-session form, and more than one `known_hosts` file. (A machine without one is modelled: the
  code then asks nobody, and `TrustIsAsked` claims nothing.) Of a drop, what is no file is left out
  before anything is planned; the model starts with the files.
* *Screen lock* (`lock_screen/`): its effect on shares is in `WebShareDesktop`; the idle timer and
  the check of the password, each one step of the UI thread, are not modelled. *Debounced workspace
  save* (`main_window/state.rs`): candidate for the next module.
* *Saved sessions*: what a row says, its conversion to and from SQL, the tree of groups drawn from
  the rows. `update_serial_session_port` has no caller.
* *Snippets, suggestions* (pure text), *settings* (one atomic file replacement), *assistant*
  (requests to an external agent): candidates, in this order.
* *Terminal views, docking, menus, rendering, themes, forms, update check, packaging*: user
  interface on one thread, where what matters is how it looks; left out. *alacritty_terminal,
  wezterm-ssh*: forks of third-party libraries; only the session thread's request queue and its
  login are modelled. These forks, the renderers and the forms make up most of the repository's
  lines.

`PROJECT.json` lists each of these with its files, and the hazards of the code at their lines.

## 2. Modules

| Module | Role |
|---|---|
| `PermitPool` | `limiter.rs`, one action for every hold of the mutex |
| `Semaphore` | what the pool promises: a first-come-first-served counting semaphore with a variable limit |
| `PermitPoolContract` | the refinement mapping from the pool to the semaphore |
| `TransferCenter` | `gpui_transfer` with its helper functions as operators |
| `SftpDownload` | a download's task, its row and its timer; extends `TransferCenter`, whose other callers it lets do anything |
| `SftpUpload` | workers, collectors, timers and the cancel button; uses `PermitPool` and `TransferCenter` through `INSTANCE`, so every step of theirs is the one of the component's own module |
| `DropUpload` | planning, workers and loop of a drop, the remote directory, the window's side; composed with the same two modules, beside a worker of the panel that competes for permits |
| `SftpBrowser` | the directory tree, the panel's operations on it, the session's queue of requests, the server's files |
| `SshOpen` | sidebar, restored tabs, window, login and session thread of every attempt, `known_hosts` |
| `SessionStore` | table and credential manager, the operations on them, edit windows, command queue, the sidebar's list |
| `WebShare` | access rules, handlers, queues, the desktop's two loops, shutdown |
| `WebScreens` | snapshot, token, broadcaster, browsers' rows |
| `WebShareDesktop` | the window's share table, starts, expiry, lock, tabs, and the hub |
| `MC*` | values for TLC (`MCPermitPool.cfg` needs no module of its own and is run on the contract) |
| `*Proofs` | theorems with their inductive invariants, one module for a component; `WebShareProofs` is about the three modules of the web share |

### Correspondence with the code

**PermitPool.** `max`, `inflight`, `waiters` are `PermitPoolState`'s fields; a waiter is the task
behind the queued sender, `Dead` a sender whose receiver was dropped. `st` is where a task is in
`acquire`: `granted` is the window between `grant_waiters` sending `()` and the task being polled.
`GrantWaiters` is the `while` loop, with dead senders skipped because `send` fails. `lost` counts
permits sent to a future that was dropped before it was polled: they are counted in flight and
nobody returns them. No caller in the code drops that future today (workers are detached), but the
function is public and nothing prevents it; `Cancellable` says for which tasks the run lets it
happen. In `SftpUpload` it is empty. `PermitPoolContract` maps the pool to the semaphore: a client
owns its permit from the moment it is sent, and the semaphore's queue is `Line`, the tasks behind
the live senders, each at the place that counts the tasks whose senders are not after its own.

**TransferCenter.** `Upsert` follows `upsert` branch by branch: the row's old group (with
`withdraw`, `removeCompletion` and the bytes of a row that ran), the fallback to the row's earlier
byte counts, the group's totals, the reverse index. Optional numbers are sets of at most one
element. Titles, icons and tokens are left out. Callers draw ids from a counter, so an id taken off
the list is not reported again; `SftpUpload` checks (`VerdictsFinal`) and `DropUpload`
(`RowsMatchWorkers`) that their callers keep to that.

**SftpDownload.** `stage` is the await `download_to_path` stands at. Each request may fail, and the
size that metadata announced may be another than the file's length or be missing. The flag is read
at the top of the loop (`LoopTop`, where a complete file still succeeds), after a read and after a
write. `Others` are the reports and removals of other transfers.

**SftpUpload.** `phase` is the await a worker stands at: `listed` (row inserted, worker spawned),
`acquiring`, `opening`, `reading`, `writing`, `flushing`, `returning` (the verdict is queued, the
permit not yet dropped), `gone`. `BeginTransfer` runs for all files of all batches before anything
else since batches are listed in one UI step each; after that everything interleaves. Contents are
chunks by number; a file whose metadata could not be read (`Unsized`) has total 0, which disables
the "already complete" test of the cancel check exactly as in the code. Each request may fail.

**DropUpload.** All files of the model have one base name; a remote name is its suffix (0 for none).
`Confirm` is `start_sftp_upload`, `MetadataReturns` one answer of the server in `plan_files`,
`Receive` one turn of `run_upload_loop`, whose `try_spawn_workers` is `SpawnWorkers`. The server's
directory is `entry` (which file a name stands for) and `data` (whose chunks it holds), so that
opening cuts a file to nothing, writing goes through the handle opened before, and removing is by
name. An update of the terminal emits events that the window handles before the UI thread does
anything else; `Quiet` is the guard that says so. After `CloseTerminal` the tasks go on and emit
nothing. `rival` is a worker of the panel as far as the pool can see it.

**SftpBrowser.** A path is a sequence of names, and its last name says whether it is a directory.
`tree` is `TreeState`: `kids` are the children of every node, `loaded` its `loaded_children`.
`requests` and `answers` are the two directions of the session's thread: `dispatch_pending_requests`
serves the oldest request, and the UI's callbacks run in the order of the answers. `RefreshDirs` is
the part of `refresh_dir` before its await, `Listed` the part after it. The delete task is one
request at a time (`deletion`). The dialogs are not in the state: what they were opened on may be
gone at their confirmation, so `ConfirmRename` takes any path. The name typed is only trimmed and
put behind the dialog's directory; with a slash or `..` in it the result (`to`) may lie anywhere,
while `confirm` lists the dialog's directory (`DialogDir`). The server grants or refuses each
request, and a refusal changes nothing. Two history variables: `fresh`, the directories unchanged
since they were last listed, and `owed`, those the server changed for the panel and owes it a
listing of (`Owes`: both ends of a move, where something was deleted, and the dialog's directory if
a typed name changed that). The model starts when `bootstrap_root` knows the login directory.

**SshOpen.** An attempt is one call of `add_ssh_terminal_with_params_at`. `phase` is where its login
stands (`login`: waiting for the next event; `asking`: for the user; `pty`: for the terminal), then
the result the window has not shown yet, then how it was shown to end. `thread` is where the session
thread stands on host number `hop` of the route; `events` the channel between them; `question` and
`reply` the prompt on its way to the dialog and what its reply channel holds. `known_hosts` is one
entry per host (`file`), if it `exists`; `host_verification` skips a file that does not and lets any
server in unasked. A thread reads the file into `snapshot` for as long as it waits for an answer,
adds the trusted key, and writes all of that back; reading, checking, adding and writing may fail,
and a failed write may leave a part of the entries (`PartOf`). `linked` says whether the attempt
knows its session's id (a retry after a changed key does not), `into` which restored tab it
replaces. `complete` are the sessions saved with a host and, if they log in with a password, with
that. `Drain` is the loop that answers, always with no, what a thread asks after its login gave up.
History: `trusted`, the hosts the user vouched for while a login waited for it.

**SessionStore.** `rows` is the table and `secret` the credential manager. What they hold is who
wrote it: an operation, numbered as it begins (`kind`, `auth`, `target` are what it is to do). `at`
is its next step: `row` and `secret` are the two stores, in the order the code takes them, `report`
and `failed` a result on its way to the UI thread. `nextId` is SQLite's `AUTOINCREMENT`, which never
gives a deleted session's key to a new one. A session may have several edit windows, each with its
own `submit_in_flight`; closing one while it saves is `EditOrphaned`, since nothing then happens
when the result arrives. `reload` is `reload_in_flight` and where its task stands; `error` is that
of an operation or of the listing. `Quit` ends the program between any two steps and starts it
again. Two history variables: `clean`, the sessions on which the last edit or deletion began with no
other at work, of a row that existed, and was not disturbed by another, a failure or the end of the
program; and `missed`, why nobody told the sidebar of a change.

**WebShare.** `phase` is the await of a client's `serve_websocket`: `new`, `open` (not
authenticated), `auth` (its receive loop), `asking` (blocked on the control channel), `typing`
(blocked on the input channel), `ended` (left through the end of the loop, which disconnects) and
`failed` (left through `?`, which skips it). A step is one hold of the state lock. Two history
variables: `missed`, the clients whose last access message found their queue full, and `late`, how
many inputs of a client were written to the terminal since it lost control.

**WebScreens.** A screen is a function from rows to texts. `updating` is `update_snapshot` between
giving up the lock and `try_send`; `sender` is the broadcaster between receiving a token, the 16 ms
sleep, draining and taking the lock. Cursor, selection and size are sent whole each time.

**WebShareDesktop.** An attempt `a` is one call of `start_web_share`; `server[a]` goes from
`binding` through `bound` or `refused` to `open`, `shut` or `failed`. `Complete` is the code after
the await: it uses the terminal's slot in `web_shares_starting` and stops a server nobody wants any
more. `Tick` is one turn of the expiry loop.

## 3. Runs

| Run | Instance | Shows |
|---|---|---|
| `MCPermitPool.cfg` | 5 tasks, 2 cancellable, maximum 3, resize to 0, 2, 5, with fairness | nobody parked beside a free permit (`NoLostWakeup`), the pool is a `Semaphore`, kept waiters are served unless `max` permits were lost |
| `MCSftpDownload.cfg` | a download of 2 chunks announced as none, 0, 1, 2 or 3; two other rows, 2 groups or none | the list's index and totals are exact (`IndexExact`, `TotalsTrue`), dismissal keeps totals, a download's row says what became of the file (`RowTellsTruth`) |
| `MCSftpUpload.cfg` | one batch of 2 files, one of 2 chunks and one of unknown size, 1 or 2 permits, with fairness | running rows stay listed, what the toast and the rows say is true, verdicts are final, a raised flag stops writes, every batch ends with its toast, an empty list and all permits back |
| `MCDropUpload.cfg` | one drop of 2 files of one name beside a remote file of that name, 1 or 2 permits and a rival, with fairness | what is shown as uploaded is there and whole (`UploadsKept`), rows in progress are the files under way (`RowsMatchWorkers`), the last word of a drop is last and true, every drop ends |
| `MCSftpBrowser.cfg` | a directory and a file in it or beside it; the user acts while at most one request is under way | rows and selection are the tree's (`RowsInStep`), a directory that did not change since its last listing is shown as it is (`ListingsCurrent`), what a move, a deletion or a dialog changed in its directory is listed again, and spinners are of listings under way (`ChangesFollowedUp`) |
| `MCSshOpen.cfg` | a session behind an unknown jump server, its own key changed, in a restored tab; 2 attempts, with a `known_hosts` file and without, with fairness | marks and restoring tabs have an attempt under way (`ShownIsUnderWay`), a login that asks has its dialog (`AskedIsShown`), only trust given in time counts where there is a file (`TrustIsAsked`), every attempt is shown to end |
| `MCSessionStore.cfg` | 3 operations, of which 2 save a session, one failure or restart, with fairness | row and password agree after an operation that ran alone, and no session inherits a password (`SecretsFollowRows`); a stale sidebar is owed a listing (`SidebarOwed`) and gets it (`SidebarSettles`) |
| `MCWebShare.cfg` | 2 clients, queues of 2, channels of 1, 1 request, with fairness | list and access rules agree (`AccessConsistent`), an open request is on its way to an answer, what clients believe is true unless their queue had no room for the news, no more late inputs than the channel holds and one (`LateInputBounded`), only live and current approvals count, clients the server cut off go away |
| `MCWebShareGhost.cfg` | same | a disagreement of section 6 |
| `MCWebScreens.cfg` | 2 rows, 2 texts, 2 browsers, with fairness | no snapshot is forgotten, differences add up, the last broadcast is the final screen |
| `MCWebScreensLate.cfg` | same | the other disagreement |
| `MCWebShareDesktop.cfg` | 2 terminals, 3 starts | share table, servers, indicator, starts, counts and hub agree; nothing shared behind a lock |

**Bounds.** Five tasks exceed the largest maximum by two, so the queue holds more than one waiter at
every size, and two lost permits of three leave the pool at its last. Three rows are one that moves,
one that stays in the old group and one in the new. Uploads need two workers of one batch, for the
interleaving of their messages; two chunks give a check before, between and after a write, and a
file of unknown size the special case of the length test. For the dropped files, one taken name and
one suffix left make the first file avoid a name of the server's and the second one of the drop's
own, past the last suffix; the rival makes the drop wait for its only permit; what several drops do
to each other beyond the pool is left to the exception in `UploadsKept`. The sizes a download may be
announced with are none, less than, equal to and more than its length. One session makes its
attempts meet in the same mark and the same tab, and two attempts are a restored tab and a click, or
a changed key and its retry; a jump server that is unknown and a host whose key changed put a
question before a mismatch on one route. In the browser a directory and one file make every
operation possible: the file moves in and out, the directory is renamed to itself, deleted, made
again and entered, and a typed name puts a file into the directory below the dialog's. A second
request may join one under way (`MaxUnderWay` = 2; it bounds all the user does, a disconnect too),
and a refresh or a move adds one more, so listings of one directory overlap with each other and with
changes; `Others` are the entries that come and go without the panel. Three operations are a session
saved and then edited and deleted at once, edited twice at once, or deleted while another is saved;
each may be the one that fails, and what a failure or a restart left behind is met by the next one.
Two clients are a controller and a rival; queues of two and channels of one reach "full" at once;
one request is enough for a dialog that outlives its client and an approval that comes late, and the
five safety properties of the share are theorems for any number (section 4). Three starts on two
terminals are a restart of the same terminal beside another. `MaxRequests`, `MaxAttempts`,
`MaxPasswordPrompts` (a constant of the code, 3 there), `MaxSuffix` (999 there), `MaxAbandoned`,
`MaxUnderWay`, `Others`, `Starts`, `MaxOps`, `MaxSaves`, `MaxFaults` and the sets of ids are the
only bounds on counters.

Deadlock is checked for the pool and the screens. It is off for the rest, which may come to a stop:
all transfers over, the panel disconnected, all clients gone, all attempts used.

**Fairness.**

* Pool: a woken task is polled, a holder finishes. Nobody has to acquire or resize.
* Uploads: executors run what is ready, timers fire, and every request is answered with data or an
  error: this one is an assumption on the server and the disk, without which a worker may hang for
  good. Nobody cancels or resizes.
* Dropped files: the same for a drop's tasks, its workers and its timers; the window handles the
  events, and the rival finishes with a permit it holds. Nobody has to confirm, cancel or close.
* SSH: the login's task with its timers, the window's task that shows the result, and the restoring
  of tabs at start-up. Nothing is assumed of session threads, servers, the user, or the request for
  a terminal, so `AttemptsEnd` rests on the timers alone; that request has none, which is why its
  exception names `pty`.
* Saved sessions: the background executor goes on with some operation or listing, and the UI thread
  with some result or queued command, as long as there is one. Nobody has to save, edit or delete.
* Shares: the broadcaster, the prompt and the desktop's input loop go on (weak). A handler blocked
  on the full input channel is woken strongly fairly: `async-channel` wakes waiting senders in turn,
  so others cannot take every free place for ever; with weak fairness alone `CutClientsLeave` fails
  for this reason. A socket that was shut down holds finitely many messages, so its handler takes
  the end of the stream eventually (strong, on `c \in cut`). Nothing is assumed of users.
* Screens: UI thread and broadcaster go on; the terminal may or may not fall silent, and
  `BroadcastCatchesUp` is about the case in which it does.

## 4. Proofs

All theorems are of the form `Spec => []P` or `Spec => [][A]_vars` for every value of the constants
that meets the named assumptions. Each proof module has one invariant (`SshOpenProofs` a few, one on
the other), proved inductive once, and its theorems are corollaries.

* `PermitPoolProofs` (assumes finitely many tasks, `Dead` not among them, a positive maximum).
  `NoLostWakeup` alone is not inductive: a step that frees a permit needs to know that the counter
  is what the tasks hold, and a step that grants needs each waiting task to be queued exactly once,
  otherwise one send would move two tasks or none. So the invariant is type correctness,
  `Accounting` (no permit is invented or forgotten), `NoLostWakeup` and `QueuedOnce`. The main lemma
  is about `GrantWaiters`, which all three critical sections end in; the counter's equation rests on
  facts about cardinalities of disjoint sets. `NoOvergrant` (no grant above the maximum) and
  `ArrivalsQueue` (a newcomer does not overtake) are action properties from the same invariant.
  `PoolIsSemaphore` is the refinement of `Semaphore`, step by step: parking enters it, a permit
  dropped leaves it, a resize resizes it, a future dropped withdraws or vanishes with its permit, and
  a poll is a stutter. What a queue operation does to `Line` is said by three lemmas, for a sender
  queued (`LineAppend`), dead (`LineLess`) or popped (`LineRest`), which rest on one: places number
  the tasks in line without gaps (`Places`). Counting tasks and not senders needs `QueuedOnce`, so
  the refinement uses the invariant.
* `SshOpenProofs` (assumes `SshAssumption`: every session has a route, numbers are finite, `None` is
  no session and no tab). The argument has three layers, each an invariant given the one before.
  `Base`: types, and attempts numbered in the order they were made, so that an unused number has an
  idle login, no thread and no dialog, and a new attempt cannot inherit anything. `Shown`: the two
  halves of `ShownIsUnderWay`, which are inductive because a mark is set only together with an
  attempt, and an attempt leaves `Live` only in `Finish`, which clears its mark and settles its tab.
  `AskedIsShown`: a login asks by queueing its question, and every dialog closed by an answer is the
  top one and its own. `Trust`: `TrustIsAsked` alone is not inductive, since a thread writes back a
  file it read before and a login believes an event that was sent earlier. The strengthening follows
  one attempt: a thread that asked is blocked on its question, which is the last event of its
  channel; a login that asks the user has emptied the channel, so a trusting answer is about the
  host the thread is at; the hosts a thread has passed are `Cleared`: vouched for, or all of them
  where there is no file; the keys it read are vouched for; and `Authenticated` stands behind the
  whole route.
* `SessionStoreProofs` (assumes that the bounds are numbers). `Base`: types, operations numbered in
  the order they began (`Numbered`), each with a session once it has its row (`Aimed`), and keys not
  handed out yet that are nowhere (`Fresh`). `SecretsFollowRows` has two parts, and neither is
  inductive. For the agreement of row and password, `Tidy` says of a `clean` session that at most
  one operation is at work on it and that it is as this operation's next step expects: a password is
  gone before a row without one is written, and a row is there before its password is. For passwords
  that are not inherited, `Owned` adds that a save which has yet to store its password inserted the
  row it is for, which rests on `Fresh`. `SidebarOwed` becomes inductive (`Owed`) for the list as it
  will be when the listing under way ends, with the fact that a listing which has read the table has
  no failure of an earlier one to excuse it.
* `WebShareProofs` is about three modules, whose definitions it keeps apart by name (`Screen...` and
  `Window...` are those of `WebScreens` and `WebShareDesktop`). For the server (assumes `NoClient`
  is neither a client nor a request, queues have room for two messages): `AccessConsistent` (the
  conjunction of `SameClients` and `ControlIsKnown`), `PendingReachesDesktop`, `ViewTrue`,
  `LateInputBounded`, `StaleApprovalsIgnored`. The invariant adds `Newcomers` (a client that has not
  authenticated is in no list and has an empty queue, which is why it has room for its first two
  messages) and `InputsCounted`: for a client without control, the inputs written late, those of it
  in the channel and the one its handler is sending are together at most the channel's capacity and
  one. Nothing joins them until it has control again, and then the count begins anew.
  For the screens: `UpdateNotLost` and `UpdatesAddUp`. The second holds by the first browser
  screen being the broadcast, and each update covering exactly the rows that differ.
  For the window (assumes `None` is no terminal and no attempt): `NoOrphans`,
  `NothingUnderLock`, `SlotIsOpen`, `CountSoonRight`, `HubServesRunning`. The invariant adds
  `OwnTerminal` (a share is kept under the terminal it was started for and its loop runs),
  `StartsHaveTabs`, and `OnceOpen` (loops and counts are of servers that were open once). `Books`
  collects what `StopShares` keeps, shared by the toggle, the closed tab and the lock.
* `SftpDownloadProofs` (assumes finitely many ids, byte counts that are numbers, and that the others
  report on other ids than the download's) is about the list first, then about a download in it.
  `ListInvariant` holds of `TransferCenter` alone, for any ids, groups, byte counts and callers.
  `TotalsTrue` needs `IndexExact`, both say what holds after a whole operation, and the helpers
  rewrite the index and the totals for one row at a time, first out of the group it was in. The
  invariant therefore speaks of the two maps through `Fits`: the maps describe a given set of rows,
  and what they count beyond those belongs to ids that once had one. `LeaveFits` and `EnterFits` say
  that `remove_task_from_group_state` and `apply_task_to_group_state` each keep `Fits`, and every
  operation is a sequence of the two. That the order keeps each id once when some are taken out is
  `UnlistedProps`; the place of an id in what remains is its rank among those kept, a bijection by
  the pigeonhole principle. `DownloadInvariant` adds the stages of the task: no write is due past
  the file's length, a task that pauses before its end has the whole file or, cancelled, as much as
  was announced, and its row is in no group, so that no removal of a group takes it; with others
  acting on other ids, that is why `RowTellsTruth` survives them.
* `SftpUploadProofs` (assumes `UploadAssumption`: finitely many files, each in the plan of some
  batch, sizes that are numbers, and what the pool assumes). A worker and its row agree only through
  the batch's channel, so none of the four properties is inductive. The invariant `UInv` is built on
  `Heard`: the worker is over and nothing of its file is left in the channel. `Channels` says what
  may be in it: nothing of a worker that has not opened its file, progress only of one that copies,
  and of one that is over its one verdict as the last word, and "Finished" only of a file that is
  complete. `RowsMatch` ties rows and timers to that: in progress and without a timer until heard,
  then with the verdict until dismissed. `Tallied` makes the counts of a batch the number of files
  heard, from which the toast's claims follow by counting. Each step of a worker is one of two,
  `MoveStep` or `SpeakStep`, whichever await it ends. `UploadUsesPool` is a refinement: the uploads'
  specification implies that of `PermitPool`, so the theorems of `PermitPoolProofs` hold of the pool
  as the workers use it (`UploadPoolExact`), and with them `UploadsHoldPermits`: who opens, copies
  or is about to return holds a permit of the pool.

* `DropUploadProofs` (assumes `DropAssumption`: finitely many files, each at one place of one drop's
  plan, `Absent` and `Foreign` told apart from files and names, names that are suffixes up to a
  bound, and "none" no drop). Nothing is needed of the permit pool, whose steps stay closed in the
  proof. The word that ends a file goes from its worker to the drop's channel, to the loop, to an
  event and to a row, and none of the three properties says anything of the places between; the
  invariant `DInv` does. `Channels` says what a channel holds of a file by its worker's phase;
  `Heard` is, as for the panel's uploads, the worker over and nothing of its file left in the
  channel. `Staged` makes `active` the number of workers at large, so that the loop's own test for
  the end is the right one; `EventsTrue` and `RowsTrue` tie events and rows to what is still `Owed`,
  rows only where no event on its way will change them (`Settled`); `ToldTrue` and `Counted` are
  about the last word and the terminal's count. `WrittenOut` is about everybody who claims a file
  was uploaded (`Claimed`): message, loop, event or row. `UploadsKept` then rests on `Served`: the
  names of a drop are distinct, a remote file stands only under the name it was planned for, and a
  worker writes through a handle of that name. That `plan_files` finds a suffix its drop has not
  reserved (`UnreservedIs`) is a pigeonhole argument for there being one and, for the first one, the
  least number of a set (from the well-foundedness of `<`). Workers, drops and the window each have
  a lemma on what none of their steps touches (`WorkerFrame`, `DropFrame`, `WindowFrame`).
* `SftpBrowserProofs` (assumes `BrowserAssumption`: finitely many paths, which are non-empty
  sequences of names whose parents are directories, and `None` no deletion): `RowsInStep`,
  `ListingsCurrent`, `ChangesFollowedUp`, and `BrowserOneRemoval`. `ListingsCurrent` says what holds
  when no listing of a directory is under way, so the invariant `Listings` says what the last one
  under way will bring: for a directory unchanged since it was listed (`fresh`), the last answer
  that brings a listing of it is what the server has. It rests on the session's thread serving
  requests in order, so that a listing served before a change is also answered before it, and on a
  directory losing its freshness in the step that changes it. `OneRemoval` (the delete task sends
  its next removal on the answer to the one before) is what makes the parents it remembers those of
  the removal answered. `RefreshStep` and `AskStep` are the lemmas for what the operations share, a
  refresh and a request for a change.

Type correctness is part of the invariant of each component.

Only model-checked: liveness (`WaitersServed`, `BatchEnds`, `DropsEnd`, `AttemptsEnd`,
`SidebarSettles`, `CutClientsLeave`, `BroadcastCatchesUp`), which the prover does not reach. Every
safety property of a passing run is a theorem. Induction over data is out of reach as well, since
its theorems take an operator as a parameter; where a proof needs it, it counts (`Places`,
`UnlistedProps`) or takes a least number instead.

Two definitions are written for the provers: `Unlisted`, what `order.retain` leaves, and `Line`, the
queue without its dead senders, name the entry at each place of the result by how many are kept up
to it, instead of filtering the sequence with an operator, which no prover here can reason about.

## 5. Plan

Order of work: pool, list, uploads (their composition), shares, screens, window, browser, downloads,
dropped files, opening of SSH sessions, saved sessions (done); then

1. Theorems: every safety property a run checks is proved. What a proof could add: that no drop and
   no batch announces its end twice, and that `SftpDownload`'s list is that of the uploads too.
2. The debounced save of the workspace, and the lock screen's idle timer.
3. Previews and the filter of hidden names, in `SftpBrowser`; the tree of session groups;
   suggestions as operators against a reference definition.

Abstract specifications worth stating beside `Semaphore`: a share as one register of control with
approve, release and revoke, implemented by `WebShare`; a batch as a set of verdicts that only
grows, implemented by `SftpUpload`.

## 6. Disagreements between the code and what is said of it

* `MCWebScreensLate.cfg`. A browser that authenticates between `update_snapshot` and the broadcast
  is sent the new snapshot at once, and then the update meant for everyone else, the difference from
  the screen before. If the terminal meanwhile went back to an earlier text, that difference leaves
  out the row, and the browser keeps showing a text the terminal no longer has, with nothing left to
  send. The test `rapid_snapshots_do_not_revoke_client_access` waits for the latest snapshot to
  reach the browser. `UpdatesAddUp` therefore speaks of browsers that joined while nothing was
  unsent.
* `MCWebShareGhost.cfg`. `serve_websocket` leaves through `?` on some errors and then skips the
  disconnect at its end. A controller that goes this way keeps control, and the open request of a
  client that goes this way shuts out others, until the desktop acts or the share ends. The test
  `disconnecting_controller_releases_control` covers the regular end. The properties above therefore
  distinguish clients that `ended` from those that `failed`.

Behaviours worth knowing that no document of the repository contradicts, so that no run states them:

* A connection accepted before `shutdown` that authenticates after it is listed again and served by
  a share that is closed (`web/mod.rs`, `state.clients.clear()`).
* The inactivity timer of an SSH login (20 s) is set when the host-key question arrives and runs
  while the user is asked (120 s): trust given late stores the key, and the attempt may fail as
  timed out.
* Opening a session without host or saved password returns early and leaves its row marked as
  connecting, and a restored tab of such a session, or of one whose host key changed, stays at
  "Restoring".
* Connecting marks are per session: the end of one attempt clears the mark of another of the same
  session.
* Where no `known_hosts` file exists nobody is asked about the key of any server, and nothing is
  remembered for the next time (`wezterm-ssh/src/host.rs`, `if !file.exists()`).
* `known_hosts` is read before the question and written back whole after it: of two hosts trusted at
  once one may be lost, and a key removed meanwhile comes back.
* Rows of a drop stay listed as in progress when its terminal is closed, and two drops, or a drop
  and the panel, may plan one remote name.
* Two edits of one session at a time, or an edit beside a deletion, may leave the row of one with
  the password of the other, or a password without a session: their steps on the two stores are not
  ordered. The next operation that runs alone sets it right.
* The edit window closed while it saves leaves the sidebar with the old name of the session until
  something else lists it again.
* A new folder or a new name typed with a slash or `..` lands in another directory, of which the
  browser does not read a new listing (`gpui_sftp/src/view/table/actions.rs`, `confirm`).
* The desktop writes what is left in the input channel after control was revoked: up to 256 inputs,
  and one more of a handler that had already been let through.
* A share started right after the last one on its port was stopped may find the listener still bound
  and fail, and one error of `accept` ends the listener of a hub that still counts as open.
* A download ends as Finished without a flush of its local file.
