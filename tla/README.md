# Hermes Desktop Studio: TLA+ models and proofs

Hermes Desktop Studio is a desktop workbench for the Hermes agent. A Tauri host
(`apps/desktop-studio/src-tauri`) starts a Python adapter
(`packages/hermes_adapter`), a React frontend (`apps/desktop-studio/src`) talks
to the adapter over HTTP and server-sent events, and the adapter runs the Hermes
CLI, or relays a Hermes gateway, and keeps its own history in SQLite.

This directory models the parts of the system in which several activities share
state: coroutines of the adapter's event loop, child processes of the operating
system, clients that come and go, the database, and the stores of the frontend
with the requests, streams and timers that write them. The modules are written from
the code; where a document or a message of the code promises something the code
does not do, a run shows it.

## Files

| Module | Role |
|---|---|
| `ProcessLife` | what the process manager promises its clients: an abstract specification |
| `ProcessManager` | managed shell processes (`process_manager.py`) |
| `CliRuns` | runs of the Hermes CLI and their event streams (`hermes_cli_backend.py`) |
| `RunLedger` | the persisted history of runs (`run_ledger_repository.py`) |
| `RunPipeline` | the run routes (`studio_routes.py`): `CliRuns` composed with the ledger row of each run, through an instance of `RunLedger` |
| `RunView` | the run in view: the run store and the ledger store of the frontend, the composer, the stream of a run |
| `StoreHandlers` | what each handler of thirteen item stores does, as data: its request, and what its start, answer and failure change |
| `Surfaces` | what the components offer on the items of those stores: effects and buttons |
| `ItemStore` | the machine that runs one of these stores: its state, its requests, and the adapter's side |
| `Kanban` | the Kanban store and board |
| `Approvals` | the approval store and its surfaces |
| `Connection` | wizard, start-up screen, connection check and its poll timer |
| `Navigation` | mode, tab, history of the window, mounted surfaces |
| `SseStream` | the parser of event streams, fed by chunks |
| `LineDiff` | the comparison of two revisions |
| `Studio` | the last seven machines side by side, for model checking |
| `...Proofs` | theorems about the module of that name, for every value of its constants; `RunPipelineProofs` includes those about `CliRuns`, `StudioProofs` those about `Approvals`, `Connection`, `Navigation`, `SseStream` and `LineDiff` |
| `SequenceFacts` | lemmas for those proofs: induction and recursion over sequences, and queues of requests, answers and events |
| `MC...` | the modules TLC is run on; the `.cfg` files beside them give the constants |

`PROJECT.json` lists components, runs, mutations, the source lines of every
definition, the hazards and the theorems. Operators whose comment begins with
"mutant:" are deliberate bugs: each shows that a property notices it. They are
not used by any specification.

    tlc -workers 2 -config MCCliRuns.cfg MCCliRuns.tla
    tlapm RunPipelineProofs.tla

## Inventory

### Adapter (Python, one asyncio event loop)

* **Managed processes** (`process_manager.py`). State: a dictionary of
  `ManagedProcess` entries (status, exit code, error, log tail) and one
  `_stream_output` task per process. Operations: start, stop (SIGTERM to the
  process group, SIGKILL after five seconds), list, logs, remove. Hard: an entry is
  written by its start, by any number of concurrent stops and by its reader, all
  with awaits inside; the exit of the shell, its reaping and asyncio's knowledge of
  it are three moments; descendants keep the pipe open; removal does not wait for a
  start. Correct means: what an entry says of a process is true and final, each
  stop ends, no live process is forgotten.
* **CLI runs** (`hermes_cli_backend.py`). State: `_active_cli_runs` (accepted runs)
  and `_processes` (their CLI processes), both keyed by run. Operations:
  `start_run`, `stream_run_events` (an asynchronous generator that spawns the CLI
  and relays its output), `stop_run`. Hard: the CLI belongs to the *stream*, not to
  the run, so nothing runs until a client asks for events, two clients spawn two
  CLIs, and a client that leaves takes the handle with it; time-outs, pings and
  the deadline share one loop. Correct means: a stop reaches the process that
  runs, an executed run is not executed again, streams end, no process is left
  behind by a normal end.
* **Run ledger** (`run_ledger_repository.py`). State: the tables `runs` and
  `run_events`. Operations: `create_run` (upsert, then prune to 200 runs),
  `append_event` (create the row if it is missing, add the event, update the
  row), queries. Hard: events out of order, after the end or for pruned runs;
  clocks that go back. Correct means: rows and events tell one story.
* **Run pipeline** (`studio_routes.py`). The routes that tie the two together:
  `POST /runs` starts a run and creates its row, `GET /runs/{id}/events` records
  each event before it is sent, `POST /runs/{id}/stop` only asks the backend. Every
  write may fail and is then merely logged. Correct means: what the history says of
  a run is true of its processes, and a run whose end was seen has an end in the
  history.
* **Approvals** (`approval_repository.py` and routes). Rows fed by the event stream
  and by local decisions; a decision is first sent to the gateway and recorded
  afterwards. Hard: redelivered and crossing events.
* **Gateway backend** (`hermes_backend.py`). Retries, a circuit breaker, the relay
  of a remote event stream. Hard: a POST that was accepted but whose answer was
  lost; disconnects.
* **Studio storage** (`studio_storage.py`). Migrations, backups, restore, one cached
  connection under a lock. Hard: a crash between two steps of a migration, backups
  of a database in WAL mode.
* **Kanban, artifacts** (`kanban_repository.py`, `artifact_repository.py`):
  transactions on rows; positions of cards are the only relation between rows.
* **Repositories over files and commands**: sessions, logs, profiles, configuration,
  context, inventory, tool packs, themes, worktrees, checkpoints, cron,
  delegations. They read or rewrite files, or run one command per request.
* **Mock backend, event normalizer, security, audit log, server**: see
  `PROJECT.json` for why they are left out.

### Desktop host (Rust, `lib.rs`)

Three statics (process handle, ready, started), written by the auto-start thread
and by commands of the frontend; one thread that copies the adapter's output. Hard:
check-then-act on atomics, flags that survive a crash, pipes that fill up.

### Frontend (TypeScript, one thread; handlers interleave at every await)

* **Run view** (`runStore.ts`, `runLedgerStore.ts`, the composer). State: the run on
  show with its AbortController and inactivity timer, and the rows of known runs.
  Operations: send, stop, new chat, the callbacks of the stream, loads of the
  history. Hard: callbacks carry no chat, a start is two awaits, a row exists
  under a provisional id first, and a history read earlier arrives later. Correct
  means: one stream, which the user can stop; no text of an old run in a new chat;
  rows that claim no more than the adapter's ledger; a composer that comes back.
* **Item stores** (artifacts, checkpoints, context, cron, delegations, inventory, logs,
  models, tool packs, processes, profiles, sessions, worktrees). State: a list, a
  selection, the detail shown, flags that disable buttons. Hard: requests of
  several components overlap and their answers come in any order. Correct means:
  the list ends up as the adapter's, the detail is that of the selection, no flag
  stays set.
* **Kanban board** (`kanbanStore.ts`, `KanbanBoard.tsx`). A move is shown before it is
  answered and taken back by a snapshot; the editor chains up to four requests.
* **Approvals** (`approvalStore.ts`). Three views of the same rows (list, pending,
  detail), written by answers and by events of streams.
* **Connection** (`adapterStore.ts`, `App.tsx`, `StartupScreen.tsx`, the wizard). One
  check at a time, started from three places; a poll timer that must be there
  exactly while there is no connection.
* **Navigation** (`layoutStore.ts`, `AppFrame.tsx`, `CenterArea.tsx`). Tab, mode, the path
  of the window and what is mounted follow each other through effects and a timer.
* **SSE parser** and **comparison of revisions**: sequential, with boundaries.
* **Preview, settings, themes, toasts, panels**: values set in one place and shown in
  another.

### Interactions

The frontend calls `POST /runs`, then opens the run's event stream; the route
pulls the backend's generator, writes each event to the ledger and to the
approvals, and sends it. The backend owns the process. A stop is a separate request
that meets the generator only through the two registries. A closed connection
cancels the generator at whatever point it stands. All routes share one event loop;
all repositories share one database.

## What is modelled

### ProcessManager

One step is what a coroutine does between two awaits. `proc._lock` is never held
across an await, so it does not appear.

| Model | Code |
|---|---|
| `table`, `entry` | `_processes`, the `ManagedProcess` objects (an entry outlives its key) |
| `starter` | progress of `start_process`: `StartProcess`, `StartRefused`, `SpawnReturns` |
| `stopper` | progress of each `stop_process`: `StopFinished`, `StopSendsTerm`, `StopWaited`, `StopTimeout` |
| `reader` | `_stream_output`: `ReaderEof`, `ReaderBreaks`; both run `RecordExit` |
| `leader`, `helper`, `wstatus`, `termed` | the shell, a descendant, the exit status, SIGTERM: operating system |
| `returncode` | `process.returncode`, set by asyncio after `Reap` (`DeliverExit`) |

The forked shell runs from the step that enters the entry in the table, because
`create_subprocess_shell` forks before its first await. `getpgid` fails exactly
when the shell has been reaped. Windows is not modelled.

`ProcessLife` says the same as a client sees it: a process is listed or not, it shows a
status and an exit code, behind it is a shell that lives or has exited, and some
requests wait for its end. It knows no signals, time-outs, pipes, readers or
watchers. `ImplementsLife` is the refinement: `shown` is the status and the exit code of
`entry`, `shell` the state of the leader up to the moment its exit status exists, and
`asked` the process of a stop that has sent its signal. Forking, reaping, delivery,
helpers and the SIGKILL of a zombie are stuttering steps there. What the abstract
specification leaves no room for is the point: an end that is taken back, an exit code
that disappears or changes, a process shown as stopped before its shell has exited, a
failure turned into a stop by anybody but a request that was waiting for it.

### CliRuns

One step of a generator is what it does between two awaits or yields. `out` is the
event it is suspended on; `gone` says that its client left, after which `Close`
(CancelledError at an await, GeneratorExit at a yield) is its only step.

| Model | Code |
|---|---|
| `started`, `active` | ids handed out by `start_run`, keys of `_active_cli_runs` |
| `handle` | `_processes`, as the stream whose process is stored |
| `pc` stages | `opened` and `warned`: lines 285-303; `spawning`: 315; `reading` and `yielded`: the loop, 328-377; `draining`: 378-382; `killing`: 384-390; `ejecting`: suspended on an event inside the try block; `last`: suspended on an event after it |
| `late` | `deadline` has passed |
| `proc`, `code` | the CLI process and what asyncio knows of its exit; `mute`: it has closed its stdout but runs |
| `reply` | the answers of `stop_run` |

After the deadline `remaining` is not positive, so `wait_for` cancels each
`readline()` before it starts and raises TimeoutError: `ReadChunk`, `ReadEof` and
`ReadRaises` need `~late`, `Ping` does not. `ResumeTooLate` is the inactivity
time-out: the ping of every thirty seconds resets `last_event_time`, so only a
generator that was suspended for more than a minute meets it.

### RunLedger

Every operation is one transaction, and `StudioStorage.connect` lets in one at a
time: one operation is one step. The rows keep status, start, end and whether
there is an error; events keep run, type and time. `_prune_old_runs` is the set
`Kept`, those with fewer than `Retained` rows before them in the order of the
query. `CreateRunRefused` is the case in which the new run is itself pruned, so that
`_require_run` raises and everything is rolled back.

### RunPipeline

It extends `CliRuns` by one ledger row per run. `EventRoute(s)` is a step of the
stream together with the write of the event it emits: the route has no await
between them. `Emitted` says which event a step hands to the route, including the
`run.interrupted` the route makes up when a cancellation reaches it at an await. A
write succeeds, or is lost and logged (`lost`). `Updated`, `Ensured` and
`Created` are those of `RunLedger`.

### RunView

One step is what runs between two awaits: a click, an answer that arrives, an event
handed to the callbacks.

| Model | Code |
|---|---|
| `isStreaming`, `activeRunId`, `abortController` | the fields of `runStore` of these names |
| `rows`, `currentRunId` | the rows and the current run of `runLedgerStore`; `Pending(p)` is the provisional id of a start that was not answered |
| `phase` | progress of `sendPrompt`: `SendPrompt`, `Started` or `StartFails`, then the stream until `ReadEvent` of an end, `StreamEnds`, `StreamBreaks` or `Abort` |
| `wire` | events on their way to the client; some may be lost |
| `stopping` | requests to stop that were sent |
| `load` | a request for the history: read by the adapter in `AnswerHistory`, merged in `HistoryArrives` |
| `recorded` | the status in the adapter's ledger, external here (it is `RunPipeline`'s subject) |
| `sent`, `heard`, `hasty` | history variables of the properties |

`InactivityFires` needs a timer that is armed, and in this code none ever is: the one
armed at the start is cleared in the same step, and the client never calls `onPing`,
which would arm the next. So the action is a step of the specification with the silent
adapter only, where the question is whether it comes.

### StoreHandlers, Surfaces, ItemStore

Thirteen stores are variations of one scheme: a handler sets a flag, makes a
request, and changes list, selection and detail by the answer. `StoreHandlers`
writes each handler down as a record of what it does at each of these points, one
definition per handler of the code, so that what differs between stores (who
resets what, who looks at the selection, who loads again) is visible and checked.
`Surfaces` does the same for the components: on which items a button is offered and
which flag disables it. `ItemStore` runs any one of the stores, chosen in the initial
state. The adapter serves the requests in any order, answers arrive in any
order, requests fail and answers are lost. The stores share no state; a
component that uses several is a record with a field per store.

### Kanban, Approvals

Both have the requests on their way to the adapter, the answers on their way back,
in the order served but delivered in any, and the adapter's own rows. What the code
does not guard against (an answer overtaken by another, a lost answer, an event
delivered late) sets an excuse in a history variable, `boardExcused` or
`pendingExcused`, that lasts until store and adapter agree again. So the properties
say: whatever else happens, the two agree when nothing is under way.

### Connection, Navigation

`Connection` composes the screens of `App.tsx`: each step of the check is a step of the
model (`checkConnection`, `AuthAnswers`, `HealthAnswers`, `CheckFails`, `CheckBreaks`), and
the timer, the first check of `AppFrame` and the refresh button all start one.
`Navigation` runs React's effects in the step that changes mode or tab, as the code's
dependencies make them run; the two writes of the history (`replaceState` and
`pushState`) are `SyncEntries`, and `handlePopState` leaves a timer behind.

### SseStream, LineDiff

Small machines over bounded inputs: the stream grows by chunks of any length, and what
was parsed so far is compared with one parse of the whole text; the walk of
`buildLineDiff` is compared with every way to pair equal lines of the two texts without
crossing. The loops of the code are recursive functions (`splitSSEBlocks`, `EventsOf`,
`TableOf`), which can be reasoned about. The note that `buildLineDiff` appends when lines
were left out is not a row of the model.

### Studio

The seven machines share no variable and no request, so their product would only
multiply states. `Studio` picks one part and lets it move while the others stay at one
initial state: its reachable states are the union of those of the parts.

## Runs

| Run | Constants | Question | Result |
|---|---|---|---|
| `processes` | 1 process, 3 stops | Is what the manager reports true and final, and is every stop answered? | holds |
| `processes_untracked` | 2 processes, 1 stop | Is every live shell listed? | violated: removed while starting |
| `cli_runs` | 1 run, 2 streams, 1 stop | Do the registries stay true to the processes, and do streams end? | holds |
| `cli_deadline` | 1 run, 1 stream, 1 stop | Does a run past its deadline end? | violated |
| `cli_cancelled` | 1 run, 1 stream, 1 stop | Does a stop answered "cancelled" keep the CLI from being spawned? | violated |
| `run_ledger` | 3 runs, 2 times, 2 retained, 2 events | Do rows and events agree through pruning, late events and clock changes? | holds |
| `pipeline` | 1 run, 2 streams, 1 stop | Is the history of a run true of its processes? | holds |
| `pipeline_stopped` | 1 run, 1 stream, 1 stop | Is a stopped run recorded otherwise than as failed? | violated |
| `pipeline_reopened` | 1 run, 2 streams, 1 stop | Does a completed run stay completed? | violated |
| `run_view` | 2 prompts, 1 stop, 2 types of events, 1 event under way | Is there one stream, are the rows true, does the composer come back? | holds |
| `silent_stream` | the same | Is a stream given up on which nothing arrives? | violated |
| `studio` | 2 items, 2 requests; 1 card, 2 columns, 2 calls; 1 approval, 2 queries, 2 events; 3 tabs, 4 history entries; texts of 6 symbols; 4 lines, 3 compared | Do the stores settle on what the adapter has, and do the other parts keep their promises? | holds |

**Why these bounds suffice.** Entries of the process manager share nothing, so one
process is enough (the proofs cover any number); three stops give every order of two
answers and a third request in between. Runs of the backend share nothing either;
two streams of one run are the smallest case in which a stream overwrites and drops
the handle of another, and every excuse in the properties ("another stream of the
run") needs exactly one other. In the ledger two retained rows and three runs make
the pruned run older, equally old (the ids decide) or newer than the others; two
events suffice for an end and what follows it, and `MaxEvents` bounds nothing but
the table of events.
In the frontend an overtaken answer needs two requests, and a wrong selection two
items. The cards of a board share nothing but the board that a roll-back restores, and
one card with two requests already has a move overlapping another or an edit; two
cards exceed ten million states. The same holds of approvals: two of them, one
event and the filter "all" were checked once (7.2 million states) and are not kept as
a run. Six symbols hold a whole event with its blank line and the start of another,
every way of cutting it included; four lines of two texts, three of them compared,
have every kind of tie, border and cut.

**Deadlock.** Processes, runs and streams are finite in number and the system may
come to rest when all have ended, so deadlock is not checked there; nor is it for the
frontend, where prompts, edits and texts are bounded and the comparison ends. It
is checked for the ledger, where an operation is always possible.

### What the violations show

* *An untracked process.* `remove_process` refuses only RUNNING entries. Between the
  fork and the return of `create_subprocess_shell` the entry is STARTING and can be
  removed; the process then runs without an entry. The message at
  `process_manager.py:409` says that running processes are not removed.
* *A deadline that ends nothing.* After `HERMES_STUDIO_CLI_RUN_TIMEOUT` seconds
  (`README.md:236`) the loop of `stream_run_events` neither waits nor reads; it
  goes round on expired time-outs and pings, and the TimeoutError that would
  end the run is raised only after the loop.
* *A cancelled run that is executed.* `stop_run` removes a run that has no process
  yet and answers "cancelled"; a stream already past its first line does not look
  again and spawns the CLI (`docs/REAL_HERMES_SMOKE_TEST.md:68`).
* *A stopped run that failed.* SIGTERM makes the exit code nonzero, the stream
  reports `run.failed` and the ledger records a failure; `docs/QA_CHECKLIST.md:31`
  expects `run.cancelled`.
* *A completed run that fails later.* A stream opened for a run that has ended yields
  `run.failed` ("not found"), and the route records it: the ledger, which "owns the
  operational truth" (`docs/RUN_CENTERED_WORKBENCH.md:11`), turns completed to
  failed.
* *A silent stream.* `sendPrompt` arms the inactivity timer at the end of its try block
  and clears it in the finally block that follows (`runStore.ts:256-267`); only `onPing`
  would arm it again, and the client's switch has no case for a ping. So the promise of
  line 154, to treat a stream without events for a minute as disconnected, is not kept.

### Fairness

Weak fairness is assumed of what the event loop, its timers and asyncio's child
watcher do by themselves: a coroutine that can go on is resumed, a timer fires, a
zombie is reaped, an exit is delivered. In `CliRuns` a connected client keeps reading
(`Proceed`, `Resume`), and a CLI exits on SIGTERM, which it does not handle. `ReadEof`
has strong fairness: pings take turns with it, but `readline()` at the end of
stdout returns at once, and a ping is sent only when it did not return. Nothing is
assumed of users, of clients that might connect or leave, of CLI processes that
might write or exit, or of the passing of the deadline. The ledger has no liveness
properties.

In `RunView` a stream whose run is over ends (`StreamEnds`: the adapter closes the
response), an event that arrived is read (the reader loop), and a request to stop
returns, with an answer or an error. Users owe nothing, nor does the adapter owe an
end of the run. `SpecSilent` assumes less, the client's own duties only, because
the question is what the client does when the adapter says nothing. The parts of
`Studio` have safety properties only: "once nothing is under way" takes the place of
"eventually", so that no fairness of requests is needed.

## Proofs

All theorems are checked by `tlapm` from the named assumptions of the modules only:
`RunLedger`: runs and times are numbers, at least one row is retained; `CliRuns` and
`ProcessManager`: `None` is no stream and no process; `ItemStore`: items have at least
two versions, so that a change of one can be told; `Kanban`: cards can be edited, there
is a column, and none is called "archived"; the other modules assume at most that
constants are what they are named for, as `LineDiff` does that its two limits are numbers.

* **ProcessManagerProofs**: `TypeOK`, `EndedMeansExited`, `ExitCodeTruthful`, the action
  property `RemovalLosesNoProcess`, and `ImplementsLife`, that every step of the manager
  is a step of `ProcessLife` or none. No invariant among these is
  inductive. The invariant adds what ties the four views of a process together: a
  return code that asyncio has delivered is the one the operating system holds and
  implies that the shell was reaped; an entry that has ended is that of a reaped
  shell; a stop or a reader under way belongs to an entry that was spawned. Without
  it a stop could be about to write STOPPED for a shell that still lives. The
  refinement needs it too: that `RecordExit` and the tail of `stop_process` write what
  the shell exited with, and that an entry under way is not one that failed to start.
  Its proof first states what a step changes process by process (`ShowsOne`,
  `ShellTurns`, `AsksTurn`), then lifts that to the functions of `ProcessLife`.
* **RunPipelineProofs**, of the runs: `TypeOK`, `HandleIsFollowed`, `OrphanOnlyAfterLoss` and the action
  properties `EndedRunIsNotReopened` and `StopFindsRun`. The invariant says, per place
  of the generator, whether its process may live and whether its run may still be
  registered (`Stage`), and that a known exit happened (`ExitKnown`). For `StopFindsRun`
  it is not enough that a handle has a follower; `HInv` is the converse: a stream inside
  its `try` is the registered one or has a rival (`Rivalled`).
* **RunLedgerProofs**: `TypeOK`, `EventsHaveRun`, `EndIsRecorded`, `ErrorIsRecorded`,
  `LateEventsDoNotReopen` and `PruneDropsOldest`, for any limit and any order of times.
  The first five need no arithmetic: pruning removes a row and its events together,
  and every other step adds an event of the very run whose row it changes.
  `PruneDropsOldest` does: the order of the rows (by time, then by name) is total, so
  that a finite set of rows larger than the limit has exactly that many first ones
  (`FirstOnes`, from `FiniteSetTheorems`), and the ledger is always finite (`FewRows`).
* **RunPipelineProofs**, of the runs with the ledger: `PipelineTypeOK`, `CompletedMeansExited`, `EndedRunsNothing` and
  `EndReported`. For the first two the invariant says that a stream about to report
  success follows a CLI that exited with code 0 (`Honest`), and that a success stays
  with its run (`Kept`); `AppendCompletes` shows that no other event makes a row
  completed. `EInv` adds that an end on record was reported by a stream of the run,
  which, when it is the only one, is past its process (`Over`). `RInv` follows the other
  way the event in the generator's hand: an end that was handed over is on record,
  unless its write was lost or the run has a second stream.
* **RunViewProofs**: `TypeOK`, `OpenStreamIsActive`, `TextIsOfThisChat`,
  `CompletedIsRecorded`, `EndIsKept` and `CurrentStaysListed`. `Solo` says that, unless a
  stop was hasty, every stream that is open or about to be belongs to the run the store
  shows, and that the answer of a stop resets nothing that came after it; without the
  second part a late answer could clear the run of the next prompt. `SaysTrue` follows
  a completion backwards: a row may say it because an event said so that is on the wire
  or was read, or because a history did, and neither exists unless the adapter recorded
  it. `CurrentInv` says that a current run which the history under way does not know has
  not ended, and so is kept as live when that history replaces the list; it holds
  because the store hears of a run only after the adapter has recorded it.
* **ItemStoreProofs**: `SettledListIsServers`, `ShownIsSelected` and the flags' half of
  `NothingStaysBusy`, for each of the thirteen stores and any number of items and
  requests. The handlers of a store are facts about a table (`HandlersIn`); what follows
  is argued from what their records say, not store by store. `FlagsHeld`: a flag is up
  only while a request that lowers it is under way. `ListInv`: unless excused, a list is still
  to be loaded again (`ReloadDue`), or of every item the last answer under way that tells
  anything says what the server has, the list itself when there is none (`LastSays`); an
  answer that drops an item tells the truth about it (`DropsSay`), and one that changes a
  listed item does not find it gone (`ListedBefore`). The order of the answers is what
  makes this hard: only the *last* one that tells of an item counts, the rest are
  overtaken. `ShownFollows` distinguishes four
  ways in which the stores keep their detail; for those that show whatever arrives, the
  last item fetched is the one selected.
* **KanbanProofs**: `BoardSettles` and the board's half of `NothingStaysBusy`, for any
  number of cards, requests and edits. `Following` says, of a board that is not
  excused: values of a card only grow (`Rank`, `Behind`), and an answer older than the
  adapter's card is followed by one that tells of it (`AnswersFollow`); what the board
  shows is the adapter's, or an answer, a read or a move under way will make it so
  (`Shows`); and what a failing move would take back is right but for what is still to
  come, or older than the board shows, which excuses it (`MovesRestore`). Two moves under way at once (`MovesMeet`) would break the last part,
  and are what the code's snapshots cannot handle: they are among the excuses.
* **StudioProofs**, approvals: `PendingIsAwaited`. The invariant: an approval is shown as
  pending just when the adapter waits for it, or an event about it, or the answer to a
  decision on it, is on its way (`ToldSoon`). An answer to a list is not enough: it may
  have been read before the decision.
* **StudioProofs**, connection: `KeepsTrying`, together with the fact that a browser
  neither asks the host nor polls.
* **StudioProofs**, navigation: `TabIsMounted` and `UrlShowsTab`, for any tabs, links and
  length of the history. The invariant adds the types and that an entry which the window
  does not show yet has a timer that will, the last of those under way; two steps
  back before the first timer fires are what makes it needed.
* **StudioProofs**, stream: `ChunksDoNotMatter`, for streams and chunks of any length. It is
  inductive once the text is known to be one of symbols, but its step is about a
  recursion: what is left over holds no complete block (`RemainderHoldsNone`), so that
  the blocks of a longer text are those of the shorter one and then those of what was left
  over with the new chunk behind it (`SplitInParts`), and the events of two lists of blocks
  are those of one and then those of the other (`EventsInParts`).
* **StudioProofs**, comparison: `DiffRebuildsBoth`, for any texts and limits. First the table: it
  exists and can only be filled in one way, from its end (`TableExists`, `TableFilled`); its cells are
  numbers; and no set of pairs that do not cross, of the lines behind a cell, has more
  pairs than the cell says (`TableBounds`). Then the walk: the rows spell the lines passed, and
  the lines kept together with the cell where the walk stands are what the first cell
  says (`DiffInv`). Either neighbour would do when lines differ and both cells are equal,
  so that the order in which the code breaks ties does not matter.
* **StudioProofs**, the whole: a behaviour of `Studio` is one of each of its parts
  (`EachPartRuns`), whence `StudioTypeOK`, `NothingStaysBusy` and every property above hold
  of the composition that the run checks (`StudioAgrees`).

*Induction.* The library's theorems on induction take an operator as a parameter, which
the installed provers cannot instantiate. `SequenceFacts` therefore states induction of
*sets*: every non-empty set of numbers has a least element (`LeastNumber`, from the
well-foundedness of `<`), so a set with 0 and the successor of each of its elements has
every number (`Numbers`), and a set with the empty sequence and all that is appended to
one of its elements has every sequence (`OnSequences`). A function that is defined by
recursion is a `CHOOSE`, of which nothing is known before such a function is shown to
exist; `Recursion` does so once for all recursions over a sequence and its last entry: the
smallest set of pairs closed under the step is that function.

So every safety property that a passing run checks is proved, invariant or action property.
Only model-checked are the liveness properties (`StopAnswered`, `ExitNoticed`,
`StreamEnds`, `ComposerComesBack`; the proof system does not reason about fairness and
ENABLED here), and that each of the six violations can happen.

## Not modelled

*Details of modelled parts.* Text and its redaction, log lines, titles, durations,
payloads; validation of templates, environments and working directories; read-only
queries; Windows. Of the event streams of the CLI the texts and the warning for stderr
output. A descendant of the CLI that keeps its stdout open, and a spawn that takes
longer than the inactivity time-out. In `RunPipeline` the pruning of runs and the
approval rows. Of the frontend filters and search, forms, tool cards and token
counts, the selection and comparison of runs, the limits of fifty and a hundred
rows, and the live stream of log lines (`logStore.startStream`).

*Components.* The adapter's gateway backend, because what a retry or a lost answer
does is decided by a service that is not in the repository. The studio storage,
because what a crash leaves behind is decided by SQLite and its driver. The
desktop host: three statics and two threads, of which the frontend sees only
"started" and "failed", both choices in `Connection`. The remaining repositories of
the adapter are single transactions, file reads or one command per request, and
the remaining components of the frontend show values without requests that overlap.
`PROJECT.json` gives the reason for each.

*Known of the code and not stated as a property*, because nothing promises otherwise:

* a reader that sees the end of stdout before the return code leaves the entry RUNNING
  (`process_manager.py:391`); a stop of a reaped shell leaves its descendants alone
  (`:351`); managed processes outlive a restarted adapter unseen (`:311`);
* an interrupted stream leaves its run "running" in the ledger; `append_event`
  recreates pruned runs without pruning (`run_ledger_repository.py:293`);
* a stop between the request that starts a run and its answer only resets the
  store, and the stream that opens afterwards cannot be stopped (`hasty` in `RunView`);
  a start that fails leaves the composer disabled until Stop is pressed
  (`runStore.ts:258`);
* an older history turns an ended row back to running until the next load
  (`runLedgerStore.ts:162`); a run accepted as "queued" vanishes from the rows when a
  history without it arrives (`:169`);
* a late `approval.requested` makes a decided approval pending again
  (`approvalStore.ts:299`); a failed move undoes on the board what came in since
  (`kanbanStore.ts:223`); checkpoints, context, logs and sessions show late answers of an
  older selection;
* the poll timer is not armed again once connected, so a lost adapter is noticed by a
  refresh only (`adapterStore.ts:53`); nothing checks the connection during the
  wizard, whose discovery step therefore reports none;
* a deep link that names a surface of another mode leaves the center blank, also after a
  restart (`AppFrame.tsx:167`); each change of tab writes the history twice, once by
  `replaceState` and once by `pushState` (`AppFrame.tsx:98` and `:144`);
* the parser of streams knows `\n` line ends only (`sseParser.ts:66`).
