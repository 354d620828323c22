# A verification project for Giskard

Giskard is a browser front end for coding agents. A Rust server keeps one
*harness* (Codex, Claude or a replay) per project and kind, reads the events of
its threads, keeps the turns in files and shows them to any number of browsers
over WebSockets. This directory holds TLA+ modules of the parts where the order
of steps matters, TLC configurations that check them on small instances, and
TLAPS proofs of the most important properties for every value of the constants.
`PROJECT.json` lists components, runs, mutants, the map from definitions to
source lines, findings, hazards and theorems.

## 1. Inventory

The event pipeline is the spine of the system:

    harness adapter -> EventLog (one per thread) -> project event driver
      -> ThreadEventForwarder (the thread's one owner)
      -> ThreadRuntime entry (turn gate, request ledger, live buffer, tasks)
      -> PersistStore (turn history)  and  Hub -> client queue -> WebSocket

| Component | State | Operations | Interacts through | What is hard | What makes it correct |
|---|---|---|---|---|---|
| Event log (`giskard-harness/event_log.rs`) | base, entries, cursors, unreported, closed | append, close, reader, recv, try_recv, drop | one mutex, a Notify | eviction at the cap, readers that come and go, wake-up after unlock | loss only at the cap and always reported; no lost wake-up |
| Thread owner (`registry/event_forwarder.rs`) | turn in progress, admitted lease, request in flight, seen turns | run loop: cancel, event, answer, intent; finish | log reader, intent channel, runtime, store | answers that trail events, late and cross-turn events, overflow, failed appends, exit with work queued | one gate holder, faithful history, every caller answered |
| Turn gate (`thread_runtime/gate.rs`) | owner, acknowledged turn, blocked turn | reserve, acknowledge, release, block | leases held by the owner | a lease that outlives its turn | one turn at a time; a blocked gate stays |
| Coordinator and driver (`registry/thread.rs`, `driver.rs`, `admission.rs`) | phase, parked attaches, deferred admissions, running admission | attach, detach, owner exit, link, discovery, quiesce, resume | commands, owner futures, discoveries | replacement of an owner that is still exiting; links that race discoveries | at most one owner per thread; no admission lost |
| Request ledger (`thread_runtime/requests.rs`) | records: status, claim, revision, resolution | register, claim, commit, rollback, resolve, prune | browser responses, owner, adapter | resolution during a claim, timeout that drops the future, publication out of order | exactly one settlement; browsers converge |
| Codex adapter (`giskard-harness-codex`) | routes, mapper, active turns, pending steers and requests, inbox | commands, controls, provider messages, timeouts, shutdown | one worker task, a reader and a writer of the child's pipes | completions that race acknowledgements, answers of timed-out calls, a full inbox, broken pipes, discoveries | an acknowledged turn is tracked until it ends, and ends; every call returns |
| Claude adapter (`giskard-harness-claude`) | threads and their logs, children with a supervisor each, pending asks | open, start, compact, steer, answer, reap, respawn, stop, shutdown | command queues, child process, `threads` and `pending` locks | a reaped child that outlives its entry, callers that give up, withdrawn asks, hung children | the stream follows the serving child and ends with the thread; nothing is written for nobody |
| Hub and delivery (`hub.rs`, `delivery.rs`) | clients, subscriptions, queues, mailboxes | subscribe, publish, disconnect | channels, Notify | full queues, coalescing | the newest state reaches every client |
| WebSocket session (`ws.rs`) | connection, bootstrap slots | client messages, subscribe bootstrap | hub, registry, store | history and live snapshot are read at different times; timeouts | nothing missed, nothing doubled |
| History store (`giskard-persist`) | turn payloads, index, aggregates, locks | append, amend, load, migrate | file system | crash between two writes, retries | first record wins; aggregates can be rebuilt |
| Retirement and deletion (`registry.rs`, `thread_deletion.rs`, `routes.rs`) | deletion plan, runtime entries | archive, provider switch, retire, delete tree | driver, store, runtime | check-then-act across awaits, crash in the middle | nothing of a live turn is lost |
| Thread metadata (`thread_metadata.rs`) | thread file with its revision | mutate, publish | store, hub, HTTP replies | publications after the lock, in any order and over several lanes | a page never goes back, and catches up |
| Usage ledger, model catalog | counters, caches | update, query | store | retries, repair | every turn is counted once |
| Project lifecycle (`registry/project.rs`, `registry.rs`) | harnesses, lifecycle lock, task tracker | create, shutdown, delete, rollback | locks | lock order, partial failure | no task outlives shutdown |
| Worktrees, plans, disk usage, auth, git parser, core types, browser UI | files, none | I/O, parsing, presentation | - | - | not in scope, see section 7 |

The hazards these parts are exposed to are listed, each at its line, in
`PROJECT.json`.

## 2. Plan

Built: the event log, the request ledger, the thread owner, the subscription of a
page, the replacement lane (with an abstract specification it implements), the
history store, the project driver, the deletion of thread trees, the Claude
session, the Codex instance, and eight proof modules. What is left, in this order:

1. Proofs: `StoreIsSound` and `CommittedTurnsSurvive` of `HistoryStore`, for which the
   folds over its records have to be restated as recursive functions, as was done for
   the deferred queue of `ProjectDriver`.
2. Archiving and the provider switch, beside `ThreadDeletion`.
3. Composition: `Subscription`'s owner steps as a refinement of `ThreadOwner`'s, and
   `ThreadOwner`'s log as an abstraction of `EventLog` with one reader.

## 3. Modules

### EventLog

Every method of `EventLog` and `EventLogReader` holds one mutex, so each is one
action: `AppendEvent`, `Close`, `NewReader`, `Recv` (one disjunct for each outcome
of `poll_reader`), `DropReader`. `append` and `close` call `notify_waiters` after
they release the mutex; `notifies` counts the calls still to be made and
`NotifyWaiters` makes one. `recv` registers with the Notify before it releases the
mutex, so finding nothing and parking are one step. `CancelRecv` is a `recv` future
dropped by its `select!`. An event is its append number. `appended`, `delivered`,
`reported` and `account` are history variables: what readers were told.

### RequestClaims

Operators on the ledger (`Register`, `ResolveFromHarness`, `Claimed`, `Committed`,
`RolledBack`, `Pruned`) are the methods of `RequestLedger`; actions are what calls
them. A *responder* is one in-flight response of a browser: it claims, publishes,
sends the harness command, waits, settles and publishes, and the WebSocket
handler's timeout may drop it at each of these awaits. The adapter executes a
queued command even when nobody waits for it. The event owner applies one event
and publishes its effect before the next. `channel` and `view` are a browser with
the revision gate of `app.js`. The hub drops what finds the client's queue full
(`Publish`). A turn that completes is announced to the browser, which then forgets
the requests it shows as resolved (`ReceiveCompleted`), while the ledger prunes only
those of the turn; a resolved record without a turn stays. A browser that subscribes
again gets a new queue (`Reconnect`), and the handler reads every record under the lock
(`ReadStates`) and sends the states one by one, waiting for room (`SendState`). `lost` is a
history variable: the requests the browser may have missed a word of, because a
publication was dropped or because an older state was still under way when it forgot
the request; a subscription's read makes them good. Abstracted: decisions and payload texts (a payload
is its version, an answer is the claim that carried it).

### ThreadOwner

The biased `select!` of `ThreadEventForwarder::run` is the guard of each owner
action: cancel first, then events (`EventReady`), then the harness's answer, then
intents. `complete_forwarded_turn` awaits the store, so it is two steps
(`AppendTurn` or `AppendFails`, then `SettleTurn`) between which callers, the
harness and the driver move. `coord`, `cancel` and `parked` are the coordinator
phase and the driver's parked attach. The harness is the environment: it starts
requested turns when idle, may start turns of its own (`Autonomous`), may emit items
of a turn that has ended, and answers a request at any time after it started
the turn. Its log keeps `LogCap` events and owes a gap for what it evicts, which
is what `EventLog` guarantees to its one reader.
Abstracted: classification (a primary thread), events dropped for a foreign
thread, a duplicate notice or an item-identity conflict, turnless events, usage
and model adoption, live buffer, outputs, diffs and running tasks.

### Subscription

A page and a thread, end to end. The owner applies an event to the live buffer
in one step and publishes it in a later one; a turn that ends is persisted, then
settled (buffer cleared, gate released), then published. The bootstrap is one
step for each await or lock of `run_subscribe_bootstrap`: register with the hub,
read the gate, send the state, load history, read the live turn, send both. All of
it goes through one bounded queue, at which the hub drops and the bootstrap
waits. The page is the record `ui`, with one operator for each handler of
`app.js`: rows with the turn they are stamped with, the composer lock, the turn
being rendered, the resume cursor. An item is a message, whose row is stamped with its
own turn whenever its body is registered, or a task, whose group's row keeps the turn that was
being rendered when it was made (`Stamp`); `Kind` says which it is, and `MCSubscription`
mixes both in a turn. A connection is lost with its queue, the
page reconnects from its cursor, or is opened anew.

Turns and items are numbers, so the contents of a turn is a count. Abstracted:
streamed deltas, running tasks, requests, older pages over HTTP, the page's own
optimistic rows, items of a turn already settled, a second or cancelled subscribe on
one socket; buffer creation and its first event are one step.

The code leaves windows in which a page may end up wrong, and the model names them:
`harm` is a history variable that records that one was hit since the page was
opened (a dropped message, a failed bootstrap, a publication among the
bootstrap's messages, a turn that settles between its reads and its sends, a
cursor ahead of a history that was lost, a row left pending). Each property says
which it tolerates; without `harm` none of the transcript properties holds.

### Replacements and LatestValue

`Replacements` follows one thread file to one page: a mutation commits a revision
(`Mutate`) and publishes it later (`InsertThreadState`, `InvalidateCatalog`, then
`NotifyOne`, in the order of the code and interleaved with other publishers); the
mailbox holds one message per key; the socket's writer loops over `recv`
(`PopReplacement`, `FindEmpty`, `Await`: checking and parking are separate steps) and
over the ordered queue. The page takes revisions from the mailbox, the bootstrap,
the replies to its own requests and the thread list it fetches again on an
invalidation, all through `reconcileThreadProjection` (`Accept`). A thread file is its
revision and, for each of three groups of fields, the revision that last changed
it, so a projection that mixes revisions is visible. Faults are lost sockets,
failed fetches and restarts of the server.

`LatestValue` is what a view promises: it shows values that were written, never an
older one after a newer one, and catches up. `Replacements` implements it three times
over, once for each group of fields the page shows (`INSTANCE ... WITH written` the
revision in the file, `shown` the one on the page): safety is `FieldsAreRegisters`,
catching up is `PageCatchesUp`.

### HistoryStore

The files of one thread. A writing operation holds the thread's lock, so one
variable `op` is the operation in progress, with one action for each file it writes:
payload, index record, cache, aggregates (`AppendPayload` .. `UpdateAggregates`);
payload and cache for an amendment; staging, rename, and two moves for the migration;
rename and purge for a deletion. A crash may fall between any two of them, an I/O error
may end an operation at any, and an append may leave a line without its newline.
Readers hold no lock and are one action for each read. `merged` and `dropped` are
history variables: an append landed on a torn line; the thread was deleted. A turn's payload
is whether its late items have settled; the aggregates are a count for each turn.

### ProjectDriver

The driver's `select!` with one action per arm; the admission in flight is polled by
the same loop and has a step per effect: the claim of the native thread (`AdmitClaim`),
the read of the thread graph and the check of the link (`AdmitRead`), the write of the
child's file (`AdmitWrite`), the attach (`AdmitFinish`), or a refusal or fault. Between
read and write lie awaits, so the parent's file may go in between; `Remove` deletes any
file at any time, children or not, because the deletion goes by a plan it cut
earlier. Commands carry who waits for them; an owner's links are sent
by nobody who waits and are remembered in the history variable `owed`. The deletion
of the project is a client of the driver. Attaching and detaching are what
`ThreadOwner` shows of one thread.

A chain of parents is the function `ParentChain` of the number of steps, up to as many as
there are threads; a walk that has not ended by then is in a cycle, which
`parent_chain_reaches` treats, like the code, as reaching everything. `Kept` is the pass of
`start_deferred` over the entries that cannot start: `begin_link` requeues each of them or
drops it with its parent's file. `NoAdmission` is the driver's empty slot for an admission.

### ThreadDeletion

The DELETE handler is one action for each await up to the hand-over to the background
cascade; the cascade is one for each of its bounded waits, with the failure and the
timeout of each as actions of their own; the removal of files is a task that goes
on after the cascade has given up on it. Beside them run `open` (fence check,
native open and attach in three steps), turns, owners whose stream ends (`OwnerExits`),
the admission of a sub-agent, which begins with a live parent, one at a time, and records the
child later or fails (`AdmitBegins`, `AdmitRecords`, `AdmitFails`), cancel, dismiss, the deletion of the whole project, clients that hang up,
shutdown, and a crash with the sweep of the next start. Retiring a thread with an owner waits for
its detach, which the driver takes when no admission is in flight (`MayRetire`); one
whose owner has gone is not waited for. Abstracted: the worktree is one
step that may refuse; counts and messages of a record.

`Parent` is a function on the set of threads; a parent is older than its children, so
no thread is its own ancestor (`ThreadDeletionAssumption`), because the parent of an admitted thread is set
when it is created and never changed. `Subtree` is the smallest set that holds the root
and, with a listed thread, its listed children: what the walk of `thread_graph.rs` finds.

### ClaudeSession

The methods of the harness are numbered calls with a program counter; a critical
section of `threads` or of `pending` is one step. A supervisor is a record: its phase
(serving, interrupting before a stop, draining after it, hung in a write, exiting),
command queue, turn in setup, turn, callers owed a control response and withdrawn
asks. `Reap` takes an idle child out of the entry, after which it drains on its own and
`Respawn` registers the next under the entry's gate. The CLI is the environment: it
answers, raises and withdraws asks, opens turns by itself, ends a turn, closes its
output, hangs, or never exits. `lost` is a history variable with the two ways the code
loses an ask. Abstracted: sub-agent routes and tasks (they count as a busy turn),
the mapping of lines to items, the handshake, steering beyond a control request.

### CodexInstance

The one worker task of a Codex process with its biased `select!` (shutdown, message,
steer, command, control) and the transport beneath it. A call is a record with the
place it has reached; a command or a control that sends a request leaves the worker
waiting in it (`Await`) until the answer, a failure or `Timeout`, while the reader goes on
filling the inbox. `routes` and `byThread` are the two maps of `NativeThreadRoutes`, `mapper`
the native turn last announced, `active` the acknowledged turn, `logs` the turn events each
thread's log was given. The end of an active turn is two steps, since its uploads are
removed by a request (`CleanUp`, `CleanedUp`). Codex is the environment: it may answer or
refuse a request late or not at all, announce a turn before the one ahead of it
completes, start turns and sub-agents of its own, and report fatal errors. A full inbox
loses its oldest message and stops the worker at the next read (`Appended`, what `EventLog`
does at its limit). Pipes break one at a time (`WriterFails`, `ReaderEnds`). The server
is the caller (`MayCommand`): a thread has one start in flight, once its open has returned, and a
new owner may open it behind a start the last one left. A start does not wait for the turn before
it: `ThreadOwner` releases the gate on a gap and on a detach while that turn runs at Codex, and
the new turn then takes its entry in `active`. `stored` is
the native thread the server keeps for a thread. `acked` and `givenUp` are history variables: the
thread each acknowledged turn was promised to; the threads that were deleted, the
native threads that were replaced after a failed resume and the turns whose entry a later start took. A new identity, the code's UUID,
is one nobody has used or proposed (`NewThread`); `Threads` is large enough to have one.
Abstracted: items, approvals (in `RequestClaims`), context restores, the fallback for
messages without a thread, requests that change nothing in the worker; a compaction is
a turn Codex starts.

## 4. Runs

| Run | Shows |
|---|---|
| EventLog | 3 readers, which may overlap, 3 events, cap 1, fair: readers' accounts add up; every loss is accounted exactly once while readers do not overlap; a reader gets past every event |
| RequestClaims | an approval and a server request, 2 responses, 2 claims, 2 turns, fair timers, no browser: `LedgerIsSound` (claims and states agree, answers were delivered, open requests are claimable, closed server requests resolved), revisions name states, every claim is settled |
| RequestView | a server request, 2 responses, 2 claims, 2 turns, a queue of 1, one new subscription: of every request it has not missed a word of, the browser shows the ledger's last word once nothing is under way |
| ThreadOwnerSafety | 2 calls (one a compaction), 2 turns, 2 owners, a log that overflows, failing appends and reads: gate, history, answers |
| ThreadOwnerLive | fair, no overflow: calls answered, gates released |
| SubscriptionSafety | 3 turns, 2 items (messages and tasks mixed), 2 connections and a reload, queue of 2, page of 1: outside the named windows the page shows exactly the thread, in order; the composer follows the gate; the cursor vouches for what is shown; only a full snapshot removes a completed turn |
| Replacements | 2 publishers, 2 revisions, one fault, fair: the mailbox meets no conflict and loses no wake-up; a page nothing is owed to shows the file; each view implements `LatestValue` |
| HistoryStore | 3 turns, a reader, one crash and one I/O error, migration, amendments, deletion and maintenance: committed turns survive, reads are current, aggregates count once, a history on disk is listed (`StoreIsSound`) |
| ProjectDriver | thread, child and grandchild, 2 requests, 2 links, one fault, one removal in any order, project deletion: every chain of parents ends, in a primary or a deleted thread (`DriverIsSound`), links, owners, callers |
| ThreadDeletion | 2 requests, a thread with two descendants of which one is admitted late, one fault (a crash, a shutdown or an owner that exits by itself), fair cascades: fences (`DeletionIsSound`), leaf first, done means deleted, the lock is let go |
| ClaudeSession | 3 calls, 2 children, 2 logs, queue of 1, one ask, fair stops and exits: stream, turn and asks agree with the serving child; writes are wanted; streams end |
| CodexInstance | 2 calls, 2 turns, 4 threads, 2 native threads, inbox of 2, fair worker and timers: routes are a bijection, a turn has one log, acknowledged turns are tracked until they end, or a later start takes their entry, and do end, the mapper names a live turn, calls return and a shutdown stops the worker |

Bounds. A cap of 1 with 3 appends evicts, trims and refills; with three readers
two lag differently while one is replaced. Two claims are what a race
needs: one that is dropped or refused and one that follows. The ledger's properties do not
look at the browser, so `RequestClaims` has none (its queue takes nothing, and it never
subscribes); in `RequestView` publications are reordered
before they enter the browser's queue, so one place in it is enough, and every second one
may find it full; a server request without a turn is the one that outlives a completed turn in
the ledger. Two turns let a late
event of the first meet the second, two owners let a detach leave a turn to a
successor. Three turns
are a turn on disk, one that ends during a bootstrap and one that starts in it,
with which every window of `harm` is hit; a queue of 2 fills with one event and one
message of the bootstrap; the second connection resumes from the first one's
cursor; two items are one of each kind. Two revisions are enough to publish out of order and one fault to lose a
socket, a fetch or the server between them. In `HistoryStore` three turns let a torn or
orphaned one lie between two good ones; one crash and one error together interrupt an
operation and its repair. In `ProjectDriver` a chain of three has a parent that is
itself a child, with a wrong link (child to its parent) to refuse, and one removal is enough to
take a parent between the read and the write of its child's admission. Two children and two logs
are a reaped child beside its successor, and a thread reopened beside its stopped one;
with a queue of 1 a second command finds it full. In `CodexInstance` two calls are a start or an open
and what races it, two turns overlap, the second native thread is a sub-agent's or the
fallback of a failed resume, an inbox of 2 overflows while the worker waits, and four threads are
enough for every native thread to be discovered and every call to propose an identity. The runs do not check deadlock (but for
`EventLog`), because a system with its bounds used up rests. The interchangeable
callers of `ProjectDriver` are symmetric.

Fairness. `EventLog`: appending threads finish their call, and the driver polls each
stream it holds. `RequestClaims`: the two-second timer
fires; nothing else is assumed. `ThreadOwner`: owner, driver and channel
run; the adapters bound every request with a timeout, and a started turn ends
(completion and interruption are reported by the provider; for an acknowledged turn the
adapters turn a process exit into a completion, which is `AckedTurnsEnd` of `CodexInstance`; for
other turns see section 5). `Replacements`: publishers, the socket's writer, the reconnecting page, its
fetches and its retry timer run. `ThreadDeletion`: the cascade's own steps and the
bounds of its waits; nothing is assumed of harness, disk or clients.
`ClaudeSession`: a stop goes on under `STOP_TIMEOUT`, and a supervisor whose child has
exited finishes `on_exit`; nothing is assumed of the CLI. `CodexInstance`: the worker task
is scheduled and its request timers fire; nothing is assumed of Codex, of the pipes or
of the callers.

## 5. What the code leaves open

No run is a counterexample. What the code leaves open is excluded by name from the
properties it would break:

* **Overflow during admission** (`event_forwarder.rs:1375`). A gap without a turn in
  progress is taken for idle, also when an intent is admitted; if the gap covers the
  turn's completion, the admitted lease keeps the gate. The specification
  (`specs/giskard-specification.md:1383`) releases it when the turn completes.
  `GateIsReleased` is checked without overflow.
* **Different turn under a persisted id** (`event_forwarder.rs:371`). A history read that fails
  starts the owner with an empty set; the store's first-wins rule
  (`store.rs:1345`) assumes repeats are identical.
* **Reused request ids** (`requests.rs:83`). A record without a turn, or resolved
  after its turn settled, is not pruned and absorbs a later request with the
  same id, which `app.js:4026` calls legitimate.
* **Cancelled approvals** (`lib.rs:2183`, Codex). An accepted interrupt cancels pending approvals without
  an event, so the ledger keeps them pending until the browser's answer is refused or the turn is
  pruned. `LedgerIsSound` claims the resolution of closed requests for server requests only.
* **Dropped publication** (`hub.rs:145`). A client whose queue is full loses the message and
  keeps its subscription; a request's last state may be the one dropped, and the page
  shows the one before until it subscribes again. `ViewConverges` excepts it (`lost`).
* **Forgotten request** (`app.js:4019`). A completed turn makes the page delete every resolved request
  and with it the revision it had seen. A state sent by a slower publisher then passes as
  new: the page shows a resolved request as open again, and no more is sent about it. Also `lost`.
* **Snapshot overtaken by its completion** (`ws.rs:1484`). The page renders the completion first
  and is then locked for a turn that is over; a resync brings no turn and no
  snapshot (compare `app.js:4552`).
* **Turn between two reads** (`app.js:5269`). A turn that completes between the bootstrap's two reads
  moves the cursor past a page that does not have it; later resyncs ask only for turns
  after it (compare `app.js:3497`).
* **Child of a deleted parent** (`admission.rs:234`, `:327`). An admission reads its parent from
  the graph and writes the child's file after awaits, without asking the fence of a
  deletion. A DELETE retires the threads of the subtree before it reads the graph it plans
  from, and retiring a thread with an owner waits for the admission, since the driver takes a
  detach only when none is in flight (`driver.rs:518`); the child is then planned. But an owner may
  exit by itself while the admission runs (`driver.rs:558`), and a thread without one is not waited
  for (`registry.rs:1603-1606`). When all the owners in the subtree have gone that way, the plan
  is cut before the child is recorded, and the cascade deletes the parent and
  leaves the child, where `thread_deletion.rs:12` says that nothing is ever orphaned.
  `DriverIsSound` therefore lets a chain of parents end in a deleted thread (that it ends is checked
  and proved), and `DoneMeansDeleted` speaks of the plan.
* **Torn line** (`store.rs:1389`). The index is appended to without looking for a final newline, so
  a record after a torn one is merged with it and neither parses.
* **Amendment and cache** (`store.rs:1508`). A load that read a payload before an amendment may install its
  result after the amendment dropped the cache; the turn is then served unsettled until
  the next append.
* **Lost asks** (`harness.rs:2326`, `session.rs:2860`). An answer taken from the table and refused by a
  full queue is not put back; the exit of a child, and a stop, remove the asks of the
  thread, also those of a child that has been opened since.
* **Forgotten withdrawals** (`session.rs:1947`). The next turn clears them, so an answer taken before and
  queued after is written for an ask of the turn before.
* **Turns without a made-up completion** (`lib.rs:2016`, Codex). When the stream ends, only acknowledged turns
  are completed; a turn of Codex's own, of a compaction, or of a `turn/start` that timed out
  is not, and the thread logs stay open although the specification
  (`specs/giskard-specification.md:2701`) lets a process exit end every thread stream.
  `AckedTurnsEnd` speaks of acknowledged turns.
* **Overwritten turn** (`instance.rs:281`, Codex). The server releases the gate on a log gap
  (`event_forwarder.rs:1350`) and with the owner (`event_forwarder.rs:1280`) although the turn goes on. The
  next start replaces its entry in `active_turns`, so an exit of the process completes only the
  newer turn (`lib.rs:2016`). `AckedTurnIsTracked` and `AckedTurnsEnd` except such a turn by name
  (`givenUp`), the latter only if the worker ends before it has read the turn's own completion.
* **Steering a newer turn** (`instance.rs:778`, Codex). A steer is checked against the acknowledged turn and sent
  with the mapper's native turn, which may be a newer one that was announced.
* **Fatal error over a newer turn** (`instance.rs:533`, Codex). It clears the mapper whatever turn it names, so a
  newer turn cannot be interrupted.
* **Native thread given up** (`instance.rs:321`, Codex). A resume that only timed out is replaced by a new native thread;
  what the old one still sends is discovered as another thread, and its turn stays in the
  mapper. If the server does not keep the new handle (the switch was undone, or the
  caller gone), the thread cannot be opened again by this process: both claim and
  replacement refuse.
* **Event log comment** (`event_log.rs:8`) promises that the loss of a dropped reader is
  reported to the next reader; with another reader live it is not, as the test at
  line 474 intends. `ExactlyAccounted` is therefore stated for readers that do not overlap.

## 6. Proofs

Twenty-three theorems in eight modules, each for every value of the constants. Every one of
them has the shape *initial states, every step, hence always*; what differs is the
invariant that carries it. The invariants were checked with TLC before they
were proved.

`EventLogProofs`, for every cap and every bound:

* `LogCorrect`: `Spec => [](TypeOK /\ RetainedWindow /\ KeptForSomeReader /\
  ReaderAccounting /\ NoLostWakeup)`. The inductive invariant `LogInv` adds
  `Unreported` (the deficit is at most `base`, and zero while a reader is live):
  without it a new reader's start could be negative. Trimming needs the minimum
  of the cursors to exist, which is `MinOfNats`.
* `LossIsReported`: `Spec => []ExactlyAccounted`. The strengthening `Frontier` says
  that what readers were told is an initial interval and what is owed is the
  interval from there to `base`.

`ThreadOwnerProofs`, for every set of calls, every bound and every choice of what may
fail:

* `OwnerCorrect`: `Spec => [](TypeOK /\ GateHasOneHolder)`. The inductive invariant
  `OwnerInv` adds `Stages`: in each stage of the loop which of lease, turn and
  coordinator exist. `GateHasOneHolder` alone is not inductive: `SettleTurn`
  releases the gate, which is right only because the settling turn has the lease.
* `BlockedRetained`: `Spec => BlockedGateIsRetained`, and `PersistedOnce`:
  `Spec => NoTurnPersistedTwice`, from the same invariant.
* `HistoryCorrect`: `Spec => []HistoryIsFaithful`. `HistoryInv` follows a turn's items
  from the harness through the log and the owner's accumulator into the file: the log
  retains a turn's start before its items and its end after them (`LogInOrder`), and what
  was collected with what is still in the log is what was emitted (`Collected`,
  `Complete`), unless the log evicted.
* `AnswersCorrect`: `Spec => []AnswersNameLiveTurns`. The property holds only for
  threads whose turns were all asked for, so the proof has to know that no turn comes to
  be asked for later: the number of turns less the number of starts granted, a
  cardinality, never falls (`CountedStep`). With it, requests, answers and turns are in
  step one by one (`Asked`).

`RequestClaimsProofs`, for every set of requests and responders:

* `LedgerCorrect`: `Spec => []LedgerIsSound`. `LedgerInv` adds that claims are unique,
  that the answer a record shows is the one its claim delivered, and for each request a
  trace of why it is open or closed: the delivery, resolution or response in flight that
  will still change it (`OpenTrace`, `ClosedTrace`). The property speaks of quiet
  requests only; the traces are what quietness exhausts.
* `RevisionsCorrect`: `Spec => RevisionsAreFaithful`, from the types.
* `ViewCorrect`: `Spec => []ViewConverges`. `ViewInv` adds that no publication and no
  view is newer than its record, and that the newest state of each record that is not
  `lost` is shown, on its way, owed by a response that will read it again, or that the record
  is resolved, forgotten by the page, and no message about it is on its way (`LastWord`).
  The last part is what makes forgetting harmless: a page without the record would accept any
  revision.

`ThreadDeletionProofs`, for every forest of threads and any number of requests and
faults:

* `DeletionCorrect`: `Spec => []DeletionIsSound`. `ServiceInv` adds that the lock has one
  holder and that each record follows the program counter of its request; a fence is
  then always somebody's.
* `LeafFirstCorrect`: `Spec => LeafFirst`, and `DoneCorrect`: `Spec => DoneMeansDeleted`.
  `FileInv` says that what a cascade removes is no longer listed (`RemovalUnlists`) and what
  part of its plan is worked off (`PlanIsWorkedOff`). That a plan exists at all
  (`LeafFirstExists`) is an induction over finite sets, written as a minimal
  counterexample because the provers cannot instantiate the library's induction rule.

`ReplacementsProofs`, for any number of publishers, changes and revisions:

* `MailboxCorrect`: `Spec => []MailboxIsSound`. The model keeps no history of the file;
  `OneHistory` says that any two snapshots in circulation, and the file, could have been
  versions of one file in the order of their revisions.
* `RegistersCorrect`: `Spec => FieldsAreRegisters`. Each group of fields of the page
  implements the abstract register `LatestValue`: initial states map to initial states,
  and every step to a write, a jump of the page to a newer written value, or a stutter.
* `ViewsCorrect`: `Spec => []ViewsConverge`. `ViewInv` adds that whatever the page lacks
  is on its way or will be fetched.

`ClaudeSessionProofs`, for any number of calls, children, logs and asks and every length
of the command queue:

* `SessionCorrect`: `Spec => []SessionIsSound`. Its invariant has three layers.
  `Structure`: things come into being in order, one child that was not reaped writes to
  the entry's log, and a call that stops a child has taken its entry away. Without it a
  late `Closed` could hit the log of the next child. `Stream`: the two stream properties.
  `AsksInv`: a command is in one queue; an ask is pending, or one answer to it is on
  its way, and then in the queue of the child that raised it; a child remembers
  what it withdrew while an answer was on its way; what the serving child waits for is
  pending, lost or on its way. Each step is described once by what it may do to a child
  (`Shape`, `Moved`), a call (`Path`) and an ask (`AskPath`), and the layers follow from
  these.
* `WritesWanted`: `Spec => WritesAreWanted`, from `AsksInv`.

`CodexInstanceProofs`, for any number of calls, turns, threads and native threads and
every size of the inbox:

* `CodexCorrect`: `Spec => []CodexIsSound`. The inductive invariant `CodexInv` has these
  parts beside the types and the property's own conjuncts.
  *Calls* (`CallsHold`, `QueuedOnce`, `Waits`, `Frames`): a pending call is in one
  queue or served, the worker serves one at a time, an open made while a start is
  pending is behind it in the queue (`FirstCome`) and so cannot replace the native thread under it, and
  a frame that outlives its request's timeout belongs to a call that was served. A worker that
  waits reads no message, so routes and mapper do not change under it.
  *Routes* (`Bound`): a native thread with a route keeps it, but for the fallback of a
  failed resume.
  *Messages* (`TurnsInOrder`, `Messages`, `Belongs`): what lies in the pipe and in the
  inbox is true of Codex, and a native thread's turns are announced and completed in order.
  *Acknowledged turns* (`AcceptedIsNew`, `CleansUp`): a turn whose answer is
  under way is tracked by nobody yet, and an end whose uploads are still being removed has been written down.
  *The mapper* (`Heard`, `Covered`): while nothing was lost (`Healthy`), an announced turn is
  unread or covered by the mapper, by itself or by a newer turn, and a turn the mapper holds
  is live or its completion is unread; fatal errors are set apart (`Trouble`). Only with this does `MapperIsCurrent`, which speaks of an empty inbox, follow.

  The attempt to prove it corrected the property. It first let an acknowledged turn go
  untracked where the thread's log had been removed. Four calls, more than the run has,
  bring such a log back: the thread is deleted while its turn runs, opened again on a new
  native thread because its resume fails, started, and claimed. `givenUp` names what was
  meant: a thread that was once deleted. Nothing is assumed of the server's gate: a turn whose
  entry the next start takes is in `givenUp` from then on.

`ProjectDriverProofs`, for every finite set of threads, all links, callers and bounds. Three
of the theorems follow from one inductive invariant, `DriverInv`; the forest has its own,
`ForestInv`:

* `DriverCorrect`: `Spec => []DriverIsSound`. The code walks a chain of parents and gives
  up after as many steps as there are threads; a step that changes one file changes
  every walk through it, so the walk itself is no inductive statement. `ChainIsRooted`
  shows by the pigeonhole principle that the walk succeeds exactly when the thread is
  `Rooted`: no set of threads that is closed under parents contains it without a primary
  or deleted thread. Being rooted survives a step that keeps parents or turns threads into roots
  (`RootedCarries`), and a removal turns a thread into a root. For the write of a child's file,
  `ForestInv` adds `Hanging`: the parent found valid by the read is still known, deleted or not, and its
  chain never comes to pass the child's own thread, as only one admission is in flight. What the walk and the pass over the deferred queue compute
  (`ChainEquation`, `KeptFacts`) is proved by induction on their length, stated for the set
  of numbers that have the property (`NumberInduction`).
* `LinksCorrect`: `Spec => []OwedLinkIsHeld`. `OwedLinkIsHeld` is not inductive: the
  link that holds the child could be a caller's, which goes with its answer.
  `OwedIsKept` asks for one that nobody waits for, and `ParentsExist` says that the parent a held
  link names has a file unless it was deleted, so that what `start_deferred` drops was lost with its
  parent.
* `OwnersCorrect`: `Spec => []OwnersMatchThreads`. `KindsAgree` extends the property to
  everything that will become an owner: attaches in the channel and parked, and the
  admission in flight; and only classified threads are detached while the project lives,
  since an orphan's parked attach would carry a kind that an admission may change. For the deleted
  project, `ProjectAsks` (the deletion has one request outstanding at most, of the kind
  its state asks for) and `Releases` (once the harness has stopped, an owner is still to be
  released or its release is under way) leave nothing when the last release was answered.
* `CallersCorrect`: `Spec => []CallerIsHeld`, which is inductive with the types: each
  command that leaves the channel is answered or moves to the admission, the parked
  attaches or the waiters of its owner.

The assumptions are the named `ASSUME`s of the modules: bounds are naturals, capacities
positive, flags Boolean, sets of calls, requests, responders, publishers, threads and
asks finite where the source's are, in `ThreadDeletion` that a parent is older
than its children, and in `CodexInstance` that names of threads and native threads are no numbers
(turns are) and that there are at least as many thread identities as
native threads and calls together: the code draws UUIDs, so a fresh one always
exists. Nothing else is assumed.

Only model-checked:

* what rests on fairness, which is beyond the prover: `GateIsReleased`,
  `IntentsAnswered`, `ClaimsSettle`, `PageCatchesUp`, `ReaderProgress`, `CascadeLetsGo`,
  `StreamEnds`, `CallsReturn`, `AckedTurnsEnd` and the other leads-to properties;
* `Subscription` (`PageShowsThread`, `ComposerFollowsGate`, `CursorShown`,
  `KeepsCompletedTurns`): the page is built by the library's folds and filters over
  sequences of rows (`FoldLeft`, `SelectSeq`), whose recursive definitions the provers do not
  unfold;
* `HistoryStore` (`CommittedTurnsSurvive`, `ReadsAreCurrent`, `CountedOnce`,
  `StoreIsSound`), whose operators fold the records of a history in the same way.

## 7. Not modelled

What the plan still lists: archiving (`routes.rs:1870` checks that no turn is live, awaits, and then
detaches the owner; `ThreadOwner`'s detach shows what becomes of a turn that starts in between)
and the provider switch, running tasks, outputs and diffs of the runtime, the sub-agent
routes of the Claude adapter, the goals and queue controls and the context restores of the Codex adapter,
the harness creation and task tracker of the project lifecycle. The Codex worker prefers
messages to commands, so endless traffic could delay a command without bound; Codex's
turns are bounded in the model, which does not show it. Cycles over several mutexes are out of reach of models that take a critical section
as one step.

And for good: child process I/O, file formats and paths, git worktrees and diff
parsing, cryptography of authentication, wire types, presentation in the browser,
logging.

The map covers a small share of the repository's lines, and will go on doing so. Almost
half of the Rust lines are tests inside the source files. Most of what remains is
without a state of its own: the two adapters' mappers turn provider messages into
items field by field (some 16 000 lines with their tests), `app.js` and the style sheet
are presentation, and the routes and persisted types copy and validate fields. A model
of those would restate them. What the modules map is the code
that owns state shared between tasks, processes or restarts.
