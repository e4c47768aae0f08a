# Verification of yt-dls

TLA+ models of the yt-dls server (a Go server that runs yt-dlp jobs for a web
client), TLC runs on small instances, and TLAPS proofs for all instances. Paths
are relative to the repository, which is at `src/`; Go files named without a directory are under
`internal/`. `PROJECT.json` maps every definition to the lines it models and every
hazard to the line where it bites.

## 1. The system

### Components

| Component | State | Operations | What makes it correct |
|---|---|---|---|
| **Job queue** `queue/queue.go` | the FIFO, a one-token `wake` channel, a `space` channel replaced on each removal | `Enqueue`, `EnqueueWait`, `Next`, `RemoveQueued` | capacity kept; no lost wake-up on either side; a failed call leaves nothing queued |
| **Pool and worker** `worker/pool.go`, `worker/worker.go` | semaphore, wait group, the job in the dispatcher's hand, each job's goroutine | `dispatchLoop`, `Worker.Run` with its two contexts, `cleanupLoop`, `Stop` | slots neither lost nor exceeded; a cancelled job never starts; the first terminal status stays; every job ends; `Stop` returns |
| **Records and store** `store/progress.go` | map of `DownloadProgress`, each with version, status, context and `FilesMu` | `Set`, `Update`, `Delete`, `SnapshotAll`, `CleanupOldDownloads` | versions grow with each update; removal excludes whoever owns the files |
| **Admission and requests** `handlers/handler_download.go`, `handler_status.go` | `App.workMu`, `App.admissions` (idempotency keys) | start with rollback, cancel, remove, list | a repeated request makes no second job; a refused one leaves no record |
| **Playlist batches** `handlers/handler_batch.go` | `App.batchWG`, the parent's record, per batch an admission and a watching goroutine | `HandleStartBatch`, `runBatch`, `cancelRecord`, `App.Close` | a batch ends when its children have; its verdict is theirs; cancellation clears the queue; `Close` returns |
| **History file** `store/history.go` | `dirty` token, `persistErr`, `history.json` | `persistLoop`, `Flush`, `TrimHistory`, `load` | what is not on disk is on its way or reported; a file written is a file that loads; an orderly exit keeps every end |
| **Event bus and SSE gateway** `bus/bus.go`, `sse/gateway.go`, `handlers/handler_sse.go` | bounded subscriber buffer, connections and their bounded channels, version map and throttle | `Publish`, `listenLoop`, `broadcast`, `ServeHTTP`, `Close` | no send on a closed channel; no end of a job lost by overflow, throttle, eviction or snapshot order |
| **Result files** `handlers/handler_results.go`, `handler_files.go` | files of a job, `FilesMu`, preview tokens | download, preview, cleanup | removal alone in the directory; a cleanup stopped half-way leaves a consistent record |
| **Progress lines** `worker/progress.go`, `RecalculateAggregate` and `MarkIncompleteStreams` of `store/progress.go` | per-stream figures, the video and audio groups, the record's totals | apply a line, mark what is incomplete, restore after a restart | no early 100 %; a finished format's bytes stay counted; an ended record shows nothing under way |
| **Child processes** `process/` | a process group per call, a deadline, an output limit | `Output`, `Run` | ends with its context; leaves no descendant |
| **Network guard** `network/guard.go` | the table of tunnels, two connections and two copies per tunnel | `connect`, `Close` | no tunnel outlives `Close`; a live one is not cut; handlers return |
| **Metadata requests** `handlers/handler_info.go` | `InfoSlots`, a counting semaphore | query yt-dlp | at most its capacity at once; every request answered |
| **Health report** `handlers/handler_health.go`, `runtime_health.go` | a mutex and a report cached for ten seconds | probe programs | at most one probe at once; every request answered |
| **Web client** `web/src/features/downloads/useDownloads.js` | the list shown, the ids polled | poll, list | an old answer never hides a new one; ends get shown |

Stateless, or without behaviour at run time: command building and options,
configuration, validation, redaction, the router, build
scripts, the embedded pages, the API contract.

### How they interact

A request sets a record in the store (`Set`), then calls `Enqueue`, with a rollback if
the queue is full. The dispatcher takes the job with `Queue.Next`, takes a slot,
and starts a goroutine that owns the job's directory (`FilesMu.RLock`) while
`Worker.Run` drives yt-dlp and updates the record. Requests cancel (cancel the context,
take the job out of the queue, mark the record) and remove (under `FilesMu.TryLock`).
A batch adds an admission goroutine, which waits for queue capacity, and
`runBatch`, which polls the children's records every half second. Every store
change leaves a token for `persistLoop`, which writes the file every half
second, and publishes on the bus, which the gateway's loop broadcasts to
connections; the web client, which does not listen to that stream, polls instead. yt-dlp's traffic goes through
the network guard; requests for metadata and health run programs of their own. On shutdown `main.go:105-123` closes the gateway, the HTTP server, the
application (batches), the pool, the store and the network guard, in this order.

### What is hard here

Most operations are several short critical sections of different locks, and
handlers look at state (a context, a status, a snapshot) in one of them and act on it
in a later one. Channels are used as tokens and as broadcasts. Buffers drop
what does not fit. Five sources race to end a job. The file lags behind memory
and may fail to be written. Shutdown may find everything at any step. A tunnel
is known to two goroutines, a table and two far ends that hang up when they like. Calls of the web
client overlap and are answered in any order. The
40 hazards in `PROJECT.json` name the places.

## 2. The modules

| Module | Models | State that corresponds |
|---|---|---|
| `BoundedFIFO` | what the queue promises: put, take, withdraw on a bounded buffer, the head taken eventually | `buf`, `closed` |
| `JobQueue` | `queue.go`, one action per lock section or channel operation | `items` = `q.items`, `wake` = `q.wake`, `stale` = the waiters whose `space` channel is closed, `call` and `reader` = where the callers and `Next` stand |
| `JobPool` | what the rest of the server relies on: jobs are created, queued, held, run and return; statuses are set by steps of anyone; terminal ones stay | `status`, `queue`, `held`, `running`, `returned` |
| `Downloads` | pool, dispatcher, worker, single admission, cancel/remove/fetch, the two trims, `FilesMu` | `dispatcher`, `sem`, `run[j]` = where the job's goroutine stands, `ctxDone` and `runDone` = its two contexts, `req[c]` = where a request stands |
| `Batches` | batch admission, `runBatch`, requests on parents and children, `App.Close`, on top of `JobPool` | `admitter[b]`, `watch[b]` and `round[b]` = the two goroutines, `closing` |
| `EventStream` | publishers, bus, `listenLoop`, `broadcast`, `ServeHTTP`, `Gateway.Close`, the reader | `bus`, `hand`, `frames[s]`, `registered`, `shut`, `seenVersions`, `view[s]` |
| `History` | admission limits and keys, `changed()`, `persistLoop`, `Flush`, `TrimHistory`, exit, crash, restart | `mem`, `disk`, `token`, `dirty`, `loop`, `toRead`, `saved`, `failing` |
| `Files` | one job's directory and links: collection, list, `HandleResultFile`, preview, cleanup, removal, changes by hand | `dir`, `paths` and `files` = `dp.Paths` and `dp.Files`, `request[c]` = where a handler stands and what it has read and removed, `preview[c]` = the token a client has |
| `Progress` | lines with and without a format, the aggregate, every way a record ends, restart | `streams`, `group` = `VideoProgress` and `AudioProgress`, `combined`, `figures`, `status`, `running` |
| `Guard` | `connect`, its forward goroutine, `io.Copy`, `Close`, far ends that talk, fall silent or go | `tunnels`, `open`, `handler[t]`, `copy[<<t, d>>]`, `peer`, `closed`, `serving` |
| `Subprocesses` | `process.Output` under `HandleInfo` and `HandleHealth` | `program[h]` = the process group, `slots` = `InfoSlots`, `healthMu`, `cached`, `ctxDone` and `cut` = the two contexts of a call |
| `PollingPage` | `useDownloads`: lists and polls that overlap, fail and are answered in any order | `shown`, `ids` = `downloads` and `downloadIds` (a set: the first `PollLimit` in the order of the list are the newest), `call[c]` = a call and its answer, `server` |
| `MC...` | instances for TLC, and the sums described below | |
| `..._proofs`, `SequenceFacts` | theorems and the lemmas on sequences they need | |

**Composition.** `Downloads` implements `JobPool` (a property of the run
`downloads_safety`), and `Batches` EXTENDS `JobPool`: what is checked of
batches rests on the worker only through that refinement. `Downloads` treats `Queue`
as an atomic bounded sequence, which is what `JobQueue` is shown to implement.
`Downloads`, `EventStream`, `History` and `Files` each keep of a record what their question
needs: its status and contexts; its versions and end as published; its versions and
end as written; its result files.

**Sums.** Some modules share no state, so checking them together would only
multiply their states. `MCServices` (`JobQueue`, `Guard`, `Subprocesses` twice, once for metadata and once for
health, and `History`), `MCRecord` (`Files`, `Progress`) and `MCWatchers`
(`EventStream`, `PollingPage`) choose in the initial state which part a behaviour explores
(`part`); the others rest in a state where no fair step of theirs is enabled. Each part is
explored in full, in one run. The definitions of `Guard` that every module has (`GuardInit`, `GuardNext`...)
are prefixed because `MCServices` extends it beside `JobQueue`.

**Abstractions.** A job is a number in admission order and is used once
(ids are random, `newJobID`). Paths, titles, options, log lines and figures are
left out; figures are in `Progress` only, with byte counts of three bits instead of sixty-four and whole percentages; `collectResults` is one fact per job in `Downloads` and a list of files in `Files`. The rate of progress is
nondeterministic, so is the outcome of a process: any end that `process.Run` can
report in the contexts' state. Timers are enabled at any time. `persistErr` is
a Boolean. `Store.Set`/`Delete` of `History` signal `changed()` in the same
step, since nothing lies between; `Update` and its signal are two steps.

**Alternatives in the modules.** Some modules hold, before a definition, a variant
of it that a plausible mistake would give (`HasRoomOffByOne`, `WakeUnbuffered`,
`BroadcastKeepingFull`...). `PROJECT.json` lists them under "mutants": replacing
the definition by its variant violates the property named, so each
property depends on the code it is about.

## 3. The runs

| Run | Shows |
|---|---|
| `downloads_safety` | two jobs, one slot, one place, a request of any kind at a time, trims and shutdown at any moment: `FilesExclusive`, `FirstTerminalStays`, `CompletedHasResults`, `SparedJobNeverRuns`, refinement of `JobPool` |
| `downloads_progress` | under fairness: `JobsEnd`, `StopReturns` |
| `downloads_removal` | *violation*: see below |
| `batches_safety` | a batch of two, one place: `ReturnedMeansEnded`, `VerdictIsFair`, `CancelledBatchLeavesQueue`, `ClosedMeansQuiet` |
| `batches_progress` | a batch of one beside a single job, under fairness: `BatchReturns`, `CloseReturns` |
| `batches_cancelled`, `batches_children` | *violations*: see below |
| `services` | *queue*: two waiting callers and a direct one, one place: `NoLostWakeup`, `ParkedMeansFull`, `ErrorLeavesNothing`, refinement of `BoundedFIFO` with its progress (`ImplementsBuffer`), waiters return, those cancelled too (`WaiterReturns`); *guard*: one tunnel, of which all steps race with each other and with `Close`: `NothingOutlives`, `LiveTunnelsStay`, `TunnelsEnd`; *metadata* and *health*: two requests, one slot, two probes: `TreesAreBounded`, `RequestsAnswered`; *history*: one job, a crash or exit and a restart: `EndSaved` |
| `record` | *files*: one job's worker, two clients, people who change a file: `PreviewedOnly`, `LinksAreLive`, `SentIsListed`; *figures*: two formats, lines with and without one: `NoEarlyHundred`, `FinishedBytesCounted`, `EndedShowsEnd` |
| `watchers` | *stream*: one job, one connection, overflowing buffers: `NoSendOnClosed`, `NoEndLost`, `EndShown`, `StreamsEnd`; *page*: two records, one polled at a time, two calls: `ActiveIsPolled`, `PolledEndIsShown` |
| `history` | a single job and a batch of one, or two single jobs, under two keys, failing writes, a crash or exit and a restart: `LagIsOwed`, `OneJobPerKey`, `LoadAccepts`, `ExitSavesEnds` |
| `page_stale` | *violation*: see below |

Every property has a mutant. `PreviewedOnly`, `FirstTerminalStays` and the refinements restrict steps,
not states.

### Disagreements between the code and what it says

- `downloads_removal`: `progress.go:66` says that `FilesMu` excludes history removal
  while a worker owns the directory; `TrimHistory` does not take it, and a cancelled
  job is terminal before its worker has unwound.
- `batches_cancelled`: `worker.go:120` says that the first terminal transition
  stays authoritative; `runBatch` (`handler_batch.go:166-185`) writes the parent's status
  without testing it, over a cancellation that came after it had read its context.
- `batches_children`: `README.md:39` says that finished children remain available
  until the batch finishes; children are in the store before the parent that
  protects them.
- `page_stale`: `README.md:45` says that downloads use live SSE updates, version-aware resync and a polling
  fallback; the web client only polls and lists, compares no versions, and may show a finished job as running for
  good when an older poll is applied after a newer list. `ActiveIsPolled` is what does hold: a
  record that the server still runs stays polled.

Seen while modelling, with nothing in the repository that says otherwise: a completed record may keep
stream entries of status "downloading" and shows as received the whole of an estimate that was too large (`worker.go`, the clean exit);
byte sums near 2^63 wrap, after which the totals (not the percentage) are wrong; when one direction of a tunnel ends,
the other is ended too, so a half-closed connection is cut (`guard.go:208-210`); a forward copy that the host never takes
holds its handler until the guard closes; a health report fails with the
context of the client that asked for it, and is then cached for the others.

### Bounds, and why they are enough

Every bound is a CONSTANT, commented at its declaration and in the `.cfg`.

- *Capacities of one* (`Capacity`, `QueueCapacity`, `MaxConcurrent`,
  `FrameCapacity`, `SeenLimit`, `HistoryLimit`): each limit is reached, exceeded
  and left again with the fewest jobs, and each limit is compared with `<` or
  `<=` only, so one is where an off-by-one shows.
- *Two jobs* in `Downloads` make one wait for the other at the queue, at the slot
  and for the trim; *three callers* in `JobQueue` make a direct caller overtake two
  waiters woken by the same broadcast. Two clients in
  `files` are one that cleans up and one that fetches, previews, cleans up or removes;
  clients are symmetric. `FilesExclusive` is run with one client beside the worker and
  proved for any number.
- In the files part of `record`, two contents let one file change between preview and cleanup, and two results let one be removed
  and the other stay; people change one of them (`Meddled`), so that both kinds are there. In its figures part, two formats make one
  finish while the other is under way or unseen; sizes 0, 1 and the largest
  let a total be unknown, exceeded and wrapped.
- One tunnel in `services`: tunnels share only the table and the `closed` flag, and the
  safety properties are proved for any number. Two requests of either kind make one wait, or be refused, because of the
  other; two probes make one follow another.
- In the page part of `watchers`, two records with `PollLimit = 1` let one stand behind the other, and two calls are enough for one to overtake
  another.
- *A batch of two* has one child running or queued while the other waits for
  capacity. For liveness, a batch of one beside a single job has the same wait, at
  a thirtieth of the states.
- `BusCapacity = 2` lets a discarded event be followed by another; `MaxVersion = 4` gives
  a job an update before, at and after its end, and one after its last snapshot.
- `History`: room for two records, one of them finished, and two keys give admission, removal and readmission
  under a key; one restart after a crash or an exit shows what a restart
  finds; with a batch, `RecordLimit = 2` makes admission refuse. What
  is eventually saved (`EndSaved`) is a matter of one record and is run with one, with a restart.
- The guards that use `MaxVersion` and `MaxRestarts` stop counters that the
  code lets grow.

Deadlock is not checked: the system may stop for good, with every job done
and nothing requested, or shut down.

### Fairness, and why the code justifies it

Weak fairness of each goroutine's own steps: the Go scheduler runs what can
run, and a `select` with a ready case takes one. Steps that wait for a condition which others can take
away again (a place in the queue, `FilesMu`) are within larger actions that stay
enabled, or the wait is a channel that stays closed. A run of yt-dlp ends, because
its deadline kills it (`worker.go`, `process.go`). `persistLoop`'s ticker fires
again, so its case is taken. A received request is served to its end. In `Batches`
that a running job returns is `JobsEnd` of `Downloads`. A reader told to ask for the list
again does so. In `Guard`, the handlers, the copies that can end and `Close` once begun go on; that far ends send, take, hang up or
that anyone connects is not assumed. In `Subprocesses`, handlers and deadlines go on, a killed group dies, `Wait` returns (its delay of
one second ends the wait for pipes), and a waiter gets the mutex of the health report (strong fairness: a
`sync.Mutex` hands itself over to a waiter that has starved for a millisecond); a program need not exit by itself. In `PollingPage`, every call ends, because the client
gives it up after thirty seconds, and polls are, again and again, sent, answered and received (strong fairness: the interval ticks on, and a poll competes with other
calls); no list is ever assumed. Nothing is assumed of clients, crashes, disk errors,
trims or shutdown.

## 4. The proofs

The theorems are checked by TLAPS for every value of the constants that satisfies the
ASSUMEs of the modules: finite sets of jobs, callers, files and formats, positive limits and byte counts, batches whose
children are jobs of their own, requests that are of one kind. An ASSUME is evaluated by TLC in the
runs of the modules that extend its module. One proof module covers what one MC module joins; a theorem
speaks of the specification of the part it is about. Most strengthenings below were first checked by TLC on
the instance of the run. Theorems bear the property's name followed by `Correct`. Every component's
types are proved; so is every invariant and every action property of a passing run.

Three theorems say how far a refuted promise does hold: `OnlyTrimsTakeOwnedRecords` (`downloads_removal`),
`OnlyEarlierRoundsOverwrite` (`batches_cancelled`) and `RunningIsPolledInOrder` (`page_stale`).

- **`JobQueue_proofs`**: types; the inductive `Inv` = `Bounded` and
  `NoLostWakeup` and `ParkedMeansFull` and `ErrorLeavesNothing`, inductive together
  with the types. `QueueImplementsBuffer`: initial states and steps map to
  those of `BoundedFIFO` (its progress is left to TLC).
- **`Downloads_proofs`**: `Basic` = `TypeOK`, plus *placed* jobs (a queued job, the
  job held and the jobs of goroutines are distinct, which makes handing a job on
  change one place only), plus `SlotCount`: the semaphore counts exactly the
  goroutines that own a slot. `SlotsBound` is a corollary. `RunInv` says of each
  control point of `Worker.Run` what the contexts and status may be; it is needed because
  whether results were collected and what the status becomes are decided by two
  looks at contexts (`worker.go:106`, `119-149`), and it gives
  `CompletedHasResults` and `FirstTerminalStays`. `FilesExclusive` needs `Basic` to know that a
  request in its critical section is of a kind that locks. `SparedJobNeverRuns` follows from
  `GoneForGood`: a removed record never comes back. The invariance lemmas are stated for
  the steps of `Downloads` with any set of protected records, so that they
  cover a trim that spares the children of batches too.
  `DownloadsImplementsPool` is the refinement of `JobPool`, with one lemma per group of actions.
  `JobPool` lets a job return or a record go only when the job has ended, while the code decides that steps earlier:
  `EndedInv` carries it over (whoever is about to return, to delete or to trim has seen a terminal status, and
  terminal statuses stay; a job in the pool without a record has ended). With `FilesExclusive` it also gives
  `OnlyTrimsTakeOwnedRecords`: no other removal takes a record from under the worker that owns the files.
- **`Batches_proofs`**: `TypeInv` = `TypeOK`, the ranges of the counters at each control point, and the kinds of the
  requests. A step of the pool is summed up in what batches depend on: terminal statuses stay, none is withdrawn, contexts stay cancelled
  (`StatusStep`). `RoundInv` says of a round what it has concluded from the children it has *passed* (`Seen`): if it
  has counted all of them as finished, they have ended; if it has noted a failure, one of them shows it. With `VerdictInv` (the
  status of a batch whose loop is over is its last round's verdict, and nobody changes it) it gives `ReturnedMeansEnded` and
  `VerdictIsFair`. A terminal status of a batch is changed by its own report only (`EndedParentStep`), and a report of a round
  that saw the cancelled context says "cancelled": `OnlyEarlierRoundsOverwrite`. `CancelledBatchLeavesQueue` needs that no job is queued twice and `QueueInv`: a round that saw the cancelled context has taken each child
  it has passed out of the queue, and the admission goroutine adds no more. `ClosedMeansQuiet` rests on `LifeInv` (the
  watching goroutine outlives the admitting one) and `CloseInv` (nothing is being admitted once `App.Close` has begun).
- **`History_proofs`**: `KeyInv` relates the admissions, the key each job was given and the
  request that holds `App.workMu`: a key other than the one being admitted names the record that has it, so two records never
  share one. `Room` counts: the records kept, plus those that the admission under way has checked room for and not yet
  set, are within the limit, and so are a copy and the file, each of which was once a set of records kept; hence `LoadAccepts`. `LagInv`
  adds to `LagIsOwed` that, while a flush writes, a record that was read and has changed since is owed a signal
  or has left its token. `EndInv` says where shutdown stands, that no job ends after the last flush has begun to read it, and so gives `ExitSavesEnds`.
- **`Record_proofs`**, files: `IInv` = what the proofs need of the types (`Shapes`), `Alone` (who
  holds `FilesMu` for writing does so alone, after the worker) and `Confirmed` (from the
  comparison of the tokens on, the walk of a cleanup is its client's preview, and the file
  about to be removed is unchanged), which give `PreviewedOnly`. With `Listed` (results are
  collected once, before any link exists) follow the types. `LinksAreLive` holds only between
  cleanups: its inductive form `Live` excuses the files a cleanup has removed and not yet
  recorded, and `GoneIn` says that they are recorded before the lock is let go. `SentIsListed`
  needs `LinksAgree` (a place of the list keeps what a link was made of, or is emptied) and
  `Apart` (no writer beside a reader). The smallest file left to a walk exists because `<` on
  the naturals is well-founded.
- **`Record_proofs`**, figures, for any progress line, of which those that TLC
  explores are some (`ExploredAreFigures`). `EndedShowsEnd` is inductive with the shapes of streams and groups, because every way to end
  marks all of them (`MarkedStreams`, `MarkedGroups`) and no line is taken after it. `NoEarlyHundred` and
  `FinishedBytesCounted` are about sums over all formats seen, so they begin with what `SumFunctionOnSet` yields for any
  finite set: that one element more adds its value (`SumAdds`), that parts stay below the whole (`SumOfPartBelow`), that a sum of
  percentages of which one is below a hundred is below a hundred times their number (`SumBelowHundreds`). An
  induction cannot be cited (see below), so each assumes a smallest set that breaks it and takes an element out of it (`SmallestSet`, from the
  well-foundedness of `<` on the naturals). The inductive invariant is `SumInv`: types, `Plain` (only lines that name their format
  make streams), `Untouched` (until there are streams the groups are in range and those that wait are at nought: groups rebuilt
  from streams may wrap, those set by a line may not), `Counted` (with streams, the record and its groups are the sums of
  what their streams have received) and `NoEarlyHundred`.
- **`Watchers_proofs`**, stream: `Typed`; `Owned`: a connection on the list is
  served by a handler and its channel is open, which gives `NoSendOnClosed`;
  `Versions`: no event, frame or view is ahead of its record; on top of these
  the inductive form of `NoEndLost`, with one lemma per place an update passes
  through: the publisher, the bus, the loop's hand, the connection's channel.
- **`Watchers_proofs`**, page: `ActiveIsPolled` needs `AnswersFit`: an answer under way that says of a record that it has
  ended stays true, however old it is when applied. That is what the page loses in the opposite direction (`page_stale`), and
  what it keeps when calls do not overlap: `InOrder` says that an answer to a poll is then about records still polled.
- **`Services_proofs`**, guard: `Sound(t)` says where a tunnel's entry in the table, its connections and its copies are at
  each point of its handler: the table holds exactly the registered tunnels, and once the guard is closed none of
  their connections is open, which with "a handler that has left has closed both" gives `NothingOutlives`. `LiveTunnelsStay` needs
  `Alive`: while both sides talk and the guard is open, no copy has ended. `Sound` speaks of one tunnel only, so the proof has one
  lemma for the tunnel that steps and one (`OthersUntouched`) for all others.
- **`Services_proofs`**, programs: `SlotsCounted`: the semaphore counts exactly the requests between admission and answer, which
  also makes its type hold (no slot is released that was not taken). With `ProberHoldsMutex` and `AliveInOutput` (a group is alive only
  inside the call that started it) follows `TreesAreBounded`. It needs that no request is of both kinds
  (`HandlersAssumption` of `MCServices`).
- **`SequenceFacts`**: ranges and distinctness under `Append`, `Tail` and removal.

Only model-checked, and why: every liveness property (`JobsEnd`, `StopReturns`, `BatchReturns`, `CloseReturns`, `WaiterReturns`,
`TunnelsEnd`, `RequestsAnswered`, `EndSaved`, `EndShown`, `StreamsEnd`, `PolledEndIsShown`) and the progress part of
`ImplementsBuffer`, since fairness and ENABLED are out of the prover's reach. The same holds of induction theorems, which take an operator
as a parameter; the sums above do without them.

No run repeats a type invariant that is proved.

## 5. What is not modelled, and why

- **Command building, options, configuration, validation, redaction**: pure,
  sequential translations, tested by tables.
- **Router**: middleware without state. Of health and metadata the locks, slots, deadlines and
  programs are in `Subprocesses`; what a report says and how yt-dlp's JSON is reshaped is not.
- **The job objects of Windows** (`process/proc_windows.go`), and `Lines`, which cuts a program's output into lines.
- **Plain HTTP requests through the guard, and its address policy**: one `RoundTrip` of the library, and a
  filter over address prefixes.
- **The ring of log lines**, speeds, remaining times and file names of a record: shown, never read back.
- **The web client's forms, settings and pages.** `PollingPage` lists all records; the code's limit of 200 is left out.
- **Changes by hand between a cleanup's last look at a file and its removal** (`handler_files.go:253-258`):
  no program can exclude them, and `ChangeByHand` leaves them out.
- **Symbolic links and foreign directories** (`openOwnedDirectory`): one step of `Files` that
  refuses the request at any time.
- **SSE heartbeats**: they change nothing but the time at which a dead connection is
  noticed, which `Disconnect` covers at any time.
- **Requests that outlive `server.Shutdown`'s five seconds**: in `History` they may
  still update ended records; elsewhere requests end before `App.Close`.
- **Records copied by a flush while others change**: the copies are one by one in
  `History`; that a parent and its children may be from different moments has no
  promise to check it against.

## 6. Plan

Done, in this order, most important behaviour first: `BoundedFIFO`, `JobQueue`
and its proofs; `JobPool`, `Downloads` and its proofs; `Batches`; `EventStream`
and its proofs; `History`; `Files` and its proofs; `Progress`; `Guard` and its proofs; `PollingPage`; `Subprocesses`; the
proofs of `Batches`, `History`, `Subprocesses` and `PollingPage`, that `Downloads` implements `JobPool`, the proofs of
`Progress` with the sums they need, and what holds of the promises the violations refute.

Next modules: a composition of `History` and `EventStream` on versions that a crash sets back
(`history.go:92`), and restarts in `Files` (`handler_files.go:251`). What remains beyond these is pure translation (section 5).

Next theorems: what holds of `ChildrenStay` (a child is lost to an active batch only through a removal accepted before the
parent was set), once `Batches` also has the trims; the refinement of an event stream that forgets nothing by `EventStream`.
