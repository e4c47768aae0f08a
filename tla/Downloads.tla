------------------------------- MODULE Downloads -------------------------------
(***************************************************************************)
(* The life of a download: its record in the progress store, its place in  *)
(* the job queue, the dispatcher and worker slots of the pool, one run of   *)
(* yt-dlp, and what HTTP requests and the history cleanup do to it in the   *)
(* meantime.                                                               *)
(*                                                                         *)
(* A record is an object: the goroutines that have looked it up keep using *)
(* it after ProgressStore.Delete has taken it out of the map.  So "status" *)
(* and "ctxDone" belong to the object and "stored" says which are mapped.  *)
(*                                                                         *)
(* One action is one critical section (one DownloadProgress.Update, one    *)
(* queue operation, one lock) or one blocking point.  The queue is taken   *)
(* at the level of BoundedFIFO, which JobQueue implements.                 *)
(***************************************************************************)
EXTENDS Naturals, Sequences, SequencesExt, FiniteSets

CONSTANTS
  Jobs,            \* download records, numbered in the order of QueuedAt
  Clients,         \* HTTP requests that may be in flight together
  RequestKinds,    \* bound: which requests an instance explores
  MaxConcurrent,   \* cfg.MaxConcurrentDownloads, the capacity of Pool.sem
  QueueCapacity,   \* capacity of the pool's queue
  HistoryLimit     \* the limit TrimHistory is called with

ASSUME DownloadsAssumption ==
  /\ Jobs \subseteq Nat \ {0}
  /\ IsFiniteSet(Jobs)
  /\ RequestKinds \subseteq {"cancel", "delete", "fetch"}
  /\ {MaxConcurrent, QueueCapacity} \subseteq Nat \ {0}
  /\ HistoryLimit \in Nat

VARIABLES
  status,      \* DownloadProgress.Status of each record, "none" before it exists
  stored,      \* the records in ProgressStore.data
  ctxDone,     \* the records whose context has been cancelled
  admitting,   \* the record HandleStartDownload has set and not yet enqueued
  queue,       \* the jobs waiting for the dispatcher
  dispatcher,  \* where Pool.dispatchLoop stands, and the job it holds
  sem,         \* tokens in Pool.sem
  poolDone,    \* Pool.ctx is cancelled
  run,         \* where each job's goroutine stands in Worker.Run
  timeout,     \* what has ended the run's timeoutCtx, if anything
  outcome,     \* what process.Run has returned
  collected,   \* the jobs whose result files have been collected
  req,         \* the HTTP request each client has in flight
  trimming     \* the records TrimHistory has chosen and not yet deleted

recordVars == <<status, stored, ctxDone, collected>>
poolVars == <<queue, dispatcher, sem, poolDone>>
workerVars == <<run, timeout, outcome>>
vars == <<recordVars, poolVars, workerVars, admitting, req, trimming>>

--------------------------------------------------------------------------------
NoJob == 0

Terminal == {"completed", "failed", "cancelled"}

Live ==
  {"waiting_for_capacity", "queued", "starting", "preparing", "downloading",
   "processing"}

(* Worker.Run, from the goroutine's start to its return. *)
Entering == {"spawned", "found"}
Owning ==
  {"owning", "checked", "started", "launching", "running", "exited", "reporting",
   "finished"}
Active == Entering \cup Owning

Idle == [op |-> "none", job |-> NoJob, at |-> "idle"]

Requests ==
  {Idle}
    \cup [op: {"cancel"}, job: Jobs, at: {"got", "cancelled", "dequeued"}]
    \cup [op: {"delete"}, job: Jobs, at: {"checked", "locked", "cancelled", "dequeued"}]
    \cup [op: {"fetch"}, job: Jobs, at: {"got", "reading"}]

TypeOK ==
  /\ status \in [Jobs -> {"none"} \cup Live \cup Terminal]
  /\ stored \subseteq Jobs
  /\ ctxDone \subseteq Jobs
  /\ admitting \in Jobs \cup {NoJob}
  /\ queue \in Seq(Jobs)
  /\ dispatcher \in [at: {"entering", "popping", "parked", "slot", "stopped"},
                     job: Jobs \cup {NoJob}]
  /\ sem \in Nat
  /\ poolDone \in BOOLEAN
  /\ run \in [Jobs -> {"none", "done"} \cup Active]
  /\ timeout \in [Jobs -> {"live", "cancelled", "deadline", "overflow"}]
  /\ outcome \in [Jobs -> {"none", "clean", "error"}]
  /\ collected \subseteq Jobs
  /\ req \in [Clients -> Requests]
  /\ trimming \subseteq Jobs

Init ==
  /\ status = [j \in Jobs |-> "none"]
  /\ stored = {}
  /\ ctxDone = {}
  /\ admitting = NoJob
  /\ queue = << >>
  /\ dispatcher = [at |-> "entering", job |-> NoJob]
  /\ sem = 0
  /\ poolDone = FALSE
  /\ run = [j \in Jobs |-> "none"]
  /\ timeout = [j \in Jobs |-> "live"]
  /\ outcome = [j \in Jobs |-> "none"]
  /\ collected = {}
  /\ req = [c \in Clients |-> Idle]
  /\ trimming = {}

--------------------------------------------------------------------------------
(* Building blocks *)

Queued == ToSet(queue)

(* DownloadProgress.Update with the guard nearly every caller has: a record
   that has reached a terminal status keeps it. *)
SetUnlessTerminal(j, s) ==
  status' = IF status[j] \in Terminal THEN status ELSE [status EXCEPT ![j] = s]

(* The goroutine of job j moves on in Worker.Run. *)
Goto(j, from, to) ==
  /\ run[j] = from
  /\ run' = [run EXCEPT ![j] = to]

(* Client c sends a request on job j, which Store.Get finds. *)
Begin(c, op, j, at) ==
  /\ op \in RequestKinds
  /\ req[c] = Idle /\ j \in stored
  /\ req' = [req EXCEPT ![c] = [op |-> op, job |-> j, at |-> at]]

(* The request moves on, or is answered. *)
Advance(c, op, from, to) ==
  /\ req[c].op = op /\ req[c].at = from
  /\ req' = [req EXCEPT ![c].at = to]

Done(c, op, from) ==
  /\ req[c].op = op /\ req[c].at = from
  /\ req' = [req EXCEPT ![c] = Idle]

(* FilesMu: workers and file responses read, only a deletion writes. *)
FileReaders(j) ==
  {c \in Clients : req[c].op = "fetch" /\ req[c].job = j /\ req[c].at = "reading"}

HoldsFiles(c, j) ==
  /\ req[c].op = "delete" /\ req[c].job = j
  /\ req[c].at \in {"locked", "cancelled", "dequeued"}

FilesLocked(j) == \E c \in Clients : HoldsFiles(c, j)

(* Queue.Remove, by Pool.RemoveQueued: the first entry of the job, if any. *)
DropQueued(j) ==
  \/ /\ j \notin Queued
     /\ UNCHANGED queue
  \/ \E k \in DOMAIN queue :
       /\ queue[k] = j
       /\ \A i \in 1 .. k - 1 : queue[i] # j
       /\ queue' = RemoveAt(queue, k)

--------------------------------------------------------------------------------
(* HandleStartDownload, with workMu held from the first step to the last *)

(* prepareJob stamps QueuedAt under workMu, so records appear in order. *)
Fresh(j) ==
  /\ status[j] = "none"
  /\ \A i \in Jobs : i < j => status[i] # "none"

SetRecord(j) ==
  /\ admitting = NoJob
  /\ Fresh(j)
  /\ status' = [status EXCEPT ![j] = "queued"]
  /\ stored' = stored \cup {j}
  /\ admitting' = j
  /\ UNCHANGED <<ctxDone, collected, poolVars, workerVars, req, trimming>>

CanEnqueue == ~poolDone /\ Len(queue) < QueueCapacity

EnqueueRecord ==
  /\ admitting # NoJob
  /\ CanEnqueue
  /\ queue' = Append(queue, admitting)
  /\ admitting' = NoJob
  /\ UNCHANGED <<recordVars, dispatcher, sem, poolDone, workerVars, req, trimming>>

(* The queue is full or the pool is stopping: the record is taken back. *)
Rollback ==
  /\ admitting # NoJob
  /\ ~CanEnqueue
  /\ stored' = stored \ {admitting}
  /\ admitting' = NoJob
  /\ UNCHANGED <<status, ctxDone, collected, poolVars, workerVars, req, trimming>>

--------------------------------------------------------------------------------
(* Pool.dispatchLoop *)

Dispatch(from, to) ==
  /\ dispatcher.at = from
  /\ dispatcher' = to

EnterNext ==
  /\ ~poolDone
  /\ Dispatch("entering", [at |-> "popping", job |-> NoJob])
  /\ UNCHANGED <<recordVars, queue, sem, poolDone, workerVars, admitting, req, trimming>>

Pop ==
  /\ queue # << >>
  /\ Dispatch("popping", [at |-> "slot", job |-> Head(queue)])
  /\ queue' = Tail(queue)
  /\ UNCHANGED <<recordVars, sem, poolDone, workerVars, admitting, req, trimming>>

AcquireSlotOffByOne ==
  /\ sem <= MaxConcurrent
  /\ Dispatch("slot", [at |-> "entering", job |-> NoJob])
  /\ sem' = sem + 1
  /\ run' = [run EXCEPT ![dispatcher.job] = "spawned"]
  /\ UNCHANGED <<recordVars, queue, poolDone, timeout, outcome, admitting, req, trimming>>

(* p.sem <- struct{}{} succeeds and the job gets a goroutine of its own. *)
AcquireSlot ==
  /\ sem < MaxConcurrent
  /\ Dispatch("slot", [at |-> "entering", job |-> NoJob])
  /\ sem' = sem + 1
  /\ run' = [run EXCEPT ![dispatcher.job] = "spawned"]
  /\ UNCHANGED <<recordVars, queue, poolDone, timeout, outcome, admitting, req, trimming>>

(* Next waits beside an empty queue, and starts over when woken. *)
ParkDispatcher ==
  /\ queue = << >>
  /\ Dispatch("popping", [at |-> "parked", job |-> NoJob])
  /\ UNCHANGED <<recordVars, queue, sem, poolDone, workerVars, admitting, req, trimming>>

WakeDispatcher ==
  /\ queue # << >>
  /\ Dispatch("parked", [at |-> "entering", job |-> NoJob])
  /\ UNCHANGED <<recordVars, queue, sem, poolDone, workerVars, admitting, req, trimming>>

StopOnEntryOnly ==
  /\ poolDone
  /\ Dispatch("entering", [at |-> "stopped", job |-> NoJob])
  /\ UNCHANGED <<recordVars, queue, sem, poolDone, workerVars, admitting, req, trimming>>

(* The pool's context ends the loop: on entry to Next, while it waits there, or
   while waiting for a slot, and then the job it holds is dropped. *)
StopDispatcher ==
  /\ poolDone
  /\ dispatcher.at \in {"entering", "parked", "slot"}
  /\ dispatcher' = [at |-> "stopped", job |-> NoJob]
  /\ UNCHANGED <<recordVars, queue, sem, poolDone, workerVars, admitting, req, trimming>>

(* Pool.Stop's cancel; its wg.Wait is PoolStopped below. *)
StopPool ==
  /\ ~poolDone
  /\ poolDone' = TRUE
  /\ UNCHANGED <<recordVars, queue, dispatcher, sem, workerVars, admitting, req, trimming>>

--------------------------------------------------------------------------------
(* Worker.Run.  The command has been built at admission (worker.go:67-75). *)

LookUpKeepsSlot(j) ==
  /\ Goto(j, "spawned", IF j \in stored THEN "found" ELSE "done")
  /\ UNCHANGED <<recordVars, poolVars, timeout, outcome, admitting, req, trimming>>

(* Store.Get fails when the record was removed while the job waited. *)
LookUp(j) ==
  \/ /\ j \in stored
     /\ Goto(j, "spawned", "found")
     /\ UNCHANGED <<recordVars, poolVars, timeout, outcome, admitting, req, trimming>>
  \/ /\ j \notin stored
     /\ Goto(j, "spawned", "done")
     /\ sem' = sem - 1
     /\ UNCHANGED <<recordVars, queue, dispatcher, poolDone, timeout, outcome,
                    admitting, req, trimming>>

OwnFilesUnlocked(j) ==
  /\ Goto(j, "found", "owning")
  /\ UNCHANGED <<recordVars, poolVars, timeout, outcome, admitting, req, trimming>>

OwnFiles(j) ==
  /\ ~FilesLocked(j)
  /\ Goto(j, "found", "owning")
  /\ UNCHANGED <<recordVars, poolVars, timeout, outcome, admitting, req, trimming>>

ContextUnchecked(j) ==
  /\ Goto(j, "owning", "checked")
  /\ UNCHANGED status

CancelledReturnsSilently(j) ==
  /\ Goto(j, "owning", IF j \in ctxDone THEN "finished" ELSE "checked")
  /\ UNCHANGED status

CheckContext(j) ==
  \/ /\ j \notin ctxDone
     /\ Goto(j, "owning", "checked")
     /\ UNCHANGED status
  \/ /\ j \in ctxDone                                   \* failCancelled
     /\ Goto(j, "owning", "finished")
     /\ SetUnlessTerminal(j, "cancelled")

(* MkdirAll may fail; otherwise the record shows that the job starts. *)
StartJob(j) ==
  \/ /\ Goto(j, "checked", "started")
     /\ SetUnlessTerminal(j, "starting")
  \/ /\ Goto(j, "checked", "finished")                  \* fail
     /\ SetUnlessTerminal(j, "failed")

Prepare(j) ==
  /\ Goto(j, "started", "launching")
  /\ SetUnlessTerminal(j, "preparing")

(* The steps of Run that write nothing but the status of the record. *)
RunUpdate(j) ==
  /\ CheckContext(j) \/ StartJob(j) \/ Prepare(j)
  /\ UNCHANGED <<stored, ctxDone, collected, poolVars, timeout, outcome, admitting,
                 req, trimming>>

(* timeoutCtx follows the pool's context and, through context.AfterFunc in a
   goroutine of its own, the record's; or its deadline passes; or an output
   line without end makes Lines.Write cancel it. *)
EndTimeout(j) ==
  /\ run[j] \in {"launching", "running", "exited", "reporting"}
  /\ timeout[j] = "live"
  /\ \/ (j \in ctxDone \/ poolDone) /\ timeout' = [timeout EXCEPT ![j] = "cancelled"]
     \/ timeout' = [timeout EXCEPT ![j] = "deadline"]
     \/ run[j] = "running" /\ timeout' = [timeout EXCEPT ![j] = "overflow"]
  /\ UNCHANGED <<recordVars, poolVars, run, outcome, admitting, req, trimming>>

(* process.Run: nothing is started under a done context, and starting may fail. *)
Launch(j) ==
  \/ /\ timeout[j] = "live"
     /\ Goto(j, "launching", "running")
     /\ UNCHANGED <<recordVars, poolVars, timeout, outcome, admitting, req, trimming>>
  \/ /\ Goto(j, "launching", "exited")
     /\ outcome' = [outcome EXCEPT ![j] = "error"]
     /\ UNCHANGED <<recordVars, poolVars, timeout, admitting, req, trimming>>

(* A progress line, the last of which may be left for Flush: HandleProgress
   ignores it on a terminal record, and an "error" line makes the record failed
   while yt-dlp still runs. *)
Report(j, s) ==
  /\ run[j] \in {"running", "exited"}
  /\ SetUnlessTerminal(j, s)
  /\ UNCHANGED <<stored, ctxDone, collected, poolVars, workerVars, admitting, req, trimming>>

(* cmd.Wait: a killed process may still have finished cleanly just before. *)
Exit(j) ==
  /\ Goto(j, "running", "exited")
  /\ \E o \in {"clean", "error"} :
       /\ timeout[j] = "overflow" => o = "error"
       /\ outcome' = [outcome EXCEPT ![j] = o]
  /\ UNCHANGED <<recordVars, poolVars, timeout, admitting, req, trimming>>

CollectResults(j) ==
  /\ Goto(j, "exited", "reporting")
  /\ collected' = IF outcome[j] = "clean" /\ timeout[j] = "live" /\ j \notin ctxDone
                    THEN collected \cup {j} ELSE collected
  /\ UNCHANGED <<status, stored, ctxDone, poolVars, timeout, outcome, admitting, req, trimming>>

FinalStatusLastWins(j) ==
  CASE timeout[j] = "deadline"         -> "failed"
    [] timeout[j] # "deadline" /\ (poolDone \/ j \in ctxDone) -> "cancelled"
    [] OTHER                           -> IF outcome[j] = "error" THEN "failed" ELSE "completed"

FinalStatusNoCancel(j) ==
  IF status[j] \in {"failed", "cancelled"} THEN status[j]
  ELSE IF timeout[j] = "deadline" \/ outcome[j] = "error" THEN "failed" ELSE "completed"

(* The switch that ends Run, in its order. *)
FinalStatus(j) ==
  IF status[j] \in {"failed", "cancelled"} THEN status[j]
  ELSE IF timeout[j] = "deadline" THEN "failed"
  ELSE IF poolDone \/ j \in ctxDone THEN "cancelled"
  ELSE IF outcome[j] = "error" THEN "failed"
  ELSE "completed"

Finish(j) ==
  /\ Goto(j, "reporting", "finished")
  /\ status' = [status EXCEPT ![j] = FinalStatus(j)]
  /\ UNCHANGED <<stored, ctxDone, collected, poolVars, timeout, outcome, admitting,
                 req, trimming>>

(* The deferred calls: FilesMu is released and the slot is free again. *)
Return(j) ==
  /\ Goto(j, "finished", "done")
  /\ sem' = sem - 1
  /\ timeout' = [timeout EXCEPT ![j] = "live"]
  /\ outcome' = [outcome EXCEPT ![j] = "none"]
  /\ UNCHANGED <<recordVars, queue, dispatcher, poolDone, admitting, req, trimming>>

--------------------------------------------------------------------------------
(* Requests on a record: cancel, delete (removal from history), file download *)

BeginCancel(c, j) ==
  /\ Begin(c, "cancel", j, "got")
  /\ UNCHANGED <<recordVars, poolVars, workerVars, admitting, trimming>>

(* Refused unless the record is terminal and no active batch contains it. *)
BeginDelete(c, j, protected) ==
  /\ j \notin protected
  /\ status[j] \in Terminal
  /\ Begin(c, "delete", j, "checked")
  /\ UNCHANGED <<recordVars, poolVars, workerVars, admitting, trimming>>

(* FilesMu.TryLock; while it fails the answer is 409 and nothing changes. *)
CanLockFiles(j) == run[j] \notin Owning /\ FileReaders(j) = {} /\ ~FilesLocked(j)

LockFiles(c) ==
  /\ \/ Advance(c, "delete", "checked", "locked") /\ CanLockFiles(req[c].job)
     \/ Done(c, "delete", "checked") /\ ~CanLockFiles(req[c].job)
  /\ UNCHANGED <<recordVars, poolVars, workerVars, admitting, trimming>>

CancelContext(c) ==
  /\ Advance(c, "cancel", "got", "cancelled") \/ Advance(c, "delete", "locked", "cancelled")
  /\ ctxDone' = ctxDone \cup {req[c].job}
  /\ UNCHANGED <<status, stored, collected, poolVars, workerVars, admitting, trimming>>

RemoveQueued(c) ==
  /\ \E op \in {"cancel", "delete"} : Advance(c, op, "cancelled", "dequeued")
  /\ DropQueued(req[c].job)
  /\ UNCHANGED <<recordVars, dispatcher, sem, poolDone, workerVars, admitting, trimming>>

MarkCancelled(c) ==
  /\ Done(c, "cancel", "dequeued")
  /\ SetUnlessTerminal(req[c].job, "cancelled")
  /\ UNCHANGED <<stored, ctxDone, collected, poolVars, workerVars, admitting, trimming>>

(* Store.Delete, then the deferred unlock. *)
DeleteRecord(c) ==
  /\ Done(c, "delete", "dequeued")
  /\ stored' = stored \ {req[c].job}
  /\ UNCHANGED <<status, ctxDone, collected, poolVars, workerVars, admitting, trimming>>

BeginFetch(c, j) ==
  /\ Begin(c, "fetch", j, "got")
  /\ UNCHANGED <<recordVars, poolVars, workerVars, admitting, trimming>>

(* Files are served only of a completed job; otherwise the lock is let go. *)
ReadFiles(c) ==
  /\ \/ Advance(c, "fetch", "got", "reading") /\ status[req[c].job] = "completed"
     \/ Done(c, "fetch", "got") /\ status[req[c].job] # "completed"
  /\ ~FilesLocked(req[c].job)
  /\ UNCHANGED <<recordVars, poolVars, workerVars, admitting, trimming>>

EndFetch(c) ==
  /\ Done(c, "fetch", "reading")
  /\ UNCHANGED <<recordVars, poolVars, workerVars, admitting, trimming>>

--------------------------------------------------------------------------------
(* History cleanup, from the pool's ticker and from every flush *)

(* What TrimHistory picks from its snapshot: the newest HistoryLimit terminal
   records outside active batches stay. *)
Excess(protected) ==
  LET old == {j \in stored \ protected : status[j] \in Terminal}
  IN  {j \in old : Cardinality({i \in old : i > j}) >= HistoryLimit}

TrimHistory(protected) ==
  /\ trimming = {}
  /\ Excess(protected) # {}
  /\ trimming' = Excess(protected)
  /\ UNCHANGED <<recordVars, poolVars, workerVars, admitting, req>>

(* Store.Delete of one of them, newest first, without FilesMu. *)
TrimRecord ==
  \E j \in trimming :
    /\ \A i \in trimming : i <= j
    /\ stored' = stored \ {j}
    /\ trimming' = trimming \ {j}
    /\ UNCHANGED <<status, ctxDone, collected, poolVars, workerVars, admitting, req>>

(* CleanupOldDownloads: a terminal record a week old.  By then its worker has
   returned (a run lasts MaxDownloadDurationMs at most, 30 minutes by default). *)
ExpireRecord(j, protected) ==
  /\ j \in stored \ protected
  /\ status[j] \in Terminal
  /\ run[j] \notin Active
  /\ stored' = stored \ {j}
  /\ UNCHANGED <<status, ctxDone, collected, poolVars, workerVars, admitting, req, trimming>>

--------------------------------------------------------------------------------
DispatcherStep ==
  EnterNext \/ Pop \/ ParkDispatcher \/ WakeDispatcher \/ AcquireSlot \/ StopDispatcher

WorkerStep(j) ==
  LookUp(j) \/ OwnFiles(j) \/ RunUpdate(j) \/ EndTimeout(j) \/ Launch(j) \/ Exit(j)
    \/ CollectResults(j) \/ Finish(j) \/ Return(j)

RequestStep(c) ==
  LockFiles(c) \/ CancelContext(c) \/ RemoveQueued(c) \/ MarkCancelled(c)
    \/ DeleteRecord(c) \/ ReadFiles(c) \/ EndFetch(c)

(* Everything that happens to records outside batches, with the records that
   active batches protect from removal. *)
RecordNext(protected) ==
  \/ DispatcherStep
  \/ \E j \in Jobs :
       \/ WorkerStep(j)
       \/ \E s \in {"downloading", "processing", "failed"} : Report(j, s)
       \/ ExpireRecord(j, protected)
  \/ \E c \in Clients :
       \/ RequestStep(c)
       \/ \E j \in Jobs :
            BeginCancel(c, j) \/ BeginDelete(c, j, protected) \/ BeginFetch(c, j)
  \/ TrimHistory(protected)
  \/ TrimRecord
  \/ StopPool

AdmissionStep == EnqueueRecord \/ Rollback

Next ==
  \/ RecordNext({})
  \/ \E j \in Jobs : SetRecord(j)
  \/ AdmissionStep

SafeSpec == Init /\ [][Next]_vars

(* Goroutines that can run do; a run of yt-dlp ends, at the latest because its
   deadline kills it; a request that has been received is served to its end.
   Nobody must send a request, trim the history or stop the pool. *)
Fairness ==
  /\ WF_vars(AdmissionStep)
  /\ WF_vars(DispatcherStep)
  /\ \A j \in Jobs : WF_vars(WorkerStep(j))
  /\ \A c \in Clients : WF_vars(RequestStep(c))

Spec == SafeSpec /\ Fairness

--------------------------------------------------------------------------------
(* Properties *)

(* At most MaxConcurrent jobs own a worker slot at once, counting those whose
   process is still being unwound (pool.go:95-107). *)
SlotsBound == Cardinality({j \in Jobs : run[j] \in Active}) <= MaxConcurrent

(* "The first terminal transition stays authoritative" (worker.go:120): between
   cancellation, progress lines, timeout, exit code and shutdown, whichever
   ends the job first decides its status for good. *)
FirstTerminalStays ==
  [][\A j \in Jobs : status[j] \in Terminal => status'[j] = status[j]]_vars

(* A job shown as completed has had its result files collected, although both
   steps look at the contexts at different times (worker.go:106,119-149). *)
CompletedHasResults == \A j \in Jobs : status[j] = "completed" => j \in collected

(* FilesMu: while a removal by request holds a job's files, no worker owns its
   directory, no file is being sent and no second removal runs
   (worker.go:44, handler_results.go:25, handler_status.go:140). *)
FilesExclusive ==
  \A j \in Jobs : \A c \in Clients : HoldsFiles(c, j) =>
    /\ run[j] \notin Owning
    /\ FileReaders(j) = {}
    /\ \A d \in Clients : HoldsFiles(d, j) => d = c

(* A job cancelled before its worker has looked at the context, or removed
   before its worker has looked it up, never starts yt-dlp, however late the
   dispatcher hands it over (worker.go:40-49): it stays spared until its worker
   returns without having passed the check. *)
Spared(j) ==
  \/ j \in ctxDone /\ run[j] \in {"none", "owning"} \cup Entering
  \/ j \notin stored /\ status[j] # "none" /\ run[j] \in {"none", "spawned"}

SparedJobNeverRuns ==
  [][\A j \in Jobs : Spared(j) => Spared(j)' \/ run'[j] \in {"finished", "done"}]_vars

(* Every admitted job comes to an end, unless it is removed or the pool stops:
   none is lost between the queue, the dispatcher and the slots. *)
JobsEnd ==
  \A j \in Jobs :
    j \in stored /\ status[j] \in Live ~>
      status[j] \in Terminal \/ j \notin stored \/ poolDone

(* Pool.Stop returns: the dispatcher leaves its loop and every job's goroutine
   returns, wherever the stop finds them (pool.go:79-82). *)
PoolStopped == dispatcher.at = "stopped" /\ \A j \in Jobs : run[j] \notin Active

StopReturns == poolDone ~> PoolStopped

(* What progress.go:66 says of FilesMu: no history removal while a worker owns
   the directory. *)
OwnedRecordsStay == \A j \in Jobs : run[j] \in Owning => j \in stored

(* All that the rest of the server relies on: whatever the dispatcher, the
   workers and the requests do, it looks like a step of JobPool. *)
Shown(s) == IF s \in {"starting", "preparing", "downloading", "processing"} THEN "active" ELSE s

Pool == INSTANCE JobPool WITH
  status <- [j \in Jobs |-> Shown(status[j])],
  held <- dispatcher.job,
  running <- {j \in Jobs : run[j] \in Active},
  returned <- {j \in Jobs : run[j] = "done"}

ImplementsPool == Pool!SafeSpec
================================================================================
