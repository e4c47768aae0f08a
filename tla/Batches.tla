-------------------------------- MODULE Batches --------------------------------
(***************************************************************************)
(* Playlist batches (internal/handlers/handler_batch.go): a parent record   *)
(* with children, a goroutine that admits the children to the pool, a      *)
(* goroutine that watches them and writes the parent, requests that cancel *)
(* or remove any of these records meanwhile, and App.Close.                *)
(*                                                                         *)
(* The pool is taken at the level of JobPool, which Downloads implements.  *)
(* A parent is a record like any other ("stored", "status", "ctxDone") that *)
(* is never put in the queue.                                              *)
(***************************************************************************)
EXTENDS JobPool

CONSTANTS
  Batches,     \* the parents, a subset of Jobs
  Children,    \* the children of each parent, in playlist order
  Clients,     \* HTTP requests that may be in flight together
  Asked        \* bound: the requests <<operation, record>> an instance explores

Kids(b) == ToSet(Children[b])

Total(b) == Len(Children[b])

ASSUME BatchesAssumption ==
  /\ Jobs \subseteq Nat \ {0} /\ IsFiniteSet(Jobs)
  /\ {MaxConcurrent, QueueCapacity} \subseteq Nat \ {0}
  /\ Asked \subseteq {"cancel", "delete"} \X Jobs
  /\ Batches \subseteq Jobs
  /\ Children \in [Batches -> Seq(Jobs \ Batches)]
  /\ \A b \in Batches : Children[b] # << >>
  /\ \A b, d \in Batches : b # d => Kids(b) \cap Kids(d) = {}

VARIABLES
  working,     \* the batch or job whose admission holds App.workMu
  admitter,    \* of each batch, the goroutine that admits its children
  watch,       \* of each batch, where runBatch stands
  round,       \* what runBatch has read in the current round
  req,         \* the request each client has in flight
  closing,     \* where App.Close stands
  toCancel     \* the batches App.Close has still to cancel

batchVars == <<working, admitter, watch, round, req, closing, toCancel>>
vars == <<jobVars, batchVars>>

Idle == [op |-> "none", job |-> NoJob, at |-> "idle"]

FreshRound == [cancelled |-> FALSE, kid |-> 1, finished |-> 0, failed |-> FALSE]

WatchStates ==
  {"none", "reading", "looking", "cancelling", "withdrawing", "marking", "counting",
   "reporting", "sleeping", "draining", "returned"}

TypeOK ==
  /\ status \in [Jobs -> {"none", "active", "downloading"} \cup Waiting \cup Terminal]
  /\ stored \subseteq Jobs
  /\ ctxDone \subseteq Jobs
  /\ queue \in Seq(Jobs)
  /\ held \in Jobs \cup {NoJob}
  /\ running \subseteq Jobs
  /\ returned \subseteq Jobs
  /\ poolDone \in BOOLEAN
  /\ working \in Jobs \cup {NoJob}
  /\ DOMAIN admitter = Batches /\ DOMAIN round = Batches
  /\ \A b \in Batches :
       /\ admitter[b] \in [at: {"none", "waiting", "admitted", "done"}, next: 1 .. Total(b) + 1]
       /\ round[b] \in [cancelled: BOOLEAN, kid: 1 .. Total(b) + 1, finished: 0 .. Total(b),
                        failed: BOOLEAN]
  /\ watch \in [Batches -> WatchStates]
  /\ req \in [Clients -> [op: {"none", "cancel", "delete"}, job: Jobs \cup {NoJob},
                          at: {"idle", "got", "cancelled", "withdrawn"}]]
  /\ closing \in {"open", "cancelling", "waiting", "closed"}
  /\ toCancel \subseteq Batches

BatchInit ==
  /\ Init
  /\ working = NoJob
  /\ admitter = [b \in Batches |-> [at |-> "none", next |-> 1]]
  /\ watch = [b \in Batches |-> "none"]
  /\ round = [b \in Batches |-> FreshRound]
  /\ req = [c \in Clients |-> Idle]
  /\ closing = "open"
  /\ toCancel = {}

--------------------------------------------------------------------------------
(* Building blocks *)

ActiveBatches == {b \in Batches : b \in stored /\ status[b] \notin Terminal}

(* ActiveBatchContains: removal of these records is refused. *)
Protected == UNION {Kids(b) : b \in ActiveBatches}

Go(b, from, to) ==
  /\ watch[b] = from
  /\ watch' = [watch EXCEPT ![b] = to]

Advance(c, op, from, to) ==
  /\ req[c].op = op /\ req[c].at = from
  /\ req' = [req EXCEPT ![c].at = to]

Done(c, op, from) ==
  /\ req[c].op = op /\ req[c].at = from
  /\ req' = [req EXCEPT ![c] = Idle]

TallyWithoutCancelled(b, missing, s) ==
  round' = [round EXCEPT ![b].kid = @ + 1,
                         ![b].finished = IF s \in {"completed", "failed"} THEN @ + 1 ELSE @,
                         ![b].failed = @ \/ (~missing /\ s = "failed")]

(* What the snapshot of a child adds to the round. *)
Tally(b, missing, s) ==
  round' = [round EXCEPT ![b].kid = @ + 1,
                         ![b].finished = IF missing \/ s \in Terminal THEN @ + 1 ELSE @,
                         ![b].failed = @ \/ (~missing /\ s = "failed")]

--------------------------------------------------------------------------------
(* Admission of single jobs and of batches, under workMu *)

Singles == Jobs \ (Batches \cup UNION {Kids(b) : b \in Batches})

SetSingle(j) ==
  /\ j \in Singles
  /\ working = NoJob /\ closing = "open"
  /\ Create(j, "queued")
  /\ working' = j
  /\ UNCHANGED <<admitter, watch, round, req, closing, toCancel>>

PutSingle ==
  /\ working \in Singles
  /\ Put(working)
  /\ working' = NoJob
  /\ UNCHANGED <<admitter, watch, round, req, closing, toCancel>>

RollbackSingle ==
  /\ working \in Singles
  /\ Len(queue) = QueueCapacity
  /\ Forget(working)
  /\ working' = NoJob
  /\ UNCHANGED <<admitter, watch, round, req, closing, toCancel>>

BeginBatch(b) ==
  /\ working = NoJob /\ closing = "open"
  /\ status[b] = "none"
  /\ working' = b
  /\ UNCHANGED <<jobVars, admitter, watch, round, req, closing, toCancel>>

(* The children are set one after the other, then the parent. *)
SetChild ==
  /\ working \in Batches
  /\ \E k \in 1 .. Total(working) :
       /\ \A i \in 1 .. k - 1 : status[Children[working][i]] # "none"
       /\ Create(Children[working][k], "waiting_for_capacity")
  /\ UNCHANGED batchVars

SetParent ==
  /\ working \in Batches
  /\ \A k \in Kids(working) : status[k] # "none"
  /\ Create(working, "queued")
  /\ admitter' = [admitter EXCEPT ![working].at = "waiting"]
  /\ watch' = [watch EXCEPT ![working] = "reading"]
  /\ working' = NoJob
  /\ UNCHANGED <<round, req, closing, toCancel>>

--------------------------------------------------------------------------------
(* The admission goroutine *)

NextChild(b) == Children[b][admitter[b].next]

AdmitChild(b) ==
  /\ admitter[b].at = "waiting"
  /\ b \notin ctxDone
  /\ Put(NextChild(b))
  /\ admitter' = [admitter EXCEPT ![b].at = "admitted"]
  /\ UNCHANGED <<working, watch, round, req, closing, toCancel>>

MarkQueued(b) ==
  /\ admitter[b].at = "admitted"
  /\ status' = IF /\ NextChild(b) \in stored
                  /\ status[NextChild(b)] = "waiting_for_capacity"
                 THEN [status EXCEPT ![NextChild(b)] = "queued"] ELSE status
  /\ admitter' = [admitter EXCEPT
       ![b] = [at |-> IF @.next = Total(b) THEN "done" ELSE "waiting", next |-> @.next + 1]]
  /\ UNCHANGED <<stored, ctxDone, poolVars, working, watch, round, req, closing, toCancel>>

StopAdmissionWithPool(b) ==
  /\ admitter[b].at = "waiting"
  /\ poolDone
  /\ admitter' = [admitter EXCEPT ![b].at = "done"]
  /\ UNCHANGED <<jobVars, working, watch, round, req, closing, toCancel>>

(* EnqueueWait fails once the batch's context or the pool's is done. *)
StopAdmission(b) ==
  /\ admitter[b].at = "waiting"
  /\ b \in ctxDone \/ poolDone
  /\ admitter' = [admitter EXCEPT ![b].at = "done"]
  /\ UNCHANGED <<jobVars, working, watch, round, req, closing, toCancel>>

--------------------------------------------------------------------------------
(* runBatch: a round reads the batch's context once, then every child, then
   writes the parent *)

Kid(b) == Children[b][round[b].kid]

ReadContext(b) ==
  /\ Go(b, "reading", "looking")
  /\ round' = [round EXCEPT ![b] = [FreshRound EXCEPT !.cancelled = b \in ctxDone]]
  /\ UNCHANGED <<jobVars, working, admitter, req, closing, toCancel>>

LookWithoutCancelling(b) ==
  /\ round[b].kid <= Total(b)
  /\ \/ /\ Kid(b) \notin stored
        /\ Go(b, "looking", "looking")
        /\ Tally(b, TRUE, "none")
     \/ /\ Kid(b) \in stored
        /\ Go(b, "looking", "counting")
        /\ UNCHANGED round
  /\ UNCHANGED <<jobVars, working, admitter, req, closing, toCancel>>

(* Store.Get: a child that was removed counts as cancelled. *)
LookAtChild(b) ==
  /\ round[b].kid <= Total(b)
  /\ \/ /\ Kid(b) \notin stored
        /\ Go(b, "looking", "looking")
        /\ Tally(b, TRUE, "none")
     \/ /\ Kid(b) \in stored
        /\ Go(b, "looking", IF round[b].cancelled THEN "cancelling" ELSE "counting")
        /\ UNCHANGED round
  /\ UNCHANGED <<jobVars, working, admitter, req, closing, toCancel>>

CancelChild(b) ==
  /\ Go(b, "cancelling", "withdrawing")
  /\ Cancel(Kid(b))
  /\ UNCHANGED <<working, admitter, round, req, closing, toCancel>>

WithdrawNothing(b) ==
  /\ Go(b, "withdrawing", "marking")
  /\ UNCHANGED <<jobVars, working, admitter, round, req, closing, toCancel>>

WithdrawChild(b) ==
  /\ Go(b, "withdrawing", "marking")
  /\ Withdraw(Kid(b))
  /\ UNCHANGED <<working, admitter, round, req, closing, toCancel>>

MarkChild(b) ==
  /\ Go(b, "marking", "counting")
  /\ MarkCancelled(Kid(b))
  /\ UNCHANGED <<working, admitter, round, req, closing, toCancel>>

CountChild(b) ==
  /\ Go(b, "counting", "looking")
  /\ Tally(b, FALSE, status[Kid(b)])
  /\ UNCHANGED <<jobVars, working, admitter, req, closing, toCancel>>

EndRound(b) ==
  /\ round[b].kid = Total(b) + 1
  /\ Go(b, "looking", "reporting")
  /\ UNCHANGED <<jobVars, working, admitter, round, req, closing, toCancel>>

Over(b) == round[b].cancelled \/ round[b].finished = Total(b)

VerdictIgnoringFailures(b) ==
  CASE ~Over(b)                            -> "downloading"
    [] Over(b) /\ round[b].cancelled       -> "cancelled"
    [] OTHER                               -> "completed"

(* The status the round gives the parent, whatever it shows by then. *)
Verdict(b) ==
  CASE ~Over(b)                            -> "downloading"
    [] Over(b) /\ round[b].cancelled       -> "cancelled"
    [] Over(b) /\ ~round[b].cancelled /\ round[b].failed -> "failed"
    [] OTHER                               -> "completed"

Report(b) ==
  /\ Go(b, "reporting", IF Over(b) THEN "draining" ELSE "sleeping")
  /\ status' = [status EXCEPT ![b] = Verdict(b)]
  /\ UNCHANGED <<stored, ctxDone, poolVars, working, admitter, round, req, closing, toCancel>>

(* The ticker fires or the context is done. *)
NextRound(b) ==
  /\ Go(b, "sleeping", "reading")
  /\ UNCHANGED <<jobVars, working, admitter, round, req, closing, toCancel>>

ReturnWithAdmission(b) ==
  /\ Go(b, "draining", "returned")
  /\ UNCHANGED <<jobVars, working, admitter, round, req, closing, toCancel>>

(* <-admissionDone, then a.batches.Done(). *)
ReturnBatch(b) ==
  /\ admitter[b].at = "done"
  /\ Go(b, "draining", "returned")
  /\ UNCHANGED <<jobVars, working, admitter, round, req, closing, toCancel>>

--------------------------------------------------------------------------------
(* Requests: cancellation and removal of any record, child or parent *)

Begin(c, op, j) ==
  /\ <<op, j>> \in Asked
  /\ req[c] = Idle /\ j \in stored
  /\ op = "delete" => status[j] \in Terminal /\ j \notin Protected
  /\ req' = [req EXCEPT ![c] = [op |-> op, job |-> j, at |-> "got"]]
  /\ UNCHANGED <<jobVars, working, admitter, watch, round, closing, toCancel>>

(* FilesMu.TryLock fails beside a worker that owns the files. *)
RefuseDelete(c) ==
  /\ Done(c, "delete", "got")
  /\ req[c].job \in running
  /\ UNCHANGED <<jobVars, working, admitter, watch, round, closing, toCancel>>

CancelRecord(c) ==
  /\ \E op \in {"cancel", "delete"} : Advance(c, op, "got", "cancelled")
  /\ Cancel(req[c].job)
  /\ UNCHANGED <<working, admitter, watch, round, closing, toCancel>>

WithdrawRecord(c) ==
  /\ \E op \in {"cancel", "delete"} : Advance(c, op, "cancelled", "withdrawn")
  /\ Withdraw(req[c].job)
  /\ UNCHANGED <<working, admitter, watch, round, closing, toCancel>>

EndCancel(c) ==
  /\ Done(c, "cancel", "withdrawn")
  /\ MarkCancelled(req[c].job)
  /\ UNCHANGED <<working, admitter, watch, round, closing, toCancel>>

EndDelete(c) ==
  /\ Done(c, "delete", "withdrawn")
  /\ stored' = stored \ {req[c].job}
  /\ UNCHANGED <<status, ctxDone, poolVars, working, admitter, watch, round, closing, toCancel>>

--------------------------------------------------------------------------------
(* App.Close, then Pool.Stop (main.go:119-120) *)

BeginClose ==
  /\ closing = "open" /\ working = NoJob
  /\ closing' = "cancelling"
  /\ toCancel' = ActiveBatches
  /\ UNCHANGED <<jobVars, working, admitter, watch, round, req>>

CloseBatch ==
  /\ closing = "cancelling"
  /\ \E b \in toCancel :
       /\ toCancel' = toCancel \ {b}
       /\ ctxDone' = IF b \in stored THEN ctxDone \cup {b} ELSE ctxDone
  /\ UNCHANGED <<status, stored, poolVars, working, admitter, watch, round, req, closing>>

WaitBatches ==
  /\ closing = "cancelling" /\ toCancel = {}
  /\ closing' = "waiting"
  /\ UNCHANGED <<jobVars, working, admitter, watch, round, req, toCancel>>

Running == {b \in Batches : watch[b] \notin {"none", "returned"}}

EndClose ==
  /\ closing = "waiting" /\ Running = {}
  /\ closing' = "closed"
  /\ UNCHANGED <<jobVars, working, admitter, watch, round, req, toCancel>>

StopPool ==
  /\ closing = "closed" /\ ~poolDone
  /\ Stop
  /\ UNCHANGED batchVars

--------------------------------------------------------------------------------
Pooling == (PoolStep \/ Drop) /\ UNCHANGED batchVars

Admitting ==
  PutSingle \/ RollbackSingle \/ SetChild \/ SetParent

AdmitterStep(b) == AdmitChild(b) \/ MarkQueued(b) \/ StopAdmission(b)

WatchStep(b) ==
  \/ ReadContext(b) \/ LookAtChild(b) \/ CancelChild(b) \/ WithdrawChild(b) \/ MarkChild(b)
  \/ CountChild(b) \/ EndRound(b) \/ Report(b) \/ NextRound(b) \/ ReturnBatch(b)

RequestStep(c) ==
  RefuseDelete(c) \/ CancelRecord(c) \/ WithdrawRecord(c) \/ EndCancel(c) \/ EndDelete(c)

CloseStep == CloseBatch \/ WaitBatches \/ EndClose

BatchNext ==
  \/ Pooling
  \/ Admitting
  \/ \E j \in Jobs : SetSingle(j)
  \/ \E b \in Batches : BeginBatch(b) \/ AdmitterStep(b) \/ WatchStep(b)
  \/ \E c \in Clients :
       RequestStep(c) \/ \E op \in {"cancel", "delete"}, j \in Jobs : Begin(c, op, j)
  \/ BeginClose \/ CloseStep \/ StopPool

(* A job that runs reaches a terminal status and returns. *)
Conclude(j) ==
  \/ status[j] \notin Terminal /\ Work(j) /\ status'[j] \in Terminal
  \/ Return(j)

BatchSafeSpec == BatchInit /\ [][BatchNext]_vars

(* Goroutines run; jobs that run return, as JobsEnd of Downloads says; nobody
   must send requests, start batches or shut the server down. *)
Fairness ==
  /\ WF_vars(~poolDone /\ (Take \/ Start) /\ UNCHANGED batchVars)
  /\ \A j \in Jobs : WF_vars(Conclude(j) /\ UNCHANGED batchVars)
  /\ WF_vars(Admitting)
  /\ \A b \in Batches : WF_vars(AdmitterStep(b)) /\ WF_vars(WatchStep(b))
  /\ \A c \in Clients : WF_vars(RequestStep(c))
  /\ WF_vars(CloseStep)

BatchSpec == BatchSafeSpec /\ Fairness

--------------------------------------------------------------------------------
(* Properties *)

(* runBatch ends a batch only when every child has ended, though it reads the
   children one by one while they, and the batch's context, change under it. *)
ReturnedMeansEnded ==
  \A b \in Batches : watch[b] \in {"draining", "returned"} =>
    \A k \in Kids(b) : status[k] \in Terminal

(* A batch shown as completed has no failed child on record, and a finished
   batch without one is not shown as failed (handler_batch.go:173-181). *)
VerdictIsFair ==
  \A b \in Batches : watch[b] \in {"draining", "returned"} =>
    /\ status[b] = "completed" => \A k \in Kids(b) \cap stored : status[k] # "failed"
    /\ status[b] = "failed" => \E k \in Kids(b) : status[k] = "failed"

(* "Cancel a batch to stop pending admission and cancel its children"
   (README.md:39): once runBatch has returned from a cancelled batch, no child
   of it that still has a record holds a place in the queue or gets one later. *)
CancelledBatchLeavesQueue ==
  \A b \in Batches : watch[b] = "returned" /\ round[b].cancelled =>
    Kids(b) \cap stored \cap Queued = {}

(* App.Close returns after the last batch goroutine: the pool is never stopped
   under an admission that still waits (handler_batch.go:225, main.go:119-120). *)
ClosedMeansQuiet ==
  closing = "closed" => \A b \in Batches : admitter[b].at \in {"none", "done"}

(* Every batch comes to an end, whether or not it is cancelled, even when its
   children are cancelled one by one while others still wait for capacity. *)
BatchReturns ==
  \A b \in Batches : watch[b] # "none" ~> watch[b] = "returned"

(* App.Close returns, wherever it finds the batches (handler_batch.go:214-226). *)
CloseReturns == closing # "open" ~> closing = "closed"

(* "The first terminal transition stays authoritative" (worker.go:120), said of
   jobs: a batch that a request has cancelled stays cancelled. *)
CancelledBatchStays ==
  [][\A b \in Batches : status[b] = "cancelled" => status'[b] = "cancelled"]_vars

(* "Finished child records remain available until the batch finishes"
   (README.md:39). *)
ChildrenStay ==
  \A b \in ActiveBatches : \A k \in Kids(b) : k \in stored
================================================================================
