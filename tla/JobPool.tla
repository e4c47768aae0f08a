-------------------------------- MODULE JobPool --------------------------------
(***************************************************************************)
(* What the pool promises the rest of the server, without the steps of its *)
(* dispatcher and workers: a job is put in a bounded queue, taken, run     *)
(* beside at most MaxConcurrent others, and returns with a terminal status *)
(* that never changes again.  Anyone may cancel it, take it out of the     *)
(* queue or remove its record at any moment.                               *)
(*                                                                         *)
(* Downloads implements this, and Batches is built on it.                  *)
(***************************************************************************)
EXTENDS Naturals, Sequences, SequencesExt, FiniteSets

CONSTANTS
  Jobs,
  MaxConcurrent,   \* jobs that may run at once
  QueueCapacity    \* jobs that may wait

VARIABLES
  status,     \* what the job's record shows
  stored,     \* the jobs whose record can be found
  ctxDone,    \* the jobs whose context has been cancelled
  queue,      \* the jobs that wait, oldest first
  held,       \* the job taken from the queue and not yet started
  running,    \* the jobs that have a slot
  returned,   \* the jobs whose run is over
  poolDone    \* the pool has been told to stop

poolVars == <<queue, held, running, returned, poolDone>>
jobVars == <<status, stored, ctxDone, poolVars>>

NoJob == 0

Terminal == {"completed", "failed", "cancelled"}

Waiting == {"waiting_for_capacity", "queued"}

Init ==
  /\ status = [j \in Jobs |-> "none"]
  /\ stored = {}
  /\ ctxDone = {}
  /\ queue = << >>
  /\ held = NoJob
  /\ running = {}
  /\ returned = {}
  /\ poolDone = FALSE

Queued == ToSet(queue)

Placed == Queued \cup {held} \cup running \cup returned

(* A record that has reached a terminal status keeps it. *)
SetUnlessTerminal(j, s) ==
  status' = IF status[j] \in Terminal THEN status ELSE [status EXCEPT ![j] = s]

--------------------------------------------------------------------------------
(* Admission *)

Create(j, s) ==
  /\ status[j] = "none"
  /\ status' = [status EXCEPT ![j] = s]
  /\ stored' = stored \cup {j}
  /\ UNCHANGED <<ctxDone, poolVars>>

Put(j) ==
  /\ status[j] # "none" /\ j \notin Placed
  /\ Len(queue) < QueueCapacity
  /\ queue' = Append(queue, j)
  /\ UNCHANGED <<status, stored, ctxDone, held, running, returned, poolDone>>

--------------------------------------------------------------------------------
(* The pool at work *)

Take ==
  /\ held = NoJob /\ queue # << >>
  /\ held' = Head(queue)
  /\ queue' = Tail(queue)
  /\ UNCHANGED <<status, stored, ctxDone, running, returned, poolDone>>

Start ==
  /\ held # NoJob
  /\ Cardinality(running) < MaxConcurrent
  /\ running' = running \cup {held}
  /\ held' = NoJob
  /\ UNCHANGED <<status, stored, ctxDone, queue, returned, poolDone>>

(* The worker writes a status: the job advances or ends. *)
Work(j) ==
  /\ j \in running
  /\ \E s \in {"active"} \cup Terminal : SetUnlessTerminal(j, s)
  /\ UNCHANGED <<stored, ctxDone, poolVars>>

Return(j) ==
  /\ j \in running
  /\ status[j] \in Terminal
  /\ running' = running \ {j}
  /\ returned' = returned \cup {j}
  /\ UNCHANGED <<status, stored, ctxDone, queue, held, poolDone>>

Stop ==
  /\ poolDone' = TRUE
  /\ UNCHANGED <<status, stored, ctxDone, queue, held, running, returned>>

(* A pool that stops drops the job it holds. *)
Drop ==
  /\ poolDone /\ held # NoJob
  /\ held' = NoJob
  /\ UNCHANGED <<status, stored, ctxDone, queue, running, returned, poolDone>>

--------------------------------------------------------------------------------
(* What others do to a job *)

Cancel(j) ==
  /\ ctxDone' = ctxDone \cup {j}
  /\ UNCHANGED <<status, stored, poolVars>>

Withdraw(j) ==
  /\ \/ /\ j \notin Queued
        /\ UNCHANGED queue
     \/ \E k \in DOMAIN queue : queue[k] = j /\ queue' = RemoveAt(queue, k)
  /\ UNCHANGED <<status, stored, ctxDone, held, running, returned, poolDone>>

MarkCancelled(j) ==
  /\ SetUnlessTerminal(j, "cancelled")
  /\ UNCHANGED <<stored, ctxDone, poolVars>>

(* The record of a finished job, or of one that was never put in the queue. *)
Forget(j) ==
  /\ status[j] \in Terminal \/ j \notin Placed
  /\ stored' = stored \ {j}
  /\ UNCHANGED <<status, ctxDone, poolVars>>

--------------------------------------------------------------------------------
PoolStep == Take \/ Start \/ \E j \in Jobs : Work(j) \/ Return(j)

Next ==
  \/ PoolStep \/ Drop \/ Stop
  \/ \E j \in Jobs :
       \/ \E s \in Waiting : Create(j, s)
       \/ Put(j) \/ Cancel(j) \/ Withdraw(j) \/ MarkCancelled(j) \/ Forget(j)

SafeSpec == Init /\ [][Next]_jobVars
================================================================================
