---------------------------- MODULE Downloads_proofs ---------------------------
(***************************************************************************)
(* Proofs about Downloads for any set of jobs, any number of requests in    *)
(* flight, any number of worker slots and any queue capacity.              *)
(*                                                                         *)
(* The step lemmas hold for any set of protected records, so a module that *)
(* adds batches can use them for the steps it shares with Downloads.       *)
(***************************************************************************)
EXTENDS Downloads, SequenceFacts, FiniteSetTheorems

Step(protected) ==
  RecordNext(protected) \/ (\E j \in Jobs : SetRecord(j)) \/ AdmissionStep

--------------------------------------------------------------------------------
(* Requests keep their type as they begin, move on and end. *)
LEMMA RequestTypes ==
  ASSUME req \in [Clients -> Requests], NEW c \in Clients
  PROVE  /\ \A j \in Jobs :
              /\ Begin(c, "cancel", j, "got") => req' \in [Clients -> Requests]
              /\ Begin(c, "delete", j, "checked") => req' \in [Clients -> Requests]
              /\ Begin(c, "fetch", j, "got") => req' \in [Clients -> Requests]
         /\ \A op, from : Done(c, op, from) => req' \in [Clients -> Requests]
         /\ Advance(c, "cancel", "got", "cancelled") => req' \in [Clients -> Requests]
         /\ Advance(c, "cancel", "cancelled", "dequeued") => req' \in [Clients -> Requests]
         /\ Advance(c, "delete", "checked", "locked") => req' \in [Clients -> Requests]
         /\ Advance(c, "delete", "locked", "cancelled") => req' \in [Clients -> Requests]
         /\ Advance(c, "delete", "cancelled", "dequeued") => req' \in [Clients -> Requests]
         /\ Advance(c, "fetch", "got", "reading") => req' \in [Clients -> Requests]
BY DEF Begin, Advance, Done, Requests, Idle

(* A request that is under way names a job. *)
LEMMA RequestJob ==
  ASSUME req \in [Clients -> Requests], NEW c \in Clients, req[c].op # "none"
  PROVE  req[c].job \in Jobs
BY DEF Requests, Idle

--------------------------------------------------------------------------------
(* Type correctness and the count of the slots belong together: a goroutine
   that ends takes a token out of the semaphore, which must be there. *)

ActiveJobs == {j \in Jobs : run[j] \in Active}

SlotCount == sem = Cardinality(ActiveJobs) /\ sem <= MaxConcurrent

LEMMA SlotHeld ==
  ASSUME TypeOK, SlotCount, NEW j \in Jobs, run[j] \in Active
  PROVE  sem \in Nat \ {0}
<1>1. IsFiniteSet(ActiveJobs) /\ j \in ActiveJobs
  BY FS_Subset, DownloadsAssumption DEF ActiveJobs
<1>2. Cardinality(ActiveJobs) \in Nat /\ Cardinality(ActiveJobs) # 0
  BY <1>1, FS_CardinalityType, FS_EmptySet
<1> QED
  BY <1>2 DEF SlotCount

LEMMA DropTypes ==
  ASSUME queue \in Seq(Jobs), NEW j, DropQueued(j)
  PROVE  /\ queue' \in Seq(Jobs)
         /\ ToSet(queue') \subseteq ToSet(queue)
         /\ Distinct(queue) => Distinct(queue')
<1>1. CASE UNCHANGED queue
  BY <1>1
<1>2. CASE \E k \in DOMAIN queue : queue' = RemoveAt(queue, k)
  <2>1. PICK k \in DOMAIN queue : queue' = RemoveAt(queue, k)
    BY <1>2
  <2>2. k \in 1 .. Len(queue)
    BY <2>1, LenProperties
  <2> QED
    BY <2>1, <2>2, RemoveAtProperties, RemoveAtRange, RemoveAtDistinct
<1> QED
  BY <1>1, <1>2 DEF DropQueued

LEMMA TypeStep ==
  ASSUME NEW protected, TypeOK, SlotCount, Step(protected)
  PROVE  TypeOK'
<1> USE DEF TypeOK
<1>1. CASE \E j \in Jobs : SetRecord(j)
  BY <1>1 DEF SetRecord, Live, poolVars, workerVars
<1>2. CASE EnqueueRecord
  <2>1. Append(queue, admitting) \in Seq(Jobs)
    BY <1>2, AppendProperties, DownloadsAssumption DEF EnqueueRecord
  <2> QED
    BY <1>2, <2>1 DEF EnqueueRecord, recordVars, workerVars
<1>3. CASE Rollback
  BY <1>3 DEF Rollback, poolVars, workerVars
<1>4. CASE Pop
  <2>1. Tail(queue) \in Seq(Jobs) /\ Head(queue) \in Jobs
    BY <1>4, HeadTailProperties DEF Pop
  <2> QED
    BY <1>4, <2>1 DEF Pop, Dispatch, recordVars, workerVars
<1>5. CASE EnterNext \/ ParkDispatcher \/ WakeDispatcher \/ StopDispatcher \/ StopPool
  <2>1. CASE EnterNext \/ ParkDispatcher \/ WakeDispatcher \/ StopDispatcher
    <3>1. dispatcher' \in [at: {"entering", "popping", "parked", "slot", "stopped"},
                           job: Jobs \cup {NoJob}]
      BY <2>1 DEF EnterNext, ParkDispatcher, WakeDispatcher, StopDispatcher, Dispatch
    <3> QED
      BY <2>1, <3>1 DEF EnterNext, ParkDispatcher, WakeDispatcher, StopDispatcher,
        recordVars, workerVars
  <2>2. CASE StopPool
    BY <2>2 DEF StopPool, recordVars, workerVars
  <2> QED
    BY <1>5, <2>1, <2>2
<1>6. CASE AcquireSlot
  <2>1. dispatcher' \in [at: {"entering", "popping", "parked", "slot", "stopped"},
                         job: Jobs \cup {NoJob}]
    BY <1>6 DEF AcquireSlot, Dispatch
  <2>2. sem' \in Nat
    BY <1>6 DEF AcquireSlot
  <2>3. run' \in [Jobs -> {"none", "done"} \cup Active]
    BY <1>6 DEF AcquireSlot, Active, Entering
  <2> QED
    BY <1>6, <2>1, <2>2, <2>3 DEF AcquireSlot, recordVars
<1>7. ASSUME NEW j \in Jobs, WorkerStep(j) PROVE TypeOK'
  <2>1. CASE LookUp(j)
    <3>1. run[j] = "spawned" => sem \in Nat \ {0}
      BY SlotHeld DEF Active, Entering
    <3> QED
      BY <2>1, <3>1 DEF LookUp, Goto, Active, Entering, recordVars, poolVars
  <2>2. CASE OwnFiles(j)
    BY <2>2 DEF OwnFiles, Goto, Active, Owning, recordVars, poolVars
  <2>3. CASE RunUpdate(j)
    BY <2>3 DEF RunUpdate, CheckContext, StartJob, Prepare, Goto, SetUnlessTerminal,
      Active, Owning, Live, Terminal, poolVars
  <2>4. CASE EndTimeout(j)
    BY <2>4 DEF EndTimeout, recordVars, poolVars
  <2>5. CASE Launch(j)
    BY <2>5 DEF Launch, Goto, Active, Owning, recordVars, poolVars
  <2>6. CASE Exit(j)
    BY <2>6 DEF Exit, Goto, Active, Owning, recordVars, poolVars
  <2>7. CASE CollectResults(j)
    BY <2>7 DEF CollectResults, Goto, Active, Owning, poolVars
  <2>8. CASE Finish(j)
    <3>1. FinalStatus(j) \in Terminal
      BY DEF FinalStatus, Terminal
    <3> QED
      BY <2>8, <3>1 DEF Finish, Goto, Active, Owning, poolVars
  <2>9. CASE Return(j)
    <3>1. run[j] = "finished" => sem \in Nat \ {0}
      BY SlotHeld DEF Active, Owning
    <3> QED
      BY <2>9, <3>1 DEF Return, Goto, recordVars
  <2> QED
    BY <1>7, <2>1, <2>2, <2>3, <2>4, <2>5, <2>6, <2>7, <2>8, <2>9 DEF WorkerStep
<1>8. ASSUME NEW j \in Jobs, NEW s \in {"downloading", "processing", "failed"}, Report(j, s)
      PROVE  TypeOK'
  BY <1>8 DEF Report, SetUnlessTerminal, Live, Terminal, poolVars, workerVars
<1>9. ASSUME NEW j \in Jobs, ExpireRecord(j, protected) PROVE TypeOK'
  BY <1>9 DEF ExpireRecord, poolVars, workerVars
<1>10. ASSUME NEW c \in Clients, NEW j \in Jobs,
              BeginCancel(c, j) \/ BeginDelete(c, j, protected) \/ BeginFetch(c, j)
       PROVE  TypeOK'
  BY <1>10, RequestTypes
    DEF BeginCancel, BeginDelete, BeginFetch, recordVars, poolVars, workerVars
<1>11. ASSUME NEW c \in Clients, RequestStep(c) PROVE TypeOK'
  <2>1. CASE LockFiles(c) \/ ReadFiles(c) \/ EndFetch(c)
    BY <2>1, RequestTypes DEF LockFiles, ReadFiles, EndFetch, recordVars, poolVars, workerVars
  <2>2. CASE CancelContext(c)
    <3>1. req[c].job \in Jobs /\ req' \in [Clients -> Requests]
      BY <2>2, RequestTypes, RequestJob DEF CancelContext, Advance
    <3> QED
      BY <2>2, <3>1 DEF CancelContext, poolVars, workerVars
  <2>3. CASE RemoveQueued(c)
    <3>1. req' \in [Clients -> Requests]
      BY <2>3, RequestTypes DEF RemoveQueued
    <3>2. queue' \in Seq(Jobs)
      BY <2>3, DropTypes DEF RemoveQueued
    <3> QED
      BY <2>3, <3>1, <3>2 DEF RemoveQueued, recordVars, workerVars
  <2>4. CASE MarkCancelled(c)
    <3>1. req' \in [Clients -> Requests]
      BY <2>4, RequestTypes DEF MarkCancelled
    <3> QED
      BY <2>4, <3>1 DEF MarkCancelled, SetUnlessTerminal, Terminal, poolVars, workerVars
  <2>5. CASE DeleteRecord(c)
    <3>1. req' \in [Clients -> Requests]
      BY <2>5, RequestTypes DEF DeleteRecord
    <3> QED
      BY <2>5, <3>1 DEF DeleteRecord, poolVars, workerVars
  <2> QED
    BY <1>11, <2>1, <2>2, <2>3, <2>4, <2>5 DEF RequestStep
<1>12. CASE TrimHistory(protected)
  BY <1>12 DEF TrimHistory, Excess, recordVars, poolVars, workerVars
<1>13. CASE TrimRecord
  BY <1>13 DEF TrimRecord, poolVars, workerVars
<1> QED
  BY <1>1, <1>2, <1>3, <1>4, <1>5, <1>6, <1>7, <1>8, <1>9, <1>10, <1>11, <1>12, <1>13
  DEF Step, RecordNext, DispatcherStep, AdmissionStep

--------------------------------------------------------------------------------
(* A job that waits is in one place only: being admitted, in the queue or in
   the dispatcher's hands; and a job that waits has not run. *)
Placed ==
  /\ Distinct(queue)
  /\ admitting \notin Queued /\ dispatcher.job \notin Queued
  /\ admitting = dispatcher.job => admitting = NoJob
  /\ dispatcher.at = "slot" <=> dispatcher.job \in Jobs
  /\ \A j \in Jobs :
       j \in Queued \/ j = admitting \/ j = dispatcher.job => run[j] = "none"
  /\ \A j \in Jobs : status[j] = "none" =>
       /\ run[j] = "none"
       /\ j \notin Queued /\ j # admitting /\ j # dispatcher.job /\ j \notin stored

placeVars == <<queue, admitting, dispatcher>>

LEMMA NoJobIsNone == NoJob \notin Jobs
BY DownloadsAssumption DEF NoJob

LEMMA QueuedJobs ==
  ASSUME TypeOK
  PROVE  Queued \subseteq Jobs
BY ToSetIsRange DEF TypeOK, Queued

(* Steps that leave every waiting job where it is and start none. *)
LEMMA PlacedFrame ==
  ASSUME TypeOK, Placed, UNCHANGED placeVars, stored' \subseteq stored,
         \A j \in Jobs : run[j] = "none" => run'[j] = "none",
         \A j \in Jobs : status'[j] = "none" => status[j] = "none"
  PROVE  Placed'
<1>1. Queued' = Queued
  BY DEF Queued, placeVars
<1> QED
  BY <1>1 DEF Placed, placeVars

LEMMA PlacedStep ==
  ASSUME NEW protected, TypeOK, SlotCount, Placed, Step(protected)
  PROVE  Placed'
<1> USE NoJobIsNone, QueuedJobs
<1>1. ASSUME NEW j \in Jobs, SetRecord(j) PROVE Placed'
  <2>1. Queued' = Queued
    BY <1>1 DEF SetRecord, poolVars, Queued
  <2> QED
    BY <1>1, <2>1 DEF SetRecord, Fresh, Placed, poolVars, workerVars, TypeOK
<1>2. CASE EnqueueRecord
  <2>1. admitting \in Jobs /\ admitting \notin ToSet(queue)
    BY <1>2 DEF EnqueueRecord, Placed, Queued, TypeOK
  <2>2. Queued' = Queued \cup {admitting}
    BY <1>2, <2>1, AppendRange DEF EnqueueRecord, Queued, TypeOK
  <2>3. Distinct(queue')
    BY <1>2, <2>1, AppendDistinct DEF EnqueueRecord, TypeOK, Placed
  <2> QED
    BY <1>2, <2>1, <2>2, <2>3 DEF EnqueueRecord, Placed, recordVars, workerVars, TypeOK
<1>3. CASE Rollback
  <2>1. Queued' = Queued
    BY <1>3 DEF Rollback, poolVars, Queued
  <2> QED
    BY <1>3, <2>1 DEF Rollback, Placed, poolVars, workerVars
<1>4. CASE Pop
  <2>1. Queued' \subseteq Queued /\ Head(queue) \in Queued
    BY <1>4, TailRange DEF Pop, Queued, TypeOK
  <2>2. Distinct(queue') /\ Head(queue) \notin Queued'
    BY <1>4, TailDistinct DEF Pop, Queued, TypeOK, Placed
  <2>3. dispatcher'.at = "slot" /\ dispatcher'.job = Head(queue)
    BY <1>4 DEF Pop, Dispatch
  <2> QED
    BY <1>4, <2>1, <2>2, <2>3 DEF Pop, Placed, recordVars, workerVars, TypeOK
<1>5. CASE EnterNext \/ ParkDispatcher \/ WakeDispatcher \/ StopDispatcher
  <2>1. dispatcher'.at # "slot" /\ dispatcher'.job = NoJob
    BY <1>5 DEF EnterNext, ParkDispatcher, WakeDispatcher, StopDispatcher, Dispatch
  <2>2. Queued' = Queued /\ UNCHANGED <<queue, admitting, run, status, stored>>
    BY <1>5 DEF EnterNext, ParkDispatcher, WakeDispatcher, StopDispatcher, Queued,
      recordVars, workerVars
  <2> QED
    BY <2>1, <2>2 DEF Placed
<1>6. CASE AcquireSlot
  <2>1. dispatcher'.at # "slot" /\ dispatcher'.job = NoJob
    BY <1>6 DEF AcquireSlot, Dispatch
  <2>2. Queued' = Queued /\ UNCHANGED <<queue, admitting, status, stored>>
    BY <1>6 DEF AcquireSlot, Queued, recordVars
  <2>3. \A j \in Jobs : j # dispatcher.job => run'[j] = run[j]
    BY <1>6 DEF AcquireSlot, TypeOK
  <2> QED
    BY <2>1, <2>2, <2>3 DEF Placed
<1>7. ASSUME NEW j \in Jobs, WorkerStep(j) PROVE Placed'
  <2>1. UNCHANGED placeVars /\ UNCHANGED stored
    BY <1>7 DEF WorkerStep, LookUp, OwnFiles, RunUpdate, EndTimeout, Launch, Exit,
      CollectResults, Finish, Return, placeVars, poolVars, recordVars
  <2>2. \A i \in Jobs : run[i] = "none" => run'[i] = "none"
    BY <1>7 DEF WorkerStep, LookUp, OwnFiles, RunUpdate, CheckContext, StartJob, Prepare,
      EndTimeout, Launch, Exit, CollectResults, Finish, Return, Goto, TypeOK
  <2>3. \A i \in Jobs : status'[i] = "none" => status[i] = "none"
    <3>1. FinalStatus(j) # "none"
      BY DEF FinalStatus
    <3> QED
      BY <1>7, <3>1 DEF WorkerStep, LookUp, OwnFiles, RunUpdate, CheckContext, StartJob,
        Prepare, EndTimeout, Launch, Exit, CollectResults, Finish, Return,
        SetUnlessTerminal, recordVars, TypeOK
  <2> QED
    BY <2>1, <2>2, <2>3, PlacedFrame
<1>8. ASSUME NEW j \in Jobs, NEW s \in {"downloading", "processing", "failed"}, Report(j, s)
      PROVE  Placed'
  <2>1. \A i \in Jobs : status'[i] = "none" => status[i] = "none"
    BY <1>8 DEF Report, SetUnlessTerminal, TypeOK
  <2> QED
    BY <1>8, <2>1, PlacedFrame DEF Report, placeVars, poolVars, workerVars
<1>9. ASSUME NEW c \in Clients, RequestStep(c) PROVE Placed'
  <2>1. CASE RemoveQueued(c)
    <3>1. Queued' \subseteq Queued /\ Distinct(queue')
      BY <2>1, DropTypes DEF RemoveQueued, Queued, Placed, TypeOK
    <3> QED
      BY <2>1, <3>1 DEF RemoveQueued, Placed, recordVars, workerVars
  <2>2. CASE MarkCancelled(c)
    <3>1. \A i \in Jobs : status'[i] = "none" => status[i] = "none"
      BY <2>2 DEF MarkCancelled, SetUnlessTerminal, TypeOK
    <3> QED
      BY <2>2, <3>1, PlacedFrame DEF MarkCancelled, placeVars, poolVars, workerVars
  <2>3. CASE LockFiles(c) \/ CancelContext(c) \/ DeleteRecord(c) \/ ReadFiles(c) \/ EndFetch(c)
    BY <2>3, PlacedFrame DEF LockFiles, CancelContext, DeleteRecord, ReadFiles, EndFetch,
      placeVars, recordVars, poolVars, workerVars
  <2> QED
    BY <1>9, <2>1, <2>2, <2>3 DEF RequestStep
<1>10. ASSUME NEW c \in Clients, NEW j \in Jobs,
              BeginCancel(c, j) \/ BeginDelete(c, j, protected) \/ BeginFetch(c, j)
       PROVE  Placed'
  BY <1>10, PlacedFrame DEF BeginCancel, BeginDelete, BeginFetch,
    placeVars, recordVars, poolVars, workerVars
<1>11. CASE TrimHistory(protected) \/ TrimRecord \/ StopPool
  BY <1>11, PlacedFrame DEF TrimHistory, TrimRecord, StopPool,
    placeVars, recordVars, poolVars, workerVars
<1>12. ASSUME NEW j \in Jobs, ExpireRecord(j, protected) PROVE Placed'
  BY <1>12, PlacedFrame DEF ExpireRecord, placeVars, poolVars, workerVars
<1> QED
  BY <1>1, <1>2, <1>3, <1>4, <1>5, <1>6, <1>7, <1>8, <1>9, <1>10, <1>11, <1>12
  DEF Step, RecordNext, DispatcherStep, AdmissionStep

--------------------------------------------------------------------------------
(* The semaphore counts the goroutines: it gains a token with the one goroutine
   a step starts, and loses one with the one that ends. *)
LEMMA ActiveFinite == IsFiniteSet(ActiveJobs) /\ IsFiniteSet(ActiveJobs')
BY FS_Subset, DownloadsAssumption DEF ActiveJobs

LEMMA SlotFrame ==
  ASSUME SlotCount, UNCHANGED sem,
         \A j \in Jobs : run[j] \in Active <=> run'[j] \in Active
  PROVE  SlotCount'
<1>1. ActiveJobs' = ActiveJobs
  BY DEF ActiveJobs
<1> QED
  BY <1>1 DEF SlotCount

LEMMA SlotReleased ==
  ASSUME TypeOK, SlotCount, NEW j \in Jobs, run[j] \in Active,
         run' = [run EXCEPT ![j] = "done"], sem' = sem - 1
  PROVE  SlotCount'
<1>1. ActiveJobs' = ActiveJobs \ {j} /\ j \in ActiveJobs
  BY DEF ActiveJobs, TypeOK, Active, Entering, Owning
<1>2. Cardinality(ActiveJobs') = Cardinality(ActiveJobs) - 1
  BY <1>1, ActiveFinite, FS_RemoveElement
<1>3. sem \in Nat /\ MaxConcurrent \in Nat
  BY DownloadsAssumption DEF TypeOK
<1> QED
  BY <1>2, <1>3 DEF SlotCount

LEMMA SlotStep ==
  ASSUME NEW protected, TypeOK, SlotCount, Placed, Step(protected)
  PROVE  SlotCount'
<1>1. ASSUME NEW j \in Jobs, WorkerStep(j) PROVE SlotCount'
  <2>1. CASE LookUp(j) /\ run'[j] = "done"
    BY <2>1, SlotReleased DEF LookUp, Goto, TypeOK, Active, Entering
  <2>2. CASE LookUp(j) /\ run'[j] # "done"
    BY <2>2, SlotFrame DEF LookUp, Goto, TypeOK, Active, Entering, poolVars
  <2>3. CASE Return(j)
    BY <2>3, SlotReleased DEF Return, Goto, Active, Owning
  <2>4. CASE RunUpdate(j)
    BY <2>4, SlotFrame DEF RunUpdate, CheckContext, StartJob, Prepare, Goto, TypeOK,
      Active, Owning, Entering, poolVars
  <2>5. CASE OwnFiles(j) \/ EndTimeout(j) \/ Launch(j) \/ Exit(j) \/ CollectResults(j)
               \/ Finish(j)
    BY <2>5, SlotFrame DEF OwnFiles, EndTimeout, Launch, Exit, CollectResults, Finish,
      Goto, TypeOK, Active, Owning, Entering, poolVars
  <2> QED
    BY <1>1, <2>1, <2>2, <2>3, <2>4, <2>5 DEF WorkerStep
<1>2. CASE AcquireSlot
  <2>1. dispatcher.job \in Jobs /\ run[dispatcher.job] = "none"
    BY <1>2 DEF AcquireSlot, Dispatch, Placed
  <2>2. /\ ActiveJobs' = ActiveJobs \cup {dispatcher.job}
        /\ dispatcher.job \notin ActiveJobs
    BY <1>2, <2>1 DEF AcquireSlot, ActiveJobs, TypeOK, Active, Entering, Owning
  <2>3. Cardinality(ActiveJobs') = Cardinality(ActiveJobs) + 1
    BY <2>2, ActiveFinite, FS_AddElement
  <2>4. sem \in Nat /\ MaxConcurrent \in Nat
    BY DownloadsAssumption DEF TypeOK
  <2> QED
    BY <1>2, <2>3, <2>4 DEF AcquireSlot, SlotCount
<1>3. ASSUME NEW j \in Jobs PROVE /\ SetRecord(j) => SlotCount'
                                  /\ ExpireRecord(j, protected) => SlotCount'
                                  /\ \A s : Report(j, s) => SlotCount'
  BY SlotFrame DEF SetRecord, ExpireRecord, Report, poolVars, workerVars
<1>4. ASSUME NEW c \in Clients, RequestStep(c) PROVE SlotCount'
  BY <1>4, SlotFrame DEF RequestStep, LockFiles, CancelContext, RemoveQueued, MarkCancelled,
    DeleteRecord, ReadFiles, EndFetch, poolVars, workerVars
<1>5. ASSUME NEW c \in Clients, NEW j \in Jobs,
             BeginCancel(c, j) \/ BeginDelete(c, j, protected) \/ BeginFetch(c, j)
      PROVE  SlotCount'
  BY <1>5, SlotFrame DEF BeginCancel, BeginDelete, BeginFetch, poolVars, workerVars
<1>6. CASE TrimHistory(protected) \/ TrimRecord \/ AdmissionStep
  BY <1>6, SlotFrame DEF TrimHistory, TrimRecord, AdmissionStep, EnqueueRecord, Rollback,
    poolVars, workerVars
<1>7. CASE StopPool \/ EnterNext \/ Pop \/ ParkDispatcher \/ WakeDispatcher \/ StopDispatcher
  BY <1>7, SlotFrame DEF StopPool, EnterNext, Pop, ParkDispatcher, WakeDispatcher,
    StopDispatcher, workerVars
<1> QED
  BY <1>1, <1>2, <1>3, <1>4, <1>5, <1>6, <1>7 DEF Step, RecordNext, DispatcherStep

--------------------------------------------------------------------------------
(* What all the other proofs rest on: types, places and the count of slots. *)
Basic == TypeOK /\ Placed /\ SlotCount

LEMMA BasicInit == Init => Basic
<1> SUFFICES ASSUME Init PROVE Basic
  OBVIOUS
<1>1. TypeOK
  BY EmptySeq DEF Init, TypeOK, Requests
<1>2. ToSet(<< >>) = {}
  BY EmptySeq DEF ToSet
<1>3. Placed
  BY <1>2, EmptyDistinct, NoJobIsNone DEF Init, Placed, Queued
<1>4. ActiveJobs = {}
  BY DEF Init, ActiveJobs, Active, Entering, Owning
<1>5. SlotCount
  BY <1>4, FS_EmptySet, DownloadsAssumption DEF Init, SlotCount
<1> QED
  BY <1>1, <1>3, <1>5 DEF Basic

LEMMA BasicStutter ==
  ASSUME Basic, UNCHANGED vars
  PROVE  Basic'
<1> USE DEF vars, recordVars, poolVars, workerVars
<1>1. TypeOK'
  BY DEF Basic, TypeOK
<1>2. Placed'
  BY DEF Basic, Placed, Queued
<1>3. SlotCount'
  BY DEF Basic, SlotCount, ActiveJobs
<1> QED
  BY <1>1, <1>2, <1>3 DEF Basic

LEMMA NextIsStep == Next => Step({})
BY DEF Next, Step

LEMMA BasicStep ==
  ASSUME NEW protected, Basic, Step(protected)
  PROVE  Basic'
BY TypeStep, PlacedStep, SlotStep DEF Basic

LEMMA BasicCorrect == SafeSpec => []Basic
<1>1. Basic /\ [Next]_vars => Basic'
  BY BasicStep, NextIsStep, BasicStutter
<1> QED
  BY <1>1, BasicInit, PTL DEF SafeSpec

(* Every variable keeps its type.  The semaphore's needs the count of slots:
   no goroutine ever releases a token that is not there. *)
THEOREM TypeCorrect == SafeSpec => []TypeOK
BY BasicCorrect, PTL DEF Basic

(* At most MaxConcurrent downloads run at once, for any number of slots, jobs
   and requests, through every early return of Worker.Run. *)
THEOREM SlotsBoundCorrect == SafeSpec => []SlotsBound
<1>1. Basic => SlotsBound
  BY DEF Basic, SlotCount, ActiveJobs, SlotsBound
<1> QED
  BY <1>1, BasicCorrect, PTL

--------------------------------------------------------------------------------
(* How a run ends.  The worker decides it in steps that look at the contexts
   anew each time; the invariant keeps what each step may rely on. *)
Undecided ==
  {"none", "spawned", "found", "owning", "checked", "started", "launching", "running",
   "exited", "reporting"}

RunInv ==
  \A j \in Jobs :
    /\ run[j] \in Undecided => status[j] # "completed"
    /\ timeout[j] = "cancelled" => poolDone \/ j \in ctxDone
    /\ run[j] \in {"exited", "reporting"} =>
         /\ outcome[j] # "none"
         /\ timeout[j] = "overflow" => outcome[j] = "error"
    /\ run[j] = "reporting" /\ outcome[j] = "clean" /\ timeout[j] = "live" =>
         j \in collected \/ j \in ctxDone
    /\ status[j] = "completed" => j \in collected

runVars == <<poolDone, run, timeout, outcome, collected>>

LEMMA RunFrame ==
  ASSUME RunInv, UNCHANGED runVars, ctxDone \subseteq ctxDone',
         \A j \in Jobs : status'[j] = "completed" => status[j] = "completed"
  PROVE  RunInv'
BY DEF RunInv, runVars

LEMMA NeverMarkedCompleted ==
  ASSUME TypeOK, NEW j, NEW s, s # "completed", SetUnlessTerminal(j, s)
  PROVE  \A i \in Jobs : status'[i] = "completed" => status[i] = "completed"
BY DEF SetUnlessTerminal, TypeOK

LEMMA RunInvWorker ==
  ASSUME TypeOK, RunInv, NEW j \in Jobs, WorkerStep(j)
  PROVE  RunInv'
<1> USE DEF Undecided
<1>1. CASE LookUp(j) \/ OwnFiles(j)
  <2>1. \A i \in Jobs : \/ run'[i] = run[i]
                        \/ run'[i] \in {"found", "owning", "done"} /\ run[i] \in Undecided
    BY <1>1 DEF LookUp, OwnFiles, Goto, TypeOK
  <2> QED
    BY <1>1, <2>1 DEF LookUp, OwnFiles, RunInv, recordVars, poolVars
<1>2. CASE RunUpdate(j)
  <2>1. \A i \in Jobs : status'[i] = "completed" => status[i] = "completed"
    BY <1>2, NeverMarkedCompleted DEF RunUpdate, CheckContext, StartJob, Prepare
  <2>2. \A i \in Jobs : \/ run'[i] = run[i]
                        \/ /\ run'[i] \in {"checked", "started", "launching", "finished"}
                           /\ run[i] \in Undecided
    BY <1>2 DEF RunUpdate, CheckContext, StartJob, Prepare, Goto, TypeOK
  <2> QED
    BY <1>2, <2>1, <2>2 DEF RunUpdate, RunInv, poolVars
<1>3. CASE EndTimeout(j)
  BY <1>3 DEF EndTimeout, RunInv, TypeOK, recordVars, poolVars
<1>4. CASE Launch(j)
  BY <1>4 DEF Launch, Goto, RunInv, TypeOK, recordVars, poolVars
<1>5. CASE Exit(j)
  BY <1>5 DEF Exit, Goto, RunInv, TypeOK, recordVars, poolVars
<1>6. CASE CollectResults(j)
  BY <1>6 DEF CollectResults, Goto, RunInv, TypeOK, poolVars
<1>7. CASE Finish(j)
  <2>1. \A i \in Jobs : i # j => run'[i] = run[i] /\ status'[i] = status[i]
    BY <1>7 DEF Finish, Goto, TypeOK
  <2>2. run'[j] = "finished" /\ status'[j] = FinalStatus(j) /\ run[j] = "reporting"
    BY <1>7 DEF Finish, Goto, TypeOK
  <2>3. FinalStatus(j) = "completed" => j \in collected
    BY <2>2 DEF FinalStatus, RunInv, TypeOK
  <2> QED
    BY <1>7, <2>1, <2>2, <2>3 DEF Finish, RunInv, poolVars
<1>8. CASE Return(j)
  BY <1>8 DEF Return, Goto, RunInv, TypeOK, recordVars
<1> QED
  BY <1>1, <1>2, <1>3, <1>4, <1>5, <1>6, <1>7, <1>8 DEF WorkerStep

LEMMA RunInvStep ==
  ASSUME NEW protected, Basic, RunInv, Step(protected)
  PROVE  RunInv'
<1> USE DEF Basic
<1>1. ASSUME NEW j \in Jobs, SetRecord(j) PROVE RunInv'
  <2>1. \A i \in Jobs : status'[i] = "completed" => status[i] = "completed"
    BY <1>1 DEF SetRecord, TypeOK
  <2> QED
    BY <1>1, <2>1, RunFrame DEF SetRecord, runVars, poolVars, workerVars
<1>2. CASE AcquireSlot
  <2>1. run[dispatcher.job] = "none" /\ dispatcher.job \in Jobs
    BY <1>2 DEF AcquireSlot, Dispatch, Placed
  <2> QED
    BY <1>2, <2>1 DEF AcquireSlot, RunInv, TypeOK, recordVars, Undecided
<1>3. ASSUME NEW j \in Jobs, NEW s \in {"downloading", "processing", "failed"}, Report(j, s)
      PROVE  RunInv'
  BY <1>3, NeverMarkedCompleted, RunFrame DEF Report, runVars, poolVars, workerVars
<1>4. ASSUME NEW c \in Clients, RequestStep(c) PROVE RunInv'
  <2>1. CASE MarkCancelled(c)
    BY <2>1, NeverMarkedCompleted, RunFrame DEF MarkCancelled, runVars, poolVars, workerVars
  <2>2. CASE \/ LockFiles(c) \/ CancelContext(c) \/ RemoveQueued(c) \/ DeleteRecord(c)
             \/ ReadFiles(c) \/ EndFetch(c)
    BY <2>2, RunFrame DEF LockFiles, CancelContext, RemoveQueued, DeleteRecord, ReadFiles,
      EndFetch, runVars, recordVars, poolVars, workerVars
  <2> QED
    BY <1>4, <2>1, <2>2 DEF RequestStep
<1>5. ASSUME NEW c \in Clients, NEW j \in Jobs,
             BeginCancel(c, j) \/ BeginDelete(c, j, protected) \/ BeginFetch(c, j)
      PROVE  RunInv'
  BY <1>5, RunFrame DEF BeginCancel, BeginDelete, BeginFetch, runVars, recordVars, poolVars,
    workerVars
<1>6. CASE TrimHistory(protected) \/ TrimRecord \/ AdmissionStep
  BY <1>6, RunFrame DEF TrimHistory, TrimRecord, AdmissionStep, EnqueueRecord, Rollback,
    runVars, recordVars, poolVars, workerVars
<1>7. CASE EnterNext \/ Pop \/ ParkDispatcher \/ WakeDispatcher \/ StopDispatcher
  BY <1>7, RunFrame DEF EnterNext, Pop, ParkDispatcher, WakeDispatcher, StopDispatcher,
    runVars, recordVars, workerVars
<1>8. CASE StopPool
  BY <1>8 DEF StopPool, RunInv, recordVars, workerVars
<1>9. ASSUME NEW j \in Jobs, ExpireRecord(j, protected) PROVE RunInv'
  BY <1>9, RunFrame DEF ExpireRecord, runVars, poolVars, workerVars
<1> QED
  BY <1>1, <1>2, <1>3, <1>4, <1>5, <1>6, <1>7, <1>8, <1>9, RunInvWorker
  DEF Step, RecordNext, DispatcherStep

LEMMA RunInvCorrect == SafeSpec => []RunInv
<1>1. Init => RunInv
  BY DEF Init, RunInv
<1>2. Basic /\ RunInv /\ [Next]_vars => RunInv'
  <2>1. UNCHANGED vars /\ RunInv => RunInv'
    BY DEF vars, recordVars, poolVars, workerVars, RunInv
  <2> QED
    BY <2>1, RunInvStep, NextIsStep
<1> QED
  BY <1>1, <1>2, BasicCorrect, PTL DEF SafeSpec

(* A completed job has its results, although the decision to collect them and
   the final switch look at three contexts at different times. *)
THEOREM CompletedHasResultsCorrect == SafeSpec => []CompletedHasResults
<1>1. RunInv => CompletedHasResults
  BY DEF RunInv, CompletedHasResults
<1> QED
  BY <1>1, RunInvCorrect, PTL

(* A terminal status stays.  The one step that writes a status without looking
   for a terminal one is the worker's last; it may keep only what is not
   "completed", and by then the record cannot be. *)
LEMMA TerminalKept ==
  ASSUME Basic, RunInv, Next
  PROVE  \A j \in Jobs : status[j] \in Terminal => status'[j] = status[j]
<1> DEFINE Kept == \A j \in Jobs : status[j] \in Terminal => status'[j] = status[j]
<1> USE DEF Basic
<1>1. \A j, s : SetUnlessTerminal(j, s) => Kept
  BY DEF SetUnlessTerminal, TypeOK
<1>2. ASSUME NEW j \in Jobs PROVE SetRecord(j) => Kept
  BY DEF SetRecord, Fresh, TypeOK, Terminal
<1>3. ASSUME NEW j \in Jobs PROVE Finish(j) => Kept
  BY DEF Finish, Goto, FinalStatus, RunInv, Undecided, Terminal, TypeOK
<1>4. UNCHANGED status => Kept
  OBVIOUS
<1> HIDE DEF Kept
<1>5. ASSUME NEW j \in Jobs PROVE /\ RunUpdate(j) => Kept
                                  /\ \A s : Report(j, s) => Kept
                                  /\ ExpireRecord(j, {}) => Kept
  BY <1>1, <1>4 DEF RunUpdate, CheckContext, StartJob, Prepare, Report, ExpireRecord
<1>6. ASSUME NEW j \in Jobs, WorkerStep(j) PROVE Kept
  BY <1>3, <1>4, <1>5, <1>6 DEF WorkerStep, LookUp, OwnFiles, EndTimeout, Launch, Exit,
    CollectResults, Return, recordVars
<1>7. ASSUME NEW c \in Clients, RequestStep(c) PROVE Kept
  BY <1>1, <1>4, <1>7 DEF RequestStep, LockFiles, CancelContext, RemoveQueued,
    MarkCancelled, DeleteRecord, ReadFiles, EndFetch, recordVars
<1>8. ASSUME NEW c \in Clients, NEW j \in Jobs,
             BeginCancel(c, j) \/ BeginDelete(c, j, {}) \/ BeginFetch(c, j)
      PROVE  Kept
  BY <1>4, <1>8 DEF BeginCancel, BeginDelete, BeginFetch, recordVars
<1>9. TrimHistory({}) \/ TrimRecord \/ StopPool \/ AdmissionStep \/ DispatcherStep => Kept
  BY <1>4 DEF TrimHistory, TrimRecord, StopPool, AdmissionStep, EnqueueRecord, Rollback,
    DispatcherStep, EnterNext, Pop, ParkDispatcher, WakeDispatcher, AcquireSlot,
    StopDispatcher, recordVars
<1>10. Kept
  BY <1>2, <1>5, <1>6, <1>7, <1>8, <1>9 DEF Next, RecordNext
<1> QED
  BY <1>10 DEF Kept

(* Whichever of cancellation, progress lines, timeout, exit code and shutdown
   ends a job first decides its status for good. *)
THEOREM FirstTerminalStaysCorrect == SafeSpec => FirstTerminalStays
<1> DEFINE Kept == \A j \in Jobs : status[j] \in Terminal => status'[j] = status[j]
<1>1. Basic /\ RunInv /\ [Next]_vars => [Kept]_vars
  BY TerminalKept
<1> QED
  BY <1>1, BasicCorrect, RunInvCorrect, PTL DEF SafeSpec, FirstTerminalStays

--------------------------------------------------------------------------------
(* The files of a job.  The lock's own rule is enough: FilesExclusive needs no
   strengthening but the types. *)
LEMMA FilesStep ==
  ASSUME NEW protected, Basic, FilesExclusive, Step(protected)
  PROVE  FilesExclusive'
<1> USE DEF Basic, FilesExclusive
<1>1. ASSUME UNCHANGED req, \A j \in Jobs : run'[j] \in Owning => run[j] \in Owning
      PROVE  FilesExclusive'
  BY <1>1 DEF HoldsFiles, FileReaders
<1>2. ASSUME NEW c \in Clients, UNCHANGED run,
             \A d \in Clients : d # c => req'[d] = req[d],
             \A j \in Jobs : HoldsFiles(c, j)' => HoldsFiles(c, j),
             req'[c].op = "fetch" /\ req'[c].at = "reading" => ~FilesLocked(req'[c].job)
      PROVE  FilesExclusive'
  <2>1. \A j \in Jobs : \A d \in Clients : HoldsFiles(d, j)' => HoldsFiles(d, j)
    BY <1>2 DEF HoldsFiles
  <2>2. \A j \in Jobs : FileReaders(j)' \subseteq FileReaders(j) \cup {c}
    BY <1>2 DEF FileReaders
  <2>3. \A j \in Jobs : c \in FileReaders(j)' => ~FilesLocked(j)
    BY <1>2 DEF FileReaders
  <2> QED
    BY <1>2, <2>1, <2>2, <2>3 DEF FilesLocked
<1>3. ASSUME NEW c \in Clients, RequestStep(c) PROVE FilesExclusive'
  <2>1. CASE LockFiles(c) /\ req'[c].at = "locked"
    <3>1. CanLockFiles(req[c].job) /\ req' = [req EXCEPT ![c].at = "locked"] /\ UNCHANGED run
      BY <2>1 DEF LockFiles, Advance, Done, Idle, TypeOK, workerVars
    <3>2. \A j \in Jobs : \A d \in Clients : HoldsFiles(d, j)' =>
            HoldsFiles(d, j) \/ (d = c /\ j = req[c].job)
      BY <3>1 DEF HoldsFiles, TypeOK, Requests, Idle
    <3>3. \A j \in Jobs : FileReaders(j)' \subseteq FileReaders(j)
      BY <3>1 DEF FileReaders, TypeOK, Requests, Idle
    <3> QED
      BY <3>1, <3>2, <3>3 DEF CanLockFiles, FilesLocked
  <2>2. CASE LockFiles(c) /\ req'[c].at # "locked"
    BY <1>2, <2>2 DEF LockFiles, Advance, Done, Idle, HoldsFiles, TypeOK, Requests, workerVars
  <2>3. CASE CancelContext(c)
    BY <1>2, <2>3 DEF CancelContext, Advance, HoldsFiles, TypeOK, Requests, Idle, workerVars
  <2>4. CASE RemoveQueued(c)
    BY <1>2, <2>4 DEF RemoveQueued, Advance, HoldsFiles, TypeOK, Requests, Idle, workerVars
  <2>5. CASE MarkCancelled(c) \/ DeleteRecord(c) \/ EndFetch(c)
    BY <1>2, <2>5 DEF MarkCancelled, DeleteRecord, EndFetch, Done, HoldsFiles, TypeOK,
      Idle, workerVars
  <2>6. CASE ReadFiles(c)
    <3>1. ~FilesLocked(req[c].job) /\ UNCHANGED run
      BY <2>6 DEF ReadFiles, workerVars
    <3> QED
      BY <1>2, <2>6, <3>1 DEF ReadFiles, Advance, Done, HoldsFiles, TypeOK, Requests, Idle
  <2> QED
    BY <1>3, <2>1, <2>2, <2>3, <2>4, <2>5, <2>6 DEF RequestStep
<1>4. ASSUME NEW c \in Clients, NEW j \in Jobs,
             BeginCancel(c, j) \/ BeginDelete(c, j, protected) \/ BeginFetch(c, j)
      PROVE  FilesExclusive'
  BY <1>2, <1>4 DEF BeginCancel, BeginDelete, BeginFetch, Begin, HoldsFiles, Idle, TypeOK,
    workerVars
<1>5. ASSUME NEW j \in Jobs, WorkerStep(j) PROVE FilesExclusive'
  <2>1. CASE OwnFiles(j)
    <3>1. ~FilesLocked(j) /\ UNCHANGED req /\ \A i \in Jobs : i # j => run'[i] = run[i]
      BY <2>1 DEF OwnFiles, Goto, TypeOK
    <3> QED
      BY <3>1 DEF FilesLocked, HoldsFiles, FileReaders
  <2>2. CASE LookUp(j) \/ RunUpdate(j)
    BY <1>1, <2>2 DEF LookUp, RunUpdate, CheckContext, StartJob, Prepare, Goto, Owning, TypeOK
  <2>3. CASE EndTimeout(j) \/ Launch(j) \/ Exit(j) \/ CollectResults(j) \/ Finish(j) \/ Return(j)
    BY <1>1, <2>3 DEF EndTimeout, Launch, Exit, CollectResults, Finish, Return, Goto, Owning,
      TypeOK
  <2> QED
    BY <1>5, <2>1, <2>2, <2>3 DEF WorkerStep
<1>6. CASE DispatcherStep
  BY <1>1, <1>6 DEF DispatcherStep, EnterNext, Pop, ParkDispatcher, WakeDispatcher,
    AcquireSlot, StopDispatcher, workerVars, Owning, TypeOK
<1>7. ASSUME NEW j \in Jobs PROVE /\ SetRecord(j) => FilesExclusive'
                                  /\ ExpireRecord(j, protected) => FilesExclusive'
                                  /\ \A s : Report(j, s) => FilesExclusive'
  BY <1>1 DEF SetRecord, ExpireRecord, Report, workerVars
<1>8. CASE TrimHistory(protected) \/ TrimRecord \/ StopPool \/ AdmissionStep
  BY <1>1, <1>8 DEF TrimHistory, TrimRecord, StopPool, AdmissionStep, EnqueueRecord, Rollback,
    workerVars
<1> QED
  BY <1>3, <1>4, <1>5, <1>6, <1>7, <1>8 DEF Step, RecordNext

(* While a request removes a job, no worker owns its directory, no file of it
   is being sent and no second request removes it. *)
THEOREM FilesExclusiveCorrect == SafeSpec => []FilesExclusive
<1>1. Init => FilesExclusive
  BY DEF Init, FilesExclusive, HoldsFiles, Idle
<1>2. Basic /\ FilesExclusive /\ [Next]_vars => FilesExclusive'
  <2>1. FilesExclusive /\ UNCHANGED vars => FilesExclusive'
    BY DEF FilesExclusive, HoldsFiles, FileReaders, vars, workerVars
  <2> QED
    BY <2>1, FilesStep, NextIsStep
<1> QED
  BY <1>1, <1>2, BasicCorrect, PTL DEF SafeSpec

--------------------------------------------------------------------------------
(* A cancelled context stays cancelled, and a record that has gone never comes
   back: only a job that has never existed gets a record. *)
LEMMA GoneForGood ==
  ASSUME NEW protected, Basic, Step(protected)
  PROVE  /\ ctxDone \subseteq ctxDone'
         /\ \A j \in Jobs : j \notin stored /\ status[j] # "none" =>
              j \notin stored' /\ status'[j] # "none"
<1> USE DEF Basic
<1> DEFINE Gone == /\ ctxDone \subseteq ctxDone'
                   /\ \A j \in Jobs : j \notin stored /\ status[j] # "none" =>
                        j \notin stored' /\ status'[j] # "none"
<1>1. ASSUME NEW j, NEW s, s # "none", SetUnlessTerminal(j, s), UNCHANGED <<stored, ctxDone>>
      PROVE  Gone
  BY <1>1 DEF SetUnlessTerminal, TypeOK
<1>2. UNCHANGED status /\ stored' \subseteq stored /\ ctxDone \subseteq ctxDone' => Gone
  OBVIOUS
<1>3. ASSUME NEW j \in Jobs, SetRecord(j) PROVE Gone
  BY <1>3 DEF SetRecord, Fresh, TypeOK
<1>4. ASSUME NEW j \in Jobs, Finish(j) PROVE Gone
  <2>1. FinalStatus(j) # "none"
    BY DEF FinalStatus
  <2> QED
    BY <1>4, <2>1 DEF Finish, TypeOK
<1>5. ASSUME NEW c \in Clients, MarkCancelled(c) PROVE Gone
  BY <1>5, <1>1 DEF MarkCancelled
<1>6. ASSUME NEW j \in Jobs, RunUpdate(j) PROVE Gone
  BY <1>6 DEF RunUpdate, CheckContext, StartJob, Prepare, SetUnlessTerminal, TypeOK
<1>7. ASSUME NEW j \in Jobs, NEW s \in {"downloading", "processing", "failed"}, Report(j, s)
      PROVE  Gone
  BY <1>7 DEF Report, SetUnlessTerminal, TypeOK
<1> HIDE DEF Gone
<1>8. ASSUME NEW j \in Jobs, WorkerStep(j) PROVE Gone
  BY <1>2, <1>4, <1>6, <1>8 DEF WorkerStep, LookUp, OwnFiles, EndTimeout, Launch, Exit,
    CollectResults, Return, recordVars
<1>9. ASSUME NEW c \in Clients, RequestStep(c) PROVE Gone
  BY <1>2, <1>5, <1>9 DEF RequestStep, LockFiles, CancelContext, RemoveQueued,
    DeleteRecord, ReadFiles, EndFetch, recordVars
<1>10. ASSUME NEW c \in Clients, NEW j \in Jobs,
              BeginCancel(c, j) \/ BeginDelete(c, j, protected) \/ BeginFetch(c, j)
       PROVE  Gone
  BY <1>2, <1>10 DEF BeginCancel, BeginDelete, BeginFetch, recordVars
<1>11. ASSUME \/ TrimHistory(protected) \/ TrimRecord \/ StopPool \/ AdmissionStep
              \/ DispatcherStep \/ \E j \in Jobs : ExpireRecord(j, protected)
       PROVE  Gone
  BY <1>2, <1>11 DEF TrimHistory, TrimRecord, StopPool, AdmissionStep, EnqueueRecord, Rollback,
    DispatcherStep, EnterNext, Pop, ParkDispatcher, WakeDispatcher, AcquireSlot,
    StopDispatcher, ExpireRecord, recordVars
<1>12. Gone
  BY <1>3, <1>7, <1>8, <1>9, <1>10, <1>11 DEF Step, RecordNext
<1> QED
  BY <1>12 DEF Gone

(* How far a goroutine that has not passed the check gets in one step. *)
LEMMA BeforeTheCheck ==
  ASSUME NEW protected, Basic, Step(protected), NEW j \in Jobs
  PROVE  /\ run[j] = "none" => run'[j] \in {"none", "spawned"}
         /\ run[j] = "spawned" =>
              \/ run'[j] \in {"spawned", "done"}
              \/ run'[j] = "found" /\ j \in stored
         /\ run[j] = "found" => run'[j] \in {"found", "owning"}
         /\ run[j] = "owning" /\ j \in ctxDone => run'[j] \in {"owning", "finished"}
<1> USE DEF Basic
<1>1. CASE UNCHANGED run
  BY <1>1
<1>2. CASE AcquireSlot
  <2>1. run[dispatcher.job] = "none"
    BY <1>2 DEF AcquireSlot, Dispatch, Placed
  <2> QED
    BY <1>2, <2>1 DEF AcquireSlot, TypeOK
<1>3. ASSUME NEW i \in Jobs, WorkerStep(i)
      PROVE  /\ run[j] = "none" => run'[j] \in {"none", "spawned"}
             /\ run[j] = "spawned" =>
                  \/ run'[j] \in {"spawned", "done"}
                  \/ run'[j] = "found" /\ j \in stored
             /\ run[j] = "found" => run'[j] \in {"found", "owning"}
             /\ run[j] = "owning" /\ j \in ctxDone => run'[j] \in {"owning", "finished"}
  BY <1>3 DEF WorkerStep, LookUp, OwnFiles, RunUpdate, CheckContext, StartJob, Prepare,
    EndTimeout, Launch, Exit, CollectResults, Finish, Return, Goto, TypeOK
<1>4. (DispatcherStep /\ ~AcquireSlot) \/ StopPool \/ AdmissionStep \/ TrimHistory(protected)
        \/ TrimRecord => UNCHANGED run
  BY DEF DispatcherStep, EnterNext, Pop, ParkDispatcher, WakeDispatcher, StopDispatcher,
    StopPool, AdmissionStep, EnqueueRecord, Rollback, TrimHistory, TrimRecord, workerVars
<1>5. ASSUME NEW i \in Jobs
      PROVE  /\ SetRecord(i) \/ ExpireRecord(i, protected) => UNCHANGED run
             /\ \A s : Report(i, s) => UNCHANGED run
             /\ \A c : BeginCancel(c, i) \/ BeginDelete(c, i, protected) \/ BeginFetch(c, i)
                  => UNCHANGED run
  BY DEF SetRecord, ExpireRecord, Report, BeginCancel, BeginDelete, BeginFetch, workerVars
<1>6. ASSUME NEW c \in Clients, RequestStep(c) PROVE UNCHANGED run
  BY <1>6 DEF RequestStep, LockFiles, CancelContext, RemoveQueued, MarkCancelled, DeleteRecord,
    ReadFiles, EndFetch, workerVars
<1> QED
  BY <1>1, <1>2, <1>3, <1>4, <1>5, <1>6 DEF Step, RecordNext

(* A job cancelled or removed before its worker has looked never starts yt-dlp,
   wherever it waits at that moment and however late the worker gets to it. *)
THEOREM SparedJobNeverRunsCorrect == SafeSpec => SparedJobNeverRuns
<1> DEFINE Stays == \A j \in Jobs : Spared(j) => Spared(j)' \/ run'[j] \in {"finished", "done"}
<1>1. ASSUME Basic, Next PROVE Stays
  BY <1>1, GoneForGood, BeforeTheCheck, NextIsStep DEF Spared, Entering
<1>2. Basic /\ [Next]_vars => [Stays]_vars
  BY <1>1
<1> QED
  BY <1>2, BasicCorrect, PTL DEF SafeSpec, SparedJobNeverRuns

--------------------------------------------------------------------------------
(* Why the steps of the pool look like those of JobPool.  A worker returns, a
   record is removed and a goroutine finds no record only when the job has
   ended: the decision was taken steps ago, and a terminal status stays. *)
InPool(j) == j \in Queued \/ j = admitting \/ j = dispatcher.job \/ run[j] # "none"

ReturnsEnded == \A j \in Jobs : run[j] = "finished" => status[j] \in Terminal
DeletesEnded ==
  \A c \in Clients : req[c].op = "delete" => status[req[c].job] \in Terminal
TrimsEnded == \A j \in trimming : status[j] \in Terminal
MissingEnded == \A j \in Jobs : j \notin stored /\ InPool(j) => status[j] \in Terminal

EndedInv == ReturnsEnded /\ DeletesEnded /\ TrimsEnded /\ MissingEnded

(* Only a step of Run that writes the last status sends the worker home. *)
LEMMA ReturnsEndedStep ==
  ASSUME Basic, RunInv, ReturnsEnded, Next
  PROVE  ReturnsEnded'
<1> USE DEF Basic
<1> DEFINE Ends == \A j \in Jobs :
                     run'[j] = "finished" => run[j] = "finished" \/ status'[j] \in Terminal
<1>1. UNCHANGED run => Ends
  OBVIOUS
<1>2. AcquireSlot => Ends
  BY DEF AcquireSlot, TypeOK
<1>3. ASSUME NEW j \in Jobs PROVE RunUpdate(j) => Ends
  BY DEF RunUpdate, CheckContext, StartJob, Prepare, Goto, SetUnlessTerminal, TypeOK, Terminal
<1>4. ASSUME NEW j \in Jobs PROVE Finish(j) => Ends
  <2>1. FinalStatus(j) \in Terminal
    BY DEF FinalStatus, Terminal
  <2> QED
    BY <2>1 DEF Finish, Goto, TypeOK
<1>5. ASSUME NEW j \in Jobs
      PROVE  LookUp(j) \/ OwnFiles(j) \/ EndTimeout(j) \/ Launch(j) \/ Exit(j)
               \/ CollectResults(j) \/ Return(j) => Ends
  BY DEF LookUp, OwnFiles, EndTimeout, Launch, Exit, CollectResults, Return, Goto, TypeOK
<1> HIDE DEF Ends
<1>6. ASSUME NEW j \in Jobs
      PROVE  /\ WorkerStep(j) => Ends
             /\ SetRecord(j) \/ ExpireRecord(j, {}) => Ends
             /\ \A s : Report(j, s) => Ends
             /\ \A c : BeginCancel(c, j) \/ BeginDelete(c, j, {}) \/ BeginFetch(c, j) => Ends
  BY <1>1, <1>3, <1>4, <1>5 DEF WorkerStep, SetRecord, ExpireRecord, Report, BeginCancel,
    BeginDelete, BeginFetch, workerVars
<1>7. ASSUME NEW c \in Clients, RequestStep(c) PROVE Ends
  BY <1>1, <1>7 DEF RequestStep, LockFiles, CancelContext, RemoveQueued, MarkCancelled,
    DeleteRecord, ReadFiles, EndFetch, workerVars
<1>8. TrimHistory({}) \/ TrimRecord \/ StopPool \/ AdmissionStep \/ DispatcherStep => Ends
  BY <1>1, <1>2 DEF TrimHistory, TrimRecord, StopPool, AdmissionStep, EnqueueRecord, Rollback,
    DispatcherStep, EnterNext, Pop, ParkDispatcher, WakeDispatcher, StopDispatcher, workerVars
<1>9. Ends
  BY <1>6, <1>7, <1>8 DEF Next, RecordNext
<1> QED
  BY <1>9, TerminalKept DEF Ends, ReturnsEnded

(* A removal begins, and the history cleanup chooses, only what has ended. *)
LEMMA RemovalsEndedStep ==
  ASSUME Basic, RunInv, DeletesEnded, TrimsEnded, Next
  PROVE  DeletesEnded' /\ TrimsEnded'
<1> USE DEF Basic
<1> DEFINE Deletes == \A c \in Clients : req'[c].op = "delete" =>
                        \/ req[c].op = "delete" /\ req'[c].job = req[c].job
                        \/ req'[c].job \in Jobs /\ status[req'[c].job] \in Terminal
           Trims == \A j \in trimming' : j \notin trimming => j \in Jobs /\ status[j] \in Terminal
<1>1. /\ UNCHANGED req => Deletes
      /\ UNCHANGED trimming => Trims
  OBVIOUS
<1>2. ASSUME NEW c \in Clients
      PROVE  /\ \A op, from, to : Advance(c, op, from, to) => Deletes
             /\ \A op, from : Done(c, op, from) => Deletes
             /\ \A j \in Jobs : BeginCancel(c, j) \/ BeginFetch(c, j) => Deletes
             /\ \A j \in Jobs : BeginDelete(c, j, {}) => Deletes
  <2>1. \A op, from, to : Advance(c, op, from, to) => Deletes
    BY DEF Advance, TypeOK, Requests, Idle
  <2>2. \A op, from : Done(c, op, from) => Deletes
    BY DEF Done, Idle, TypeOK
  <2>3. \A j \in Jobs : BeginCancel(c, j) \/ BeginFetch(c, j) => Deletes
    BY DEF BeginCancel, BeginFetch, Begin, TypeOK
  <2>4. \A j \in Jobs : BeginDelete(c, j, {}) => Deletes
    BY DEF BeginDelete, Begin, TypeOK
  <2> QED
    BY <2>1, <2>2, <2>3, <2>4
<1>3. TrimHistory({}) \/ TrimRecord => Trims
  BY DEF TrimHistory, TrimRecord, Excess, TypeOK
<1> HIDE DEF Deletes, Trims
<1>4. ASSUME NEW j \in Jobs
      PROVE  /\ WorkerStep(j) => Deletes /\ Trims
             /\ SetRecord(j) \/ ExpireRecord(j, {}) => Deletes /\ Trims
             /\ \A s : Report(j, s) => Deletes /\ Trims
             /\ \A c \in Clients :
                  BeginCancel(c, j) \/ BeginDelete(c, j, {}) \/ BeginFetch(c, j) =>
                    Deletes /\ Trims
  <2>1. WorkerStep(j) => UNCHANGED <<req, trimming>>
    BY DEF WorkerStep, LookUp, OwnFiles, RunUpdate, EndTimeout, Launch, Exit, CollectResults,
      Finish, Return
  <2> QED
    BY <1>1, <1>2, <2>1 DEF SetRecord, ExpireRecord, Report, BeginCancel, BeginDelete, BeginFetch
<1>5. ASSUME NEW c \in Clients, RequestStep(c) PROVE Deletes /\ Trims
  BY <1>1, <1>2, <1>5 DEF RequestStep, LockFiles, CancelContext, RemoveQueued, MarkCancelled,
    DeleteRecord, ReadFiles, EndFetch
<1>6. TrimHistory({}) \/ TrimRecord \/ StopPool \/ AdmissionStep \/ DispatcherStep =>
        Deletes /\ Trims
  BY <1>1, <1>3 DEF TrimHistory, TrimRecord, StopPool, AdmissionStep, EnqueueRecord, Rollback,
    DispatcherStep, EnterNext, Pop, ParkDispatcher, WakeDispatcher, AcquireSlot, StopDispatcher
<1>7. Deletes /\ Trims
  BY <1>4, <1>5, <1>6 DEF Next, RecordNext
<1>8. trimming \subseteq Jobs /\ \A c \in Clients : req[c].op = "delete" => req[c].job \in Jobs
  BY RequestJob DEF TypeOK
<1> QED
  BY <1>7, <1>8, TerminalKept DEF Deletes, Trims, DeletesEnded, TrimsEnded

(* A job enters the pool with its record, and loses the record afterwards only
   when it has ended; a rolled back job never got in. *)
LEMMA MissingEndedStep ==
  ASSUME Basic, RunInv, EndedInv, Next
  PROVE  MissingEnded'
<1> USE NoJobIsNone, QueuedJobs DEF Basic
<1> DEFINE Missing == \A j \in Jobs :
                        j \notin stored' /\ InPool(j)' =>
                          status[j] \in Terminal \/ (j \notin stored /\ InPool(j))
<1>1. ASSUME UNCHANGED placeVars, \A j \in Jobs : run[j] = "none" => run'[j] = "none",
             \A j \in stored : j \in stored' \/ status[j] \in Terminal
      PROVE  Missing
  BY <1>1 DEF placeVars, InPool, Queued
<1>2. ASSUME NEW j \in Jobs, SetRecord(j) PROVE Missing
  BY <1>2 DEF SetRecord, InPool, Queued, poolVars, workerVars
<1>3. ASSUME EnqueueRecord PROVE Missing
  <2>1. Queued' = Queued \cup {admitting}
    BY <1>3, AppendRange DEF EnqueueRecord, Queued, TypeOK
  <2> QED
    BY <1>3, <2>1 DEF EnqueueRecord, InPool, recordVars, workerVars
<1>4. ASSUME Rollback PROVE Missing
  <2>1. PICK a \in Jobs : a = admitting
    BY <1>4 DEF Rollback, TypeOK
  <2>2. a \notin Queued /\ a # dispatcher.job /\ run[a] = "none"
    BY <1>4, <2>1 DEF Rollback, Placed
  <2>3. UNCHANGED <<queue, dispatcher, run>> /\ admitting' = NoJob /\ stored' = stored \ {a}
    BY <1>4, <2>1 DEF Rollback, poolVars, workerVars
  <2>4. Queued' = Queued
    BY <2>3 DEF Queued
  <2> QED
    BY <2>1, <2>2, <2>3, <2>4 DEF InPool
<1>5. ASSUME Pop PROVE Missing
  <2>1. Queued' \subseteq Queued /\ Head(queue) \in Queued
    BY <1>5, TailRange DEF Pop, Queued, TypeOK
  <2>2. dispatcher'.job = Head(queue)
    BY <1>5 DEF Pop, Dispatch
  <2> QED
    BY <1>5, <2>1, <2>2 DEF Pop, InPool, recordVars, workerVars
<1>6. ASSUME EnterNext \/ ParkDispatcher \/ WakeDispatcher \/ StopDispatcher PROVE Missing
  BY <1>6 DEF EnterNext, ParkDispatcher, WakeDispatcher, StopDispatcher, Dispatch, InPool,
    Queued, recordVars, workerVars
<1>7. ASSUME AcquireSlot PROVE Missing
  <2>1. dispatcher'.job = NoJob /\ Queued' = Queued
    BY <1>7 DEF AcquireSlot, Dispatch, Queued
  <2>2. \A j \in Jobs : j # dispatcher.job => run'[j] = run[j]
    BY <1>7 DEF AcquireSlot, TypeOK
  <2> QED
    BY <1>7, <2>1, <2>2 DEF AcquireSlot, InPool, recordVars
<1>8. ASSUME NEW c \in Clients, RemoveQueued(c) PROVE Missing
  <2>1. Queued' \subseteq Queued
    BY <1>8, DropTypes DEF RemoveQueued, Queued, TypeOK
  <2> QED
    BY <1>8, <2>1 DEF RemoveQueued, InPool, recordVars, workerVars
<1> HIDE DEF Missing
<1>9. ASSUME NEW j \in Jobs, WorkerStep(j) PROVE Missing
  <2>1. UNCHANGED placeVars /\ UNCHANGED stored
    BY <1>9 DEF WorkerStep, LookUp, OwnFiles, RunUpdate, EndTimeout, Launch, Exit,
      CollectResults, Finish, Return, placeVars, poolVars, recordVars
  <2>2. \A i \in Jobs : run[i] = "none" => run'[i] = "none"
    BY <1>9 DEF WorkerStep, LookUp, OwnFiles, RunUpdate, CheckContext, StartJob, Prepare,
      EndTimeout, Launch, Exit, CollectResults, Finish, Return, Goto, TypeOK
  <2> QED
    BY <1>1, <2>1, <2>2
<1>10. ASSUME NEW j \in Jobs
       PROVE  /\ ExpireRecord(j, {}) => Missing
              /\ \A s : Report(j, s) => Missing
              /\ \A c : BeginCancel(c, j) \/ BeginDelete(c, j, {}) \/ BeginFetch(c, j) => Missing
  BY <1>1 DEF ExpireRecord, Report, BeginCancel, BeginDelete, BeginFetch, placeVars,
    recordVars, poolVars, workerVars
<1>11. ASSUME NEW c \in Clients, RequestStep(c) PROVE Missing
  <2>1. ASSUME DeleteRecord(c) PROVE Missing
    <3>1. req[c].op = "delete"
      BY <2>1 DEF DeleteRecord, Done
    <3>2. status[req[c].job] \in Terminal
      BY <3>1 DEF EndedInv, DeletesEnded
    <3> QED
      BY <1>1, <2>1, <3>2 DEF DeleteRecord, placeVars, poolVars, workerVars
  <2>2. CASE LockFiles(c) \/ CancelContext(c) \/ MarkCancelled(c) \/ ReadFiles(c) \/ EndFetch(c)
    BY <1>1, <2>2 DEF LockFiles, CancelContext, MarkCancelled, ReadFiles, EndFetch, placeVars,
      recordVars, poolVars, workerVars
  <2> QED
    BY <1>8, <1>11, <2>1, <2>2 DEF RequestStep
<1>12. TrimHistory({}) \/ TrimRecord \/ StopPool => Missing
  BY <1>1 DEF TrimHistory, TrimRecord, StopPool, EndedInv, TrimsEnded, placeVars, recordVars,
    poolVars, workerVars
<1>13. Missing
  BY <1>2, <1>3, <1>4, <1>5, <1>6, <1>7, <1>9, <1>10, <1>11, <1>12
  DEF Next, RecordNext, AdmissionStep, DispatcherStep
<1> QED
  BY <1>13, TerminalKept DEF Missing, EndedInv, MissingEnded

LEMMA EndedCorrect == SafeSpec => []EndedInv
<1>1. Init => EndedInv
  BY ShortRange, NoJobIsNone DEF Init, EndedInv, ReturnsEnded, DeletesEnded, TrimsEnded,
    MissingEnded, InPool, Queued, Idle
<1>2. Basic /\ RunInv /\ EndedInv /\ [Next]_vars => EndedInv'
  <2>1. EndedInv /\ UNCHANGED vars => EndedInv'
    BY DEF EndedInv, ReturnsEnded, DeletesEnded, TrimsEnded, MissingEnded, InPool, Queued,
      vars, recordVars, poolVars, workerVars
  <2>2. Basic /\ RunInv /\ EndedInv /\ Next => EndedInv'
    BY ReturnsEndedStep, RemovalsEndedStep, MissingEndedStep DEF EndedInv
  <2> QED
    BY <2>1, <2>2
<1> QED
  BY <1>1, <1>2, BasicCorrect, RunInvCorrect, PTL DEF SafeSpec

--------------------------------------------------------------------------------
(* What is left of the promise that no record is removed under a worker. *)
LEMMA OwnedRecordStep ==
  ASSUME Basic, FilesExclusive, TrimsEnded, Next,
         NEW j \in Jobs, run[j] \in Owning, j \in stored
  PROVE  j \in stored' \/ (TrimRecord /\ status[j] \in Terminal)
<1> USE DEF Basic
<1>1. ASSUME NEW i \in Jobs, WorkerStep(i) PROVE UNCHANGED stored
  BY <1>1 DEF WorkerStep, LookUp, OwnFiles, RunUpdate, CheckContext, StartJob, Prepare,
    EndTimeout, Launch, Exit, CollectResults, Finish, Return, recordVars
<1>2. ASSUME NEW i \in Jobs
      PROVE  /\ SetRecord(i) => j \in stored'
             /\ \A s : Report(i, s) => j \in stored'
             /\ ExpireRecord(i, {}) => j \in stored'
  BY DEF SetRecord, Report, ExpireRecord, Active
<1>3. ASSUME NEW c \in Clients, RequestStep(c) PROVE j \in stored'
  <2>1. CASE DeleteRecord(c)
    <3>1. req[c].op = "delete" /\ req[c].at = "dequeued"
      BY <2>1 DEF DeleteRecord, Done
    <3>2. HoldsFiles(c, req[c].job) /\ req[c].job \in Jobs
      BY <3>1, RequestJob DEF HoldsFiles, TypeOK
    <3>3. req[c].job # j
      BY <3>2 DEF FilesExclusive
    <3> QED
      BY <2>1, <3>3 DEF DeleteRecord
  <2>2. CASE ~DeleteRecord(c)
    BY <1>3, <2>2 DEF RequestStep, LockFiles, CancelContext, RemoveQueued, MarkCancelled,
      ReadFiles, EndFetch, recordVars
  <2> QED
    BY <2>1, <2>2
<1>4. ASSUME NEW c \in Clients, NEW i \in Jobs,
             BeginCancel(c, i) \/ BeginDelete(c, i, {}) \/ BeginFetch(c, i)
      PROVE  UNCHANGED stored
  BY <1>4 DEF BeginCancel, BeginDelete, BeginFetch, recordVars
<1>5. CASE AdmissionStep
  <2>1. j # admitting
    BY DEF Placed, Owning
  <2> QED
    BY <1>5, <2>1 DEF AdmissionStep, EnqueueRecord, Rollback, recordVars
<1>6. CASE TrimRecord
  BY <1>6 DEF TrimRecord, TrimsEnded
<1>7. TrimHistory({}) \/ StopPool \/ DispatcherStep => UNCHANGED stored
  BY DEF TrimHistory, StopPool, DispatcherStep, EnterNext, Pop, ParkDispatcher, WakeDispatcher,
    AcquireSlot, StopDispatcher, recordVars
<1> QED
  BY <1>1, <1>2, <1>3, <1>4, <1>5, <1>6, <1>7 DEF Next, RecordNext

(* Nothing but a trim of the history takes the record of a job whose worker owns the
   directory, and of a job that has ended only: a request is kept out by FilesMu, the
   weekly cleanup by its age, a rollback by its place (progress.go:66). *)
THEOREM OnlyTrimsTakeOwnedRecords ==
  SafeSpec =>
    [][\A j \in Jobs : run[j] \in Owning /\ j \in stored =>
         j \in stored' \/ (TrimRecord /\ status[j] \in Terminal)]_vars
<1> DEFINE Kept == \A j \in Jobs : run[j] \in Owning /\ j \in stored =>
                     j \in stored' \/ (TrimRecord /\ status[j] \in Terminal)
<1>1. Basic /\ FilesExclusive /\ EndedInv /\ [Next]_vars => [Kept]_vars
  BY OwnedRecordStep DEF EndedInv
<1> QED
  BY <1>1, BasicCorrect, FilesExclusiveCorrect, EndedCorrect, PTL DEF SafeSpec

--------------------------------------------------------------------------------
(* Every step of the records, the dispatcher and the workers is a step of
   JobPool, or none. *)
ShownStatus == [j \in Jobs |-> Shown(status[j])]
ReturnedJobs == {j \in Jobs : run[j] = "done"}

shownVars == <<ShownStatus, stored, ctxDone,
               <<queue, dispatcher.job, ActiveJobs, ReturnedJobs, poolDone>>>>

LEMMA ShownTerminal ==
  ASSUME TypeOK, NEW j \in Jobs
  PROVE  /\ ShownStatus[j] = Shown(status[j])
         /\ ShownStatus[j] \in Terminal <=> status[j] \in Terminal
         /\ ShownStatus[j] = "none" <=> status[j] = "none"
BY DEF TypeOK, ShownStatus, Shown, Terminal, Live

(* A status written unless the record is terminal is written the same way to
   what is shown of it. *)
LEMMA ShownSet ==
  ASSUME TypeOK, NEW j \in Jobs, NEW s, SetUnlessTerminal(j, s)
  PROVE  ShownStatus' = IF ShownStatus[j] \in Terminal THEN ShownStatus
                          ELSE [ShownStatus EXCEPT ![j] = Shown(s)]
<1>1. CASE status[j] \in Terminal
  BY <1>1, ShownTerminal DEF SetUnlessTerminal, ShownStatus
<1>2. CASE status[j] \notin Terminal
  <2>1. status' = [status EXCEPT ![j] = s]
    BY <1>2 DEF SetUnlessTerminal
  <2>2. ShownStatus' = [ShownStatus EXCEPT ![j] = Shown(s)]
    BY <2>1 DEF ShownStatus, TypeOK
  <2> QED
    BY <1>2, <2>2, ShownTerminal
<1> QED
  BY <1>1, <1>2

LEMMA PoolNames ==
  /\ Pool!jobVars = shownVars
  /\ Pool!Placed = Queued \cup {dispatcher.job} \cup ActiveJobs \cup ReturnedJobs
  /\ Pool!Queued = Queued /\ Pool!Terminal = Terminal /\ Pool!NoJob = NoJob
BY DEF Pool!jobVars, Pool!poolVars, shownVars, ShownStatus, ActiveJobs, ReturnedJobs,
  Pool!Placed, Pool!Queued, Queued, Pool!ToSet, ToSet, Pool!Terminal, Terminal, Pool!NoJob, NoJob

(* What the worker of an active job writes is a step of its job. *)
LEMMA WorkImplements ==
  ASSUME TypeOK, NEW j \in Jobs, run[j] \in Active,
         NEW s \in {"starting", "preparing", "downloading", "processing"} \cup Terminal,
         SetUnlessTerminal(j, s), UNCHANGED <<stored, ctxDone, queue, dispatcher, poolDone>>,
         UNCHANGED ActiveJobs, UNCHANGED ReturnedJobs
  PROVE  Pool!Next
<1>1. Shown(s) \in {"active"} \cup Terminal
  BY DEF Shown, Terminal
<1>2. j \in ActiveJobs
  BY DEF ActiveJobs
<1>3. Pool!SetUnlessTerminal(j, Shown(s))
  BY ShownSet DEF Pool!SetUnlessTerminal, ShownStatus, Pool!Terminal, Terminal
<1>4. Pool!Work(j)
  BY <1>1, <1>2, <1>3 DEF Pool!Work, ActiveJobs, ReturnedJobs, Pool!Terminal, Terminal,
    Pool!poolVars
<1> QED
  BY <1>4 DEF Pool!Next, Pool!PoolStep

LEMMA ReturnImplements ==
  ASSUME Basic, NEW j \in Jobs, run[j] \in Active, status[j] \in Terminal,
         run' = [run EXCEPT ![j] = "done"],
         UNCHANGED <<status, stored, ctxDone, queue, dispatcher, poolDone>>
  PROVE  Pool!Next
<1>1. ActiveJobs' = ActiveJobs \ {j} /\ j \in ActiveJobs
  BY DEF ActiveJobs, Basic, TypeOK, Active, Entering, Owning
<1>2. ReturnedJobs' = ReturnedJobs \cup {j}
  BY DEF ReturnedJobs, Basic, TypeOK
<1>3. ShownStatus[j] \in Terminal /\ UNCHANGED ShownStatus
  BY ShownTerminal DEF ShownStatus, Basic
<1>4. Pool!Return(j)
  BY <1>1, <1>2, <1>3 DEF Pool!Return, ActiveJobs, ReturnedJobs, ShownStatus, Pool!Terminal,
    Terminal
<1> QED
  BY <1>4 DEF Pool!Next, Pool!PoolStep

LEMMA WorkerImplements ==
  ASSUME Basic, RunInv, EndedInv, NEW j \in Jobs, WorkerStep(j)
  PROVE  Pool!Next \/ UNCHANGED shownVars
<1> USE DEF Basic
<1> DEFINE Same == UNCHANGED ActiveJobs /\ UNCHANGED ReturnedJobs
<1>1. run[j] \in Active /\ run'[j] \in Active /\ (\A i \in Jobs : i # j => run'[i] = run[i])
        => Same
  BY DEF ActiveJobs, ReturnedJobs, Active, Entering, Owning
<1> HIDE DEF Same
<1>2. UNCHANGED <<stored, ctxDone, queue, dispatcher, poolDone, status>> /\ Same
        => UNCHANGED shownVars
  BY DEF shownVars, ShownStatus, Same
<1>3. CASE LookUp(j) \/ Return(j)
  <2>1. run'[j] = "found" => Same
    BY <1>1, <1>3 DEF LookUp, Return, Goto, TypeOK, Active, Entering, Owning
  <2>2. run'[j] # "found" => run' = [run EXCEPT ![j] = "done"] /\ run[j] \in Active
                               /\ status[j] \in Terminal
    BY <1>3 DEF LookUp, Return, Goto, TypeOK, EndedInv, ReturnsEnded, MissingEnded, InPool,
      Active, Entering, Owning
  <2>3. UNCHANGED <<status, stored, ctxDone, queue, dispatcher, poolDone>>
    BY <1>3 DEF LookUp, Return, recordVars, poolVars
  <2> QED
    BY <1>2, <2>1, <2>2, <2>3, ReturnImplements
<1>4. CASE RunUpdate(j)
  <2>1. Same /\ run[j] \in Active
    BY <1>1, <1>4 DEF RunUpdate, CheckContext, StartJob, Prepare, Goto, TypeOK, Active, Owning,
      Entering
  <2>2. UNCHANGED <<stored, ctxDone, queue, dispatcher, poolDone>>
    BY <1>4 DEF RunUpdate, poolVars
  <2>3. \/ UNCHANGED status
        \/ \E s \in {"starting", "preparing"} \cup Terminal : SetUnlessTerminal(j, s)
    BY <1>4 DEF RunUpdate, CheckContext, StartJob, Prepare, Terminal
  <2> QED
    BY <1>2, <2>1, <2>2, <2>3, WorkImplements DEF Same
<1>5. CASE Finish(j)
  <2>1. Same /\ run[j] \in Active
    BY <1>1, <1>5 DEF Finish, Goto, TypeOK, Active, Owning, Entering
  <2>2. UNCHANGED <<stored, ctxDone, queue, dispatcher, poolDone>>
    BY <1>5 DEF Finish, poolVars
  <2>3. FinalStatus(j) \in Terminal
    BY DEF FinalStatus, Terminal
  <2>4. status[j] \in Terminal => FinalStatus(j) = status[j]
    BY <1>5 DEF Finish, Goto, FinalStatus, RunInv, Undecided, Terminal
  <2>5. SetUnlessTerminal(j, FinalStatus(j))
    BY <1>5, <2>4 DEF Finish, SetUnlessTerminal, TypeOK
  <2> QED
    BY <2>1, <2>2, <2>3, <2>5, WorkImplements DEF Same
<1>6. CASE OwnFiles(j) \/ EndTimeout(j) \/ Launch(j) \/ Exit(j) \/ CollectResults(j)
  <2>1. CASE EndTimeout(j)
    BY <1>2, <2>1 DEF EndTimeout, Same, ActiveJobs, ReturnedJobs, recordVars, poolVars
  <2>2. CASE OwnFiles(j) \/ Launch(j) \/ Exit(j) \/ CollectResults(j)
    <3>1. Same
      BY <1>1, <2>2 DEF OwnFiles, Launch, Exit, CollectResults, Goto, TypeOK, Active, Owning,
        Entering
    <3> QED
      BY <1>2, <2>2, <3>1 DEF OwnFiles, Launch, Exit, CollectResults, recordVars, poolVars
  <2> QED
    BY <1>6, <2>1, <2>2
<1> QED
  BY <1>3, <1>4, <1>5, <1>6 DEF WorkerStep

(* The dispatcher takes a job, starts it when there is a slot, and drops the
   one it holds when the pool stops. *)
LEMMA DispatcherImplements ==
  ASSUME Basic, DispatcherStep
  PROVE  Pool!Next \/ UNCHANGED shownVars
<1> USE NoJobIsNone DEF Basic
<1>1. dispatcher.at # "slot" => dispatcher.job = NoJob
  BY DEF Placed, TypeOK
<1>2. UNCHANGED run => UNCHANGED ActiveJobs /\ UNCHANGED ReturnedJobs
  BY DEF ActiveJobs, ReturnedJobs
<1>3. UNCHANGED status => UNCHANGED ShownStatus
  BY DEF ShownStatus
<1>4. CASE Pop
  <2>1. Pool!Take
    BY <1>1, <1>2, <1>3, <1>4 DEF Pop, Dispatch, Pool!Take, Pool!NoJob, NoJob, recordVars,
      workerVars, ActiveJobs, ReturnedJobs, ShownStatus
  <2> QED
    BY <2>1 DEF Pool!Next, Pool!PoolStep
<1>5. CASE AcquireSlot
  <2>1. dispatcher.job \in Jobs /\ run[dispatcher.job] = "none" /\ dispatcher'.job = NoJob
    BY <1>5 DEF AcquireSlot, Dispatch, Placed
  <2>2. /\ ActiveJobs' = ActiveJobs \cup {dispatcher.job}
        /\ ReturnedJobs' = ReturnedJobs
    BY <1>5, <2>1 DEF AcquireSlot, ActiveJobs, ReturnedJobs, TypeOK, Active, Entering, Owning
  <2>3. Cardinality(ActiveJobs) < MaxConcurrent
    BY <1>5 DEF AcquireSlot, SlotCount
  <2>4. UNCHANGED ShownStatus /\ UNCHANGED <<stored, ctxDone, queue, poolDone>>
    BY <1>3, <1>5 DEF AcquireSlot, recordVars
  <2>5. \A S : Pool!Cardinality(S) = Cardinality(S)
    BY DEF Pool!Cardinality, Cardinality
  <2>6. Pool!Start
    BY <2>1, <2>2, <2>3, <2>4, <2>5 DEF Pool!Start, Pool!NoJob, NoJob, ActiveJobs, ReturnedJobs,
      ShownStatus
  <2> QED
    BY <2>6 DEF Pool!Next, Pool!PoolStep
<1>6. CASE StopDispatcher /\ dispatcher.job # NoJob
  <2>1. Pool!Drop
    BY <1>2, <1>3, <1>6 DEF StopDispatcher, Pool!Drop, Pool!NoJob, NoJob, recordVars, workerVars,
      ActiveJobs, ReturnedJobs, ShownStatus
  <2> QED
    BY <2>1 DEF Pool!Next
<1>7. CASE \/ EnterNext \/ ParkDispatcher \/ WakeDispatcher
           \/ StopDispatcher /\ dispatcher.job = NoJob
  <2>1. dispatcher'.job = dispatcher.job
    BY <1>1, <1>7 DEF EnterNext, ParkDispatcher, WakeDispatcher, StopDispatcher, Dispatch
  <2> QED
    BY <1>2, <1>3, <1>7, <2>1 DEF EnterNext, ParkDispatcher, WakeDispatcher, StopDispatcher,
      shownVars, recordVars, workerVars
<1> QED
  BY <1>4, <1>5, <1>6, <1>7 DEF DispatcherStep

LEMMA AdmissionImplements ==
  ASSUME Basic, AdmissionStep \/ \E j \in Jobs : SetRecord(j)
  PROVE  Pool!Next
<1> USE NoJobIsNone DEF Basic
<1>1. UNCHANGED run => UNCHANGED ActiveJobs /\ UNCHANGED ReturnedJobs
  BY DEF ActiveJobs, ReturnedJobs
<1>2. CASE EnqueueRecord \/ Rollback
  <2>1. admitting \in Jobs /\ ShownStatus[admitting] # "none"
    BY <1>2, ShownTerminal DEF EnqueueRecord, Rollback, TypeOK, Placed
  <2>2. admitting \notin Pool!Placed
    <3>1. admitting \notin Queued /\ admitting # dispatcher.job /\ run[admitting] = "none"
      BY <1>2, <2>1 DEF Placed
    <3> QED
      BY <3>1, PoolNames DEF ActiveJobs, ReturnedJobs, Active, Entering, Owning
  <2>3. UNCHANGED ShownStatus
    BY <1>2 DEF EnqueueRecord, Rollback, ShownStatus, recordVars
  <2>4. Pool!Put(admitting) \/ Pool!Forget(admitting)
    BY <1>1, <1>2, <2>1, <2>2, <2>3 DEF EnqueueRecord, CanEnqueue, Rollback, Pool!Put,
      Pool!Forget, ShownStatus, ActiveJobs, ReturnedJobs, recordVars, poolVars, workerVars,
      Pool!poolVars
  <2> QED
    BY <2>1, <2>4 DEF Pool!Next
<1>3. ASSUME NEW j \in Jobs, SetRecord(j) PROVE Pool!Next
  <2>1. ShownStatus[j] = "none"
    BY <1>3, ShownTerminal DEF SetRecord, Fresh
  <2>2. ShownStatus' = [ShownStatus EXCEPT ![j] = "queued"]
    BY <1>3 DEF SetRecord, ShownStatus, Shown, TypeOK
  <2>3. Pool!Create(j, "queued")
    BY <1>1, <1>3, <2>1, <2>2 DEF SetRecord, Pool!Create, ShownStatus, ActiveJobs, ReturnedJobs,
      poolVars, workerVars, Pool!poolVars
  <2> QED
    BY <2>3 DEF Pool!Next, Pool!Waiting
<1> QED
  BY <1>2, <1>3 DEF AdmissionStep

(* What requests and the cleanup do to a job: they end its context, take it out
   of the queue, write "cancelled" unless it has ended, or remove its record. *)
LEMMA RequestImplements ==
  ASSUME Basic, EndedInv, NEW c \in Clients, RequestStep(c)
  PROVE  Pool!Next \/ UNCHANGED shownVars
<1> USE DEF Basic
<1>1. UNCHANGED <<run, status>> =>
        UNCHANGED ActiveJobs /\ UNCHANGED ReturnedJobs /\ UNCHANGED ShownStatus
  BY DEF ActiveJobs, ReturnedJobs, ShownStatus
<1>2. CASE LockFiles(c) \/ ReadFiles(c) \/ EndFetch(c)
  BY <1>1, <1>2 DEF LockFiles, ReadFiles, EndFetch, recordVars, poolVars, workerVars, shownVars
<1>3. req[c].op \in {"cancel", "delete"} => req[c].job \in Jobs
  BY RequestJob DEF TypeOK
<1>4. CASE CancelContext(c)
  <2>1. req[c].job \in Jobs
    BY <1>3, <1>4 DEF CancelContext, Advance
  <2>2. Pool!Cancel(req[c].job)
    BY <1>1, <1>4 DEF CancelContext, Pool!Cancel, Pool!poolVars, ActiveJobs, ReturnedJobs,
      ShownStatus, poolVars, workerVars
  <2> QED
    BY <2>1, <2>2 DEF Pool!Next
<1>5. CASE RemoveQueued(c)
  <2>1. req[c].job \in Jobs
    BY <1>3, <1>5 DEF RemoveQueued, Advance
  <2>2. Pool!Withdraw(req[c].job)
    BY <1>1, <1>5 DEF RemoveQueued, DropQueued, Queued, ToSet, RemoveAt, Pool!Withdraw,
      Pool!Queued, Pool!ToSet, Pool!RemoveAt, ActiveJobs, ReturnedJobs, ShownStatus, recordVars,
      workerVars
  <2> QED
    BY <2>1, <2>2 DEF Pool!Next
<1>6. CASE MarkCancelled(c)
  <2>1. req[c].job \in Jobs
    BY <1>3, <1>6 DEF MarkCancelled, Done
  <2>2. Pool!SetUnlessTerminal(req[c].job, "cancelled")
    BY <1>6, <2>1, ShownSet DEF MarkCancelled, Pool!SetUnlessTerminal, ShownStatus, Shown,
      Pool!Terminal, Terminal
  <2>3. UNCHANGED ActiveJobs /\ UNCHANGED ReturnedJobs
    BY <1>6 DEF MarkCancelled, ActiveJobs, ReturnedJobs, workerVars
  <2>4. Pool!MarkCancelled(req[c].job)
    BY <1>6, <2>2, <2>3 DEF MarkCancelled, Pool!MarkCancelled, Pool!poolVars, ActiveJobs,
      ReturnedJobs, poolVars
  <2> QED
    BY <2>1, <2>4 DEF Pool!Next
<1>7. CASE DeleteRecord(c)
  <2>1. req[c].job \in Jobs /\ status[req[c].job] \in Terminal
    BY <1>3, <1>7 DEF DeleteRecord, Done, EndedInv, DeletesEnded
  <2>2. Pool!Forget(req[c].job)
    BY <1>1, <1>7, <2>1, ShownTerminal DEF DeleteRecord, Pool!Forget, Pool!poolVars, ActiveJobs,
      ReturnedJobs, ShownStatus, Pool!Terminal, Terminal, poolVars, workerVars
  <2> QED
    BY <2>1, <2>2 DEF Pool!Next
<1> QED
  BY <1>2, <1>4, <1>5, <1>6, <1>7 DEF RequestStep

LEMMA ForgetImplements ==
  ASSUME TypeOK, NEW j \in Jobs, status[j] \in Terminal, stored' = stored \ {j},
         UNCHANGED <<status, ctxDone, poolVars, workerVars>>
  PROVE  Pool!Next
<1>1. UNCHANGED ActiveJobs /\ UNCHANGED ReturnedJobs /\ UNCHANGED ShownStatus
  BY DEF ActiveJobs, ReturnedJobs, ShownStatus, workerVars
<1>2. Pool!Forget(j)
  BY <1>1, ShownTerminal DEF Pool!Forget, Pool!poolVars, ActiveJobs, ReturnedJobs, ShownStatus,
    Pool!Terminal, Terminal, poolVars
<1> QED
  BY <1>2 DEF Pool!Next

LEMMA PoolStepImplements ==
  ASSUME Basic, RunInv, EndedInv, [Next]_vars
  PROVE  [Pool!Next]_(Pool!jobVars)
<1>1. UNCHANGED <<recordVars, poolVars, run>> => UNCHANGED shownVars
  BY DEF shownVars, ShownStatus, ActiveJobs, ReturnedJobs, recordVars, poolVars
<1>2. UNCHANGED vars => UNCHANGED shownVars
  BY <1>1 DEF vars, workerVars
<1>3. ASSUME NEW j \in Jobs, NEW s \in {"downloading", "processing", "failed"}, Report(j, s)
      PROVE  Pool!Next
  <2>1. UNCHANGED ActiveJobs /\ UNCHANGED ReturnedJobs
    BY <1>3 DEF Report, ActiveJobs, ReturnedJobs, workerVars
  <2>2. run[j] \in Active
    BY <1>3 DEF Report, Active, Owning
  <2> QED
    BY <1>3, <2>1, <2>2, WorkImplements DEF Basic, Report, poolVars, Terminal
<1>4. ASSUME NEW j \in Jobs, ExpireRecord(j, {}) PROVE Pool!Next
  BY <1>4, ForgetImplements DEF Basic, ExpireRecord
<1>5. ASSUME TrimRecord PROVE Pool!Next
  BY <1>5, ForgetImplements DEF Basic, TrimRecord, EndedInv, TrimsEnded, TypeOK
<1>6. ASSUME NEW c \in Clients, NEW j \in Jobs,
             BeginCancel(c, j) \/ BeginDelete(c, j, {}) \/ BeginFetch(c, j)
      PROVE  UNCHANGED shownVars
  BY <1>1, <1>6 DEF BeginCancel, BeginDelete, BeginFetch, workerVars
<1>7. TrimHistory({}) => UNCHANGED shownVars
  BY <1>1 DEF TrimHistory, workerVars
<1>8. StopPool => Pool!Next
  <2>1. StopPool => Pool!Stop
    BY DEF StopPool, Pool!Stop, recordVars, workerVars
  <2> QED
    BY <2>1 DEF Pool!Next
<1>9. Pool!Next \/ UNCHANGED shownVars
  BY <1>2, <1>3, <1>4, <1>5, <1>6, <1>7, <1>8, WorkerImplements, DispatcherImplements,
    AdmissionImplements, RequestImplements
  DEF Next, RecordNext
<1> QED
  BY <1>9 DEF Pool!jobVars, Pool!poolVars, shownVars, ShownStatus, ActiveJobs, ReturnedJobs

(* Whatever the dispatcher, the workers and the requests do, it looks like a
   step of JobPool: all that the batches are built on.  It rests on EndedInv:
   a worker returns and a record goes only when the job has ended. *)
THEOREM DownloadsImplementsPool == SafeSpec => ImplementsPool
<1>1. Init => Pool!Init
  BY DEF Init, Pool!Init, Pool!NoJob, NoJob, Shown, Active, Entering, Owning
<1> QED
  BY <1>1, PoolStepImplements, BasicCorrect, RunInvCorrect, EndedCorrect, PTL
  DEF SafeSpec, ImplementsPool, Pool!SafeSpec
================================================================================
