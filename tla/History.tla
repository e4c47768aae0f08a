-------------------------------- MODULE History --------------------------------
(***************************************************************************)
(* Retained records and their file.  Admission adds records under          *)
(* App.workMu, up to a limit, and remembers idempotency keys; persistLoop   *)
(* trims the finished ones and writes all of them to history.json, by an   *)
(* atomic rename, when something has changed; a restart reads them back.   *)
(*                                                                         *)
(* A record is its version and whether the job has ended; the n-th version *)
(* of the code is n + 1 here, and version 0 stands for "no record".  Any    *)
(* write may fail and the process may be killed at any step.               *)
(***************************************************************************)
EXTENDS Naturals, FiniteSets

CONSTANTS
  Jobs,            \* record ids, numbered in the order of QueuedAt; each used once
  Kids,            \* of each job, the children it has if it is a batch
  Keys,            \* idempotency keys
  Payloads,        \* what requests ask for, as told apart by their hash
  RecordLimit,     \* records that admission and loading accept, 1000
  KeyLimit,        \* keys remembered before the cache is pruned, 1000
  HistoryLimit,    \* finished records kept by a flush, 200
  MaxVersion,      \* bound: updates of one record
  MaxRestarts      \* bound: restarts of the server, and crashes

NoJob == 0

ASSUME HistoryAssumption ==
  /\ Jobs \subseteq Nat \ {NoJob} /\ IsFiniteSet(Jobs)
  /\ Kids \in [Jobs -> SUBSET Jobs]
  /\ \A b, d \in Jobs : b \notin Kids[d] \/ Kids[b] = {}
  /\ IsFiniteSet(Keys) /\ "none" \notin Keys \cup Payloads
  /\ {RecordLimit, KeyLimit, HistoryLimit, MaxVersion} \subseteq Nat \ {0}
  /\ RecordLimit <= KeyLimit
  /\ MaxRestarts \in Nat

VARIABLES
  mem,         \* ProgressStore.data
  used,        \* the ids given out so far
  admissions,  \* App.admissions
  admitting,   \* the request that holds App.workMu, and what it has still to set
  keyOf,       \* history: the key each record of this process was created with
  owed,        \* the records updated whose changed() call is still to come
  token,       \* ProgressStore.dirty holds its one token
  dirty,       \* persistLoop's own "dirty"
  loop,        \* where persistLoop stands
  last,        \* this flush is the one after <-s.stop
  trimming,    \* the records TrimHistory has still to delete
  toRead,      \* the records Flush has still to copy, s.mu held while there are any
  saved,       \* what Flush has copied
  disk,        \* history.json
  failing,     \* ProgressStore.persistErr is set
  server,      \* "serving", "closing" (App.Close), "ending" (store.Close), "exited", "down"
  restarts     \* bound: restarts so far

admissionVars == <<admissions, admitting, keyOf>>
loopVars == <<dirty, loop, last, trimming, toRead, saved, disk, failing>>
serverVars == <<server, restarts>>
vars == <<mem, used, admissionVars, owed, token, loopVars, serverVars>>

NoRecord == [version |-> 0, ended |-> FALSE]

Record == [version: Nat, ended: BOOLEAN]

NoAdmission == [job |-> NoJob, hash |-> "none"]

Idle == [job |-> NoJob, key |-> "none", hash |-> "none", left |-> {}]

Up == {"serving", "closing", "ending"}

(* The records of a store, a copy or a file. *)
Kept(records) == {j \in Jobs : records[j] # NoRecord}

TypeOK ==
  /\ mem \in [Jobs -> Record]
  /\ used \subseteq Jobs
  /\ admissions \in [Keys -> [job: Jobs \cup {NoJob}, hash: Payloads \cup {"none"}]]
  /\ admitting \in [job: Jobs \cup {NoJob}, key: Keys \cup {"none"},
                    hash: Payloads \cup {"none"}, left: SUBSET Jobs]
  /\ keyOf \in [Jobs -> Keys \cup {"none"}]
  /\ owed \subseteq Jobs
  /\ token \in BOOLEAN
  /\ dirty \in BOOLEAN
  /\ loop \in {"waiting", "trimming", "writing", "done"}
  /\ last \in BOOLEAN
  /\ trimming \subseteq Jobs
  /\ toRead \subseteq Kept(mem)
  /\ saved \in [Jobs -> Record]
  /\ disk \in [Jobs -> Record]
  /\ failing \in BOOLEAN
  /\ server \in Up \cup {"exited", "down"}
  /\ restarts \in Nat

Nothing == [j \in Jobs |-> NoRecord]

(* A server at a stage, that has given out ids and has no records. *)
InitAt(stage, ids) ==
  /\ mem = Nothing
  /\ used = ids
  /\ admissions = [k \in Keys |-> NoAdmission]
  /\ admitting = Idle
  /\ keyOf = [j \in Jobs |-> "none"]
  /\ owed = {}
  /\ token = TRUE
  /\ dirty = FALSE
  /\ loop = "waiting"
  /\ last = FALSE
  /\ trimming = {}
  /\ toRead = {}
  /\ saved = Nothing
  /\ disk = Nothing
  /\ failing = FALSE
  /\ server = stage
  /\ restarts = 0

Init == InitAt("serving", {})

--------------------------------------------------------------------------------
(* Building blocks *)

(* s.mu is free for writing: no flush is copying records. *)
StoreUnlocked == toRead = {}

(* Store.Set of a new record; the call of changed() follows at once. *)
Insert(j) ==
  /\ StoreUnlocked
  /\ mem' = [mem EXCEPT ![j] = [version |-> 1, ended |-> FALSE]]
  /\ used' = used \cup {j}
  /\ token' = TRUE

(* Store.Delete, or the deletion in CleanupOldDownloads, and changed(). *)
Erase(j) ==
  /\ StoreUnlocked
  /\ mem' = [mem EXCEPT ![j] = NoRecord]
  /\ token' = TRUE

ActiveBatches == {b \in Kept(mem) : Kids[b] # {} /\ ~mem[b].ended}

Singles == {j \in Jobs : Kids[j] = {} /\ \A b \in Jobs : j \notin Kids[b]}

(* Finished records that no active batch contains. *)
Removable == {j \in Kept(mem) : mem[j].ended /\ \A b \in ActiveBatches : j \notin Kids[b]}

--------------------------------------------------------------------------------
(* Admission, with workMu held from the first step to the last *)

FitsOffByOne(n) == Cardinality(Kept(mem)) + n <= RecordLimit + 1

(* The check on Store.Count before n records are added. *)
Fits(n) == Cardinality(Kept(mem)) + n <= RecordLimit

AdmitsAfterEnd(key, hash) ==
  key # "none" /\ admissions[key] # NoAdmission =>
    /\ admissions[key].hash = hash
    /\ admissions[key].job \in Kept(mem) => mem[admissions[key].job].ended

(* A key that is known answers with the job it stands for, or refuses other
   options; it admits a second job only when the first is no longer retained. *)
Admits(key, hash) ==
  key # "none" /\ admissions[key] # NoAdmission =>
    admissions[key].hash = hash /\ admissions[key].job \notin Kept(mem)

(* Ids are taken in the order of QueuedAt, those of a batch before its own. *)
Fresh(ids) == \A i \in Jobs, j \in ids : i < j /\ i \notin ids => i \in used

(* recordAdmission: a full cache loses the keys of records that are gone. *)
RecordAdmission(key, hash, j) ==
  LET full == Cardinality({k \in Keys : admissions[k] # NoAdmission}) >= KeyLimit
  IN  admissions' =
        IF key = "none" THEN admissions
        ELSE [k \in Keys |->
                IF k = key THEN [job |-> j, hash |-> hash]
                ELSE IF full /\ admissions[k].job \notin Kept(mem) THEN NoAdmission
                ELSE admissions[k]]

(* HandleStartDownload up to Store.Set. *)
AdmitJob(j, key, hash) ==
  /\ server = "serving" /\ admitting = Idle
  /\ j \in Singles \ used /\ Fresh({j})
  /\ Admits(key, hash) /\ Fits(1)
  /\ Insert(j)
  /\ admitting' = [job |-> j, key |-> key, hash |-> hash, left |-> {}]
  /\ keyOf' = [keyOf EXCEPT ![j] = key]
  /\ UNCHANGED <<admissions, owed, loopVars, serverVars>>

(* HandleStartBatch up to the first Store.Set. *)
AdmitBatch(b, key, hash) ==
  /\ server = "serving" /\ admitting = Idle
  /\ Kids[b] # {} /\ ({b} \cup Kids[b]) \cap used = {} /\ Fresh({b} \cup Kids[b])
  /\ Admits(key, hash) /\ Fits(Cardinality(Kids[b]) + 1)
  /\ admitting' = [job |-> b, key |-> key, hash |-> hash, left |-> Kids[b]]
  /\ keyOf' = [keyOf EXCEPT ![b] = key]
  /\ UNCHANGED <<mem, used, admissions, owed, token, loopVars, serverVars>>

SetChild(j) ==
  /\ j \in admitting.left
  /\ Insert(j)
  /\ admitting' = [admitting EXCEPT !.left = @ \ {j}]
  /\ UNCHANGED <<admissions, keyOf, owed, loopVars, serverVars>>

SetParent ==
  /\ admitting.job # NoJob /\ Kids[admitting.job] # {} /\ admitting.left = {}
  /\ Insert(admitting.job)
  /\ RecordAdmission(admitting.key, admitting.hash, admitting.job)
  /\ admitting' = Idle
  /\ UNCHANGED <<keyOf, owed, loopVars, serverVars>>

(* Pool.Enqueue has taken the job, or the record goes again and no key stays. *)
Accept ==
  /\ admitting.job # NoJob /\ Kids[admitting.job] = {}
  /\ RecordAdmission(admitting.key, admitting.hash, admitting.job)
  /\ admitting' = Idle
  /\ UNCHANGED <<mem, used, keyOf, owed, token, loopVars, serverVars>>

Rollback ==
  /\ admitting.job # NoJob /\ Kids[admitting.job] = {}
  /\ Erase(admitting.job)
  /\ admitting' = Idle
  /\ UNCHANGED <<used, admissions, keyOf, owed, loopVars, serverVars>>

--------------------------------------------------------------------------------
(* Jobs, requests and the pool's cleanup at work on the records *)

(* DownloadProgress.Update.  Workers and batches are gone once Pool.Stop has
   returned; only a cleanup of a finished job's files may still be at work. *)
Update(j) ==
  /\ j \in Kept(mem) \ owed
  /\ server \in Up /\ (server = "ending" => mem[j].ended)
  /\ mem[j].version < MaxVersion
  /\ \E e \in BOOLEAN :
       /\ mem[j].ended => e
       /\ mem' = [mem EXCEPT ![j] = [version |-> mem[j].version + 1, ended |-> e]]
  /\ owed' = owed \cup {j}
  /\ UNCHANGED <<used, admissionVars, token, loopVars, serverVars>>

(* OnUpdate calls changed(), after the record has been unlocked. *)
Signal(j) ==
  /\ server \in Up /\ j \in owed
  /\ owed' = owed \ {j}
  /\ token' = TRUE
  /\ UNCHANGED <<mem, used, admissionVars, loopVars, serverVars>>

(* A removal by request, CleanupOldDownloads, or the cleanup loop's trimming. *)
Remove(j) ==
  /\ server \in Up /\ j \in Removable
  /\ Erase(j)
  /\ UNCHANGED <<used, admissionVars, owed, loopVars, serverVars>>

--------------------------------------------------------------------------------
(* persistLoop *)

TakeToken ==
  /\ server \in Up /\ loop = "waiting" /\ token
  /\ token' = FALSE
  /\ dirty' = TRUE
  /\ UNCHANGED <<mem, used, admissionVars, owed, loop, last, trimming, toRead, saved, disk, failing,
                 serverVars>>

(* Flush begins with TrimHistory: the newest finished records stay. *)
BeginFlush ==
  /\ loop = "waiting" /\ loop' = "trimming"
  /\ trimming' = {j \in Removable : Cardinality({i \in Removable : i > j}) >= HistoryLimit}

Tick ==
  /\ server \in Up /\ dirty
  /\ BeginFlush
  /\ UNCHANGED <<mem, used, admissionVars, owed, token, dirty, last, toRead, saved, disk, failing,
                 serverVars>>

StopLoopIfDirty ==
  /\ server = "ending" /\ loop = "waiting"
  /\ \/ dirty /\ BeginFlush /\ last' = TRUE
     \/ ~dirty /\ loop' = "done" /\ UNCHANGED <<trimming, last>>
  /\ UNCHANGED <<mem, used, admissionVars, owed, token, dirty, toRead, saved, disk, failing,
                 serverVars>>

(* <-s.stop: the last flush, whether or not anything has changed. *)
StopLoop ==
  /\ server = "ending"
  /\ BeginFlush
  /\ last' = TRUE
  /\ UNCHANGED <<mem, used, admissionVars, owed, token, dirty, toRead, saved, disk, failing,
                 serverVars>>

TrimRecord(j) ==
  /\ server \in Up
  /\ j \in trimming /\ \A i \in trimming : i <= j
  /\ Erase(j)
  /\ trimming' = trimming \ {j}
  /\ UNCHANGED <<used, admissionVars, owed, dirty, loop, last, toRead, saved, disk, failing,
                 serverVars>>

(* s.mu is taken for reading, then each record in turn is locked and copied. *)
BeginRead ==
  /\ server \in Up /\ loop = "trimming" /\ trimming = {}
  /\ loop' = "writing"
  /\ toRead' = Kept(mem)
  /\ saved' = Nothing
  /\ UNCHANGED <<mem, used, admissionVars, owed, token, dirty, last, trimming, disk, failing,
                 serverVars>>

ReadRecord(j) ==
  /\ server \in Up /\ j \in toRead
  /\ saved' = [saved EXCEPT ![j] = mem[j]]
  /\ toRead' = toRead \ {j}
  /\ UNCHANGED <<mem, used, admissionVars, owed, token, dirty, loop, last, trimming, disk, failing,
                 serverVars>>

(* The temporary file is renamed, or anything on the way there has failed. *)
Write ==
  \/ disk' = saved /\ failing' = FALSE
  \/ failing' = TRUE /\ UNCHANGED disk

EndFlushDraining ==
  /\ server \in Up /\ loop = "writing" /\ toRead = {}
  /\ Write
  /\ dirty' = FALSE
  /\ token' = FALSE
  /\ loop' = IF last THEN "done" ELSE "waiting"
  /\ UNCHANGED <<mem, used, admissionVars, owed, last, trimming, toRead, saved, serverVars>>

(* "dirty" is cleared even when the flush has failed. *)
EndFlush ==
  /\ server \in Up /\ loop = "writing" /\ toRead = {}
  /\ Write
  /\ \/ ~last /\ loop' = "waiting" /\ dirty' = FALSE
     \/ last /\ loop' = "done" /\ UNCHANGED dirty
  /\ UNCHANGED <<mem, used, admissionVars, owed, token, last, trimming, toRead, saved, serverVars>>

--------------------------------------------------------------------------------
(* Shutdown (main.go:119-121), crash and restart *)

(* App.Close takes workMu: no admission is under way, and none begins later. *)
CloseApp ==
  /\ server = "serving" /\ admitting = Idle
  /\ server' = "closing"
  /\ UNCHANGED <<mem, used, admissionVars, owed, token, loopVars, restarts>>

(* Pool.Stop has returned and store.Close closes s.stop. *)
CloseStore ==
  /\ server = "closing"
  /\ server' = "ending"
  /\ UNCHANGED <<mem, used, admissionVars, owed, token, loopVars, restarts>>

Exit ==
  /\ server = "ending" /\ loop = "done"
  /\ server' = "exited"
  /\ UNCHANGED <<mem, used, admissionVars, owed, token, loopVars, restarts>>

(* Memory holds these records, and nothing that came of running the server. *)
Reboot(records, changed) ==
  /\ mem' = records
  /\ token' = changed
  /\ admissions' = [k \in Keys |-> NoAdmission]
  /\ admitting' = Idle
  /\ keyOf' = [j \in Jobs |-> "none"]
  /\ owed' = {}
  /\ dirty' = FALSE /\ failing' = FALSE
  /\ loop' = "waiting" /\ last' = FALSE
  /\ trimming' = {} /\ toRead' = {} /\ saved' = Nothing
  /\ UNCHANGED <<used, disk>>

Crash ==
  /\ server \in Up /\ restarts < MaxRestarts
  /\ server' = "down"
  /\ Reboot(Nothing, FALSE)
  /\ UNCHANGED restarts

(* A job that was active is failed; nothing is launched again. *)
Restored(r) ==
  IF r # NoRecord /\ ~r.ended THEN [version |-> r.version + 1, ended |-> TRUE] ELSE r

RestartUnmarked ==
  /\ server \in {"exited", "down"} /\ restarts < MaxRestarts
  /\ Cardinality(Kept(disk)) <= RecordLimit
  /\ Reboot([j \in Jobs |-> Restored(disk[j])], FALSE)
  /\ server' = "serving"
  /\ restarts' = restarts + 1

(* NewPersistentStore, in a new process. *)
Restart ==
  /\ server \in {"exited", "down"} /\ restarts < MaxRestarts
  /\ Cardinality(Kept(disk)) <= RecordLimit
  /\ Reboot([j \in Jobs |-> Restored(disk[j])], TRUE)
  /\ server' = "serving"
  /\ restarts' = restarts + 1

--------------------------------------------------------------------------------
AdmissionStep == SetParent \/ Accept \/ Rollback \/ \E j \in Jobs : SetChild(j)

LoopStep ==
  TakeToken \/ StopLoop \/ BeginRead \/ EndFlush
    \/ \E j \in Jobs : TrimRecord(j) \/ ReadRecord(j)

Next ==
  \/ \E j \in Jobs, k \in Keys \cup {"none"}, p \in Payloads : AdmitJob(j, k, p) \/ AdmitBatch(j, k, p)
  \/ AdmissionStep /\ server \in Up
  \/ \E j \in Jobs : Update(j) \/ Signal(j) \/ Remove(j)
  \/ LoopStep \/ Tick
  \/ CloseApp \/ CloseStore \/ Exit \/ Crash \/ Restart

SafeSpec == Init /\ [][Next]_vars

(* persistLoop runs, and its select takes every ready case in time; a writer
   that has updated a record goes on to call changed(). *)
Fairness ==
  /\ WF_vars(LoopStep)
  /\ WF_vars(Tick)
  /\ \A j \in Jobs : WF_vars(Signal(j))

Spec == SafeSpec /\ Fairness

--------------------------------------------------------------------------------
(* Properties *)

(* A restart never refuses the file this server has written: the limit that
   admission checks before it adds records, one at a time, keeps every file
   within the limit that loading checks (history.go:60, handler_download.go:48,
   handler_batch.go:61). *)
LoadAccepts == Cardinality(Kept(disk)) <= RecordLimit

(* A request repeated under its idempotency key never makes a second job while
   the first is retained, however many keys were used and forgotten meanwhile. *)
OneJobPerKey ==
  \A i, j \in Kept(mem) : i # j => keyOf[i] = "none" \/ keyOf[i] # keyOf[j]

(* What the file does not show yet is on its way to it, or the failure to write
   it is reported by PersistenceError: no interleaving of a change with the
   token, the ticker and a running flush loses it (history.go:114-142). *)
LagIsOwed ==
  server \in Up /\ loop # "done" =>
    \A j \in Jobs : mem[j] # disk[j] => j \in owed \/ token \/ dirty \/ failing

(* An orderly shutdown loses no result: the last flush comes after the last
   worker (history.go:250, main.go:119-121). *)
ExitSavesEnds ==
  server = "exited" /\ ~failing => \A j \in Jobs : mem[j].ended => disk[j].ended

(* The end of a job reaches the file, without any further change to wait for. *)
EndSaved ==
  \A j \in Jobs :
    mem[j].ended ~> disk[j].ended \/ ~mem[j].ended \/ failing \/ server \in {"exited", "down"}
================================================================================
