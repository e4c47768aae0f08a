----------------------------- MODULE History_proofs -----------------------------
(***************************************************************************)
(* Proofs about retained records and their file, for any set of jobs,       *)
(* batches and keys and any limits: what admission, persistLoop, shutdown,  *)
(* crashes and restarts keep true of memory and of the file.               *)
(***************************************************************************)
EXTENDS History, FiniteSetTheorems, TLAPS

(* A record that is updated or restored stays a record, and one that is not there
   stays away. *)
LEMMA RestoredIsRecord ==
  ASSUME NEW r \in Record
  PROVE  /\ Restored(r) \in Record
         /\ Restored(r) = NoRecord <=> r = NoRecord
         /\ Restored(r) # NoRecord => Restored(r).ended
<1>1. CASE r # NoRecord /\ ~r.ended
  <2>1. /\ Restored(r) = [version |-> r.version + 1, ended |-> TRUE]
        /\ r.version + 1 \in Nat /\ r.version + 1 # 0
    BY <1>1 DEF Restored, Record
  <2>2. Restored(r) # NoRecord /\ Restored(r).ended /\ Restored(r) \in Record
    BY <2>1 DEF NoRecord, Record
  <2> QED
    BY <1>1, <2>2
<1>2. CASE r = NoRecord \/ r.ended
  BY <1>2 DEF Restored
<1> QED
  BY <1>1, <1>2 DEF Record

LEMMA NothingKept == Nothing \in [Jobs -> Record] /\ Kept(Nothing) = {}
BY DEF Nothing, Kept, Record, NoRecord

(* A record is inserted, erased or updated, and the others stay as they are. *)
LEMMA Inserted ==
  ASSUME mem \in [Jobs -> Record], NEW j \in Jobs, Insert(j)
  PROVE  /\ mem' \in [Jobs -> Record] /\ Kept(mem') = Kept(mem) \cup {j}
         /\ \A i \in Jobs : i # j => mem'[i] = mem[i]
         /\ ~mem'[j].ended
BY DEF Insert, Record, NoRecord, Kept

LEMMA Erased ==
  ASSUME mem \in [Jobs -> Record], NEW j \in Jobs, Erase(j)
  PROVE  /\ mem' \in [Jobs -> Record] /\ Kept(mem') = Kept(mem) \ {j}
         /\ \A i \in Jobs : i # j => mem'[i] = mem[i]
         /\ ~mem'[j].ended
BY DEF Erase, Record, NoRecord, Kept

LEMMA Updated ==
  ASSUME mem \in [Jobs -> Record], NEW j \in Jobs, Update(j)
  PROVE  /\ mem' \in [Jobs -> Record] /\ Kept(mem') = Kept(mem)
         /\ \A i \in Jobs : i # j => mem'[i] = mem[i]
         /\ j \in Kept(mem) /\ (mem[j].ended => mem'[j].ended)
<1> USE DEF Record, NoRecord, Kept
<1>1. PICK e \in BOOLEAN :
        /\ mem[j].ended => e
        /\ mem' = [mem EXCEPT ![j] = [version |-> mem[j].version + 1, ended |-> e]]
  BY DEF Update
<1>2. [version |-> mem[j].version + 1, ended |-> e] # [version |-> 0, ended |-> FALSE]
  OBVIOUS
<1>3. mem' \in [Jobs -> Record] /\ \A i \in Jobs : i # j => mem'[i] = mem[i]
  BY <1>1
<1>4. mem[j] # NoRecord /\ mem'[j] # NoRecord
  BY <1>1, <1>2 DEF Update
<1> QED
  BY <1>1, <1>3, <1>4

--------------------------------------------------------------------------------
(* The variables hold values of their types in every reachable state. *)
LEMMA InitTypes ==
  ASSUME NEW ids \in SUBSET Jobs, InitAt("serving", ids)
  PROVE  TypeOK
<1> USE DEF InitAt
<1>1. /\ mem \in [Jobs -> Record] /\ saved \in [Jobs -> Record] /\ disk \in [Jobs -> Record]
      /\ toRead \subseteq Kept(mem)
  BY NothingKept
<1>2. admissions \in [Keys -> [job: Jobs \cup {NoJob}, hash: Payloads \cup {"none"}]]
  BY DEF NoAdmission
<1>3. admitting \in [job: Jobs \cup {NoJob}, key: Keys \cup {"none"},
                     hash: Payloads \cup {"none"}, left: SUBSET Jobs]
  BY DEF Idle
<1> QED
  BY <1>1, <1>2, <1>3 DEF TypeOK, Up

LEMMA AdmissionTypes ==
  ASSUME TypeOK,
         \/ \E j \in Jobs, k \in Keys \cup {"none"}, p \in Payloads : AdmitJob(j, k, p) \/ AdmitBatch(j, k, p)
         \/ AdmissionStep
  PROVE  TypeOK'
<1> USE DEF TypeOK
<1>1. ASSUME NEW j \in Jobs, NEW k \in Keys \cup {"none"}, NEW p \in Payloads, AdmitJob(j, k, p)
      PROVE  TypeOK'
  BY <1>1, Inserted DEF AdmitJob, Insert, StoreUnlocked, loopVars, serverVars
<1>2. ASSUME NEW j \in Jobs, NEW k \in Keys \cup {"none"}, NEW p \in Payloads, AdmitBatch(j, k, p)
      PROVE  TypeOK'
  BY <1>2, HistoryAssumption DEF AdmitBatch, loopVars, serverVars
<1>3. ASSUME NEW j \in Jobs, SetChild(j) PROVE TypeOK'
  BY <1>3, Inserted DEF SetChild, Insert, StoreUnlocked, loopVars, serverVars
<1>4. ASSUME admitting.job # NoJob, RecordAdmission(admitting.key, admitting.hash, admitting.job)
      PROVE  admissions' \in [Keys -> [job: Jobs \cup {NoJob}, hash: Payloads \cup {"none"}]]
  BY <1>4 DEF RecordAdmission, NoAdmission
<1>5. CASE SetParent
  BY <1>4, <1>5, Inserted DEF SetParent, Insert, StoreUnlocked, Idle, loopVars, serverVars
<1>6. CASE Accept
  BY <1>4, <1>6 DEF Accept, Idle, loopVars, serverVars
<1>7. CASE Rollback
  BY <1>7, Erased DEF Rollback, Erase, StoreUnlocked, Idle, loopVars, serverVars
<1> QED
  BY <1>1, <1>2, <1>3, <1>5, <1>6, <1>7 DEF AdmissionStep

LEMMA RecordTypes ==
  ASSUME TypeOK, NEW j \in Jobs,
         Update(j) \/ Signal(j) \/ Remove(j) \/ TrimRecord(j) \/ ReadRecord(j)
  PROVE  TypeOK'
<1> USE DEF TypeOK
<1>1. CASE Update(j)
  BY <1>1, Updated DEF Update, admissionVars, loopVars, serverVars
<1>2. CASE Signal(j)
  BY <1>2 DEF Signal, admissionVars, loopVars, serverVars
<1>3. CASE Remove(j)
  BY <1>3, Erased DEF Remove, Erase, StoreUnlocked, admissionVars, loopVars, serverVars
<1>4. CASE TrimRecord(j)
  BY <1>4, Erased DEF TrimRecord, Erase, StoreUnlocked, admissionVars, serverVars
<1>5. CASE ReadRecord(j)
  BY <1>5 DEF ReadRecord, admissionVars, serverVars
<1> QED
  BY <1>1, <1>2, <1>3, <1>4, <1>5

LEMMA RebootTypes ==
  ASSUME TypeOK, NEW records \in [Jobs -> Record], NEW changed \in BOOLEAN, Reboot(records, changed),
         server' \in Up \cup {"exited", "down"}, restarts' \in Nat
  PROVE  TypeOK'
BY NothingKept DEF TypeOK, Reboot, NoAdmission, Idle

LEMMA LoopTypes ==
  ASSUME TypeOK,
         \/ TakeToken \/ Tick \/ StopLoop \/ BeginRead \/ EndFlush
         \/ CloseApp \/ CloseStore \/ Exit \/ Crash \/ Restart \/ UNCHANGED vars
  PROVE  TypeOK'
<1> USE DEF TypeOK
<1>1. CASE TakeToken
  BY <1>1 DEF TakeToken, admissionVars, serverVars
<1>2. CASE Tick \/ StopLoop
  BY <1>2 DEF Tick, StopLoop, BeginFlush, Removable, Kept, admissionVars, serverVars
<1>3. CASE BeginRead
  BY <1>3, NothingKept DEF BeginRead, Kept, admissionVars, serverVars
<1>4. CASE EndFlush
  BY <1>4 DEF EndFlush, Write, admissionVars, serverVars
<1>5. CASE CloseApp \/ CloseStore \/ Exit
  BY <1>5 DEF CloseApp, CloseStore, Exit, Up, admissionVars, loopVars
<1>6. CASE Crash
  BY <1>6, NothingKept, RebootTypes DEF Crash
<1>7. CASE Restart
  <2>1. [j \in Jobs |-> Restored(disk[j])] \in [Jobs -> Record]
    BY RestoredIsRecord
  <2>2. restarts' \in Nat /\ server' \in Up
    BY <1>7 DEF Restart, Up
  <2> QED
    BY <1>7, <2>1, <2>2, RebootTypes DEF Restart
<1>8. CASE UNCHANGED vars
  BY <1>8 DEF vars, admissionVars, loopVars, serverVars
<1> QED
  BY <1>1, <1>2, <1>3, <1>4, <1>5, <1>6, <1>7, <1>8

(* The variables hold values of their types, through crashes and restarts. *)
THEOREM TypeCorrect == Spec => []TypeOK
<1>1. Init => TypeOK
  BY InitTypes DEF Init
<1>2. TypeOK /\ [Next]_vars => TypeOK'
  BY AdmissionTypes, RecordTypes, LoopTypes DEF Next, LoopStep
<1> QED
  BY <1>1, <1>2, PTL DEF Spec, SafeSpec

--------------------------------------------------------------------------------
(* Steps that add or erase no record and touch no admission, and steps that erase. *)
SameRecords ==
  UNCHANGED <<used, admissionVars>> /\ Kept(mem') = Kept(mem)

FewerRecords(j) ==
  UNCHANGED <<used, admissionVars>> /\ Erase(j)

LEMMA OtherSteps ==
  ASSUME TypeOK,
         \/ \E j \in Jobs : Update(j) \/ Signal(j) \/ Remove(j)
         \/ LoopStep \/ Tick \/ CloseApp \/ CloseStore \/ Exit \/ UNCHANGED vars
  PROVE  SameRecords \/ \E j \in Jobs : FewerRecords(j)
<1> USE DEF SameRecords, FewerRecords
<1>1. ASSUME NEW j \in Jobs, Update(j) PROVE SameRecords
  BY <1>1, Updated DEF Update, TypeOK
<1>2. ASSUME NEW j \in Jobs, Remove(j) \/ TrimRecord(j) PROVE FewerRecords(j)
  BY <1>2 DEF Remove, TrimRecord
<1>3. ASSUME NEW j \in Jobs, Signal(j) \/ ReadRecord(j) PROVE SameRecords
  BY <1>3 DEF Signal, ReadRecord
<1>4. CASE TakeToken \/ StopLoop \/ BeginRead \/ EndFlush \/ Tick
  BY <1>4 DEF TakeToken, StopLoop, BeginRead, EndFlush, Tick
<1>5. CASE CloseApp \/ CloseStore \/ Exit \/ UNCHANGED vars
  BY <1>5 DEF CloseApp, CloseStore, Exit, vars
<1> QED
  BY <1>1, <1>2, <1>3, <1>4, <1>5 DEF LoopStep

--------------------------------------------------------------------------------
(* Keys.  The request that holds App.workMu has given its key to its job before any
   admission is recorded; a key other than that one names at most the record that
   its admission names. *)
Holding ==
  /\ admitting.job = NoJob => admitting = Idle
  /\ admitting.job # NoJob => keyOf[admitting.job] = admitting.key

KeysOfUsed ==
  /\ Kept(mem) \subseteq used
  /\ admitting.job # NoJob /\ Kids[admitting.job] = {} => admitting.job \in used
  /\ \A j \in Jobs \ used : keyOf[j] = "none" \/ j = admitting.job

ChildrenToSet ==
  /\ admitting.left \cap used = {}
  /\ admitting.left # {} => admitting.job # NoJob /\ admitting.left \subseteq Kids[admitting.job]

KnownKeys ==
  \A i \in Kept(mem) :
    keyOf[i] # "none" =>
      \/ i = admitting.job
      \/ admissions[keyOf[i]].job = i /\ keyOf[i] # admitting.key

KeyInv == Holding /\ KeysOfUsed /\ ChildrenToSet /\ KnownKeys

LEMMA KeyInit ==
  ASSUME NEW ids \in SUBSET Jobs, InitAt("serving", ids)
  PROVE  KeyInv
<1>1. Kept(mem) = {}
  BY NothingKept DEF InitAt
<1> QED
  BY <1>1 DEF InitAt, KeyInv, Holding, KeysOfUsed, ChildrenToSet, KnownKeys, Idle

(* A job is a child of no batch of which it is the parent. *)
LEMMA NoOwnKid ==
  ASSUME NEW b \in Jobs
  PROVE  b \notin Kids[b]
BY HistoryAssumption

LEMMA KeyBegin ==
  ASSUME TypeOK, KeyInv, NEW j \in Jobs, NEW k \in Keys \cup {"none"}, NEW p \in Payloads,
         AdmitJob(j, k, p) \/ AdmitBatch(j, k, p)
  PROVE  KeyInv'
<1> USE DEF KeyInv
<1>0. /\ admitting = Idle /\ Admits(k, p)
      /\ keyOf' = [keyOf EXCEPT ![j] = k] /\ UNCHANGED admissions
      /\ admitting'.job = j /\ admitting'.key = k
  BY DEF AdmitJob, AdmitBatch
<1>j. ASSUME AdmitJob(j, k, p)
      PROVE  /\ j \notin used /\ used' = used \cup {j} /\ Kept(mem') = Kept(mem) \cup {j}
             /\ admitting'.left = {}
  BY <1>j, Inserted DEF AdmitJob, Insert, TypeOK
<1>b. ASSUME AdmitBatch(j, k, p)
      PROVE  /\ j \notin used /\ used' = used /\ Kept(mem') = Kept(mem) /\ Kids[j] # {}
             /\ admitting'.left = Kids[j] /\ Kids[j] \cap used = {}
  BY <1>b DEF AdmitBatch
<1>1. /\ j \notin used /\ used \subseteq used'
      /\ Kept(mem') \subseteq Kept(mem) \cup {j}
  BY <1>j, <1>b
<1>2. NoJob \notin Jobs /\ admitting.job = NoJob
  BY <1>0, HistoryAssumption DEF Idle
<1>k. keyOf'[j] = k /\ \A i \in Jobs : i # j => keyOf'[i] = keyOf[i]
  BY <1>0 DEF TypeOK
<1>3. Holding'
  BY <1>0, <1>2, <1>k DEF Holding
<1>4. KeysOfUsed'
  <2>1. \A i \in Jobs \ used : i # j => keyOf'[i] = "none"
    BY <1>2, <1>k DEF KeysOfUsed
  <2> QED
    BY <1>0, <1>j, <1>b, <2>1 DEF KeysOfUsed
<1>5. ChildrenToSet'
  BY <1>0, <1>2, <1>j, <1>b DEF ChildrenToSet
<1>6. KnownKeys'
  <2> SUFFICES ASSUME NEW i \in Kept(mem), i # j, keyOf[i] # "none"
               PROVE  admissions[keyOf[i]].job = i /\ keyOf[i] # k
    <3>1. Kept(mem') \subseteq Jobs
      BY DEF Kept
    <3> QED
      BY <1>0, <1>1, <1>k, <3>1 DEF KnownKeys
  <2>1. admissions[keyOf[i]].job = i
    BY <1>2 DEF KnownKeys, Kept
  <2>2. ASSUME keyOf[i] = k PROVE FALSE
    <3>1. admissions[k] # NoAdmission
      BY <1>2, <2>1, <2>2 DEF NoAdmission, Kept
    <3> QED
      BY <1>0, <2>1, <2>2, <3>1 DEF Admits
  <2> QED
    BY <2>1, <2>2
<1> QED
  BY <1>3, <1>4, <1>5, <1>6

LEMMA KeyEnd ==
  ASSUME TypeOK, KeyInv, AdmissionStep
  PROVE  KeyInv'
<1> USE DEF KeyInv
<1>1. ASSUME NEW j \in Jobs, SetChild(j) PROVE KeyInv'
  <2>1. /\ Kept(mem') = Kept(mem) \cup {j} /\ used' = used \cup {j}
        /\ admitting' = [admitting EXCEPT !.left = @ \ {j}]
        /\ UNCHANGED <<admissions, keyOf>>
    BY <1>1, Inserted DEF SetChild, Insert, TypeOK
  <2>2. admitting'.job = admitting.job /\ admitting'.key = admitting.key
        /\ admitting'.left = admitting.left \ {j}
    BY <2>1 DEF TypeOK
  <2>3. j \notin used /\ admitting.job # NoJob /\ j # admitting.job
    BY <1>1, NoOwnKid DEF SetChild, ChildrenToSet, TypeOK
  <2>4. keyOf[j] = "none"
    BY <2>3 DEF KeysOfUsed
  <2> QED
    BY <2>1, <2>2, <2>3, <2>4 DEF Holding, KeysOfUsed, ChildrenToSet, KnownKeys
<1>2. ASSUME admitting' = Idle, UNCHANGED keyOf, Kept(mem') \subseteq Kept(mem) \cup {admitting.job},
             used \subseteq used', Kept(mem') \subseteq used', admitting.job # NoJob,
             admitting.job \in used',
             RecordAdmission(admitting.key, admitting.hash, admitting.job)
      PROVE  KeyInv'
  <2>1. KnownKeys'
    <3> SUFFICES ASSUME NEW i \in Kept(mem'), keyOf[i] # "none"
                 PROVE  admissions'[keyOf[i]].job = i /\ keyOf[i] # "none"
      BY <1>2 DEF KnownKeys, Idle
    <3>1. keyOf[i] \in Keys
      BY DEF TypeOK, Kept
    <3>2. CASE i = admitting.job
      BY <1>2, <3>1, <3>2 DEF RecordAdmission, Holding
    <3>3. CASE i # admitting.job
      <4>1. i \in Kept(mem) /\ admissions[keyOf[i]].job = i /\ keyOf[i] # admitting.key
        BY <1>2, <3>3 DEF KnownKeys
      <4> QED
        BY <1>2, <3>1, <4>1 DEF RecordAdmission
    <3> QED
      BY <3>2, <3>3
  <2> QED
    BY <1>2, <2>1 DEF Holding, KeysOfUsed, ChildrenToSet, Idle
<1>3. CASE SetParent
  <2>1. Insert(admitting.job) /\ admitting.job \in Jobs
    BY <1>3 DEF SetParent, TypeOK
  <2>2. /\ Kept(mem') = Kept(mem) \cup {admitting.job} /\ used' = used \cup {admitting.job}
        /\ admitting' = Idle /\ UNCHANGED keyOf /\ admitting.job # NoJob
        /\ RecordAdmission(admitting.key, admitting.hash, admitting.job)
    BY <1>3, <2>1, Inserted DEF SetParent, Insert, TypeOK
  <2>3. Kept(mem) \subseteq used
    BY DEF KeysOfUsed
  <2> QED
    BY <1>2, <2>2, <2>3
<1>4. CASE Accept
  BY <1>2, <1>4 DEF Accept, KeysOfUsed
<1>5. CASE Rollback
  <2>1. /\ admitting.job \in Jobs /\ admitting.job \in used /\ admitting' = Idle
        /\ UNCHANGED <<used, admissions, keyOf>> /\ Kept(mem') = Kept(mem) \ {admitting.job}
    BY <1>5, Erased DEF Rollback, KeysOfUsed, TypeOK
  <2> QED
    BY <2>1 DEF Holding, KeysOfUsed, ChildrenToSet, KnownKeys, Idle
<1> QED
  BY <1>1, <1>3, <1>4, <1>5 DEF AdmissionStep

(* The copy of a flush under way, read so far or still to read, is only ever what
   memory held when the flush took the lock; the file is only ever such a copy. *)
Copied == Kept(saved) \cup toRead

CopyStep ==
  /\ Copied' \subseteq Copied \/ Copied' \subseteq Kept(mem)
  /\ Kept(disk') \subseteq Kept(disk) \/ Kept(disk') \subseteq Copied

LEMMA LoopCopyStep ==
  ASSUME TypeOK, LoopStep
  PROVE  CopyStep
<1> USE DEF CopyStep, Copied
<1>1. CASE TakeToken \/ StopLoop
  BY <1>1 DEF TakeToken, StopLoop, Kept
<1>2. CASE BeginRead
  BY <1>2, NothingKept DEF BeginRead
<1>3. CASE EndFlush
  BY <1>3 DEF EndFlush, Write, Kept
<1>4. ASSUME NEW j \in Jobs, TrimRecord(j) PROVE CopyStep
  BY <1>4 DEF TrimRecord, Kept
<1>5. ASSUME NEW j \in Jobs, ReadRecord(j) PROVE CopyStep
  <2>1. Kept(saved') \subseteq Kept(saved) \cup {j} /\ toRead' \subseteq toRead /\ j \in toRead
    BY <1>5 DEF ReadRecord, Kept, TypeOK
  <2> QED
    BY <1>5, <2>1 DEF ReadRecord
<1> QED
  BY <1>1, <1>2, <1>3, <1>4, <1>5 DEF LoopStep

LEMMA AnyCopyStep ==
  ASSUME TypeOK, [Next]_vars
  PROVE  CopyStep
<1>1. ASSUME UNCHANGED <<saved, toRead, disk>> PROVE CopyStep
  BY <1>1 DEF CopyStep, Copied
<1>2. ASSUME NEW j \in Jobs, NEW k \in Keys \cup {"none"}, NEW p \in Payloads,
             AdmitJob(j, k, p) \/ AdmitBatch(j, k, p)
      PROVE  CopyStep
  BY <1>1, <1>2 DEF AdmitJob, AdmitBatch, loopVars
<1>3. CASE AdmissionStep
  BY <1>1, <1>3 DEF AdmissionStep, SetParent, Accept, Rollback, SetChild, loopVars
<1>4. ASSUME NEW j \in Jobs, Update(j) \/ Signal(j) \/ Remove(j) PROVE CopyStep
  BY <1>1, <1>4 DEF Update, Signal, Remove, loopVars
<1>5. CASE Tick \/ CloseApp \/ CloseStore \/ Exit \/ UNCHANGED vars
  BY <1>1, <1>5 DEF Tick, CloseApp, CloseStore, Exit, loopVars, vars
<1>6. ASSUME NEW records, NEW changed, Reboot(records, changed) PROVE CopyStep
  BY <1>6, NothingKept DEF Reboot, CopyStep, Copied
<1>7. CASE Crash \/ Restart
  BY <1>6, <1>7 DEF Crash, Restart
<1> QED
  BY <1>2, <1>3, <1>4, <1>5, <1>7, LoopCopyStep DEF Next

(* Ids in a copy or in the file were given out, so no later record takes them. *)
FileUsed == Copied \cup Kept(disk) \subseteq used

LEMMA UsedGrows ==
  ASSUME [Next]_vars
  PROVE  used \subseteq used'
<1>1. ASSUME NEW j \in Jobs, NEW k \in Keys \cup {"none"}, NEW p \in Payloads,
             AdmitJob(j, k, p) \/ AdmitBatch(j, k, p)
      PROVE  used \subseteq used'
  BY <1>1 DEF AdmitJob, AdmitBatch, Insert
<1>2. CASE AdmissionStep
  BY <1>2 DEF AdmissionStep, SetParent, Accept, Rollback, SetChild, Insert
<1>3. ASSUME NEW j \in Jobs, Update(j) \/ Signal(j) \/ Remove(j) PROVE used \subseteq used'
  BY <1>3 DEF Update, Signal, Remove
<1>4. CASE LoopStep
  BY <1>4 DEF LoopStep, TakeToken, StopLoop, BeginRead, EndFlush, TrimRecord, ReadRecord
<1>5. CASE Tick \/ CloseApp \/ CloseStore \/ Exit \/ UNCHANGED vars
  BY <1>5 DEF Tick, CloseApp, CloseStore, Exit, vars
<1>6. CASE Crash \/ Restart
  BY <1>6 DEF Crash, Restart, Reboot
<1> QED
  BY <1>1, <1>2, <1>3, <1>4, <1>5, <1>6 DEF Next

LEMMA FileUsedStep ==
  ASSUME TypeOK, KeyInv, FileUsed, [Next]_vars
  PROVE  FileUsed'
<1>1. CopyStep /\ used \subseteq used'
  BY AnyCopyStep, UsedGrows
<1> QED
  BY <1>1 DEF FileUsed, CopyStep, KeyInv, KeysOfUsed

LEMMA RestoredKept ==
  ASSUME TypeOK
  PROVE  Kept([j \in Jobs |-> Restored(disk[j])]) = Kept(disk)
BY RestoredIsRecord DEF TypeOK, Kept

LEMMA KeyRest ==
  ASSUME TypeOK, KeyInv, FileUsed,
         \/ \E j \in Jobs : Update(j) \/ Signal(j) \/ Remove(j)
         \/ LoopStep \/ Tick \/ CloseApp \/ CloseStore \/ Exit \/ Crash \/ Restart \/ UNCHANGED vars
  PROVE  KeyInv'
<1>1. CASE SameRecords
  BY <1>1 DEF SameRecords, admissionVars, KeyInv, Holding, KeysOfUsed, ChildrenToSet, KnownKeys
<1>2. ASSUME NEW j \in Jobs, FewerRecords(j) PROVE KeyInv'
  <2>1. Kept(mem') \subseteq Kept(mem) /\ UNCHANGED <<used, admissions, admitting, keyOf>>
    BY <1>2, Erased DEF FewerRecords, admissionVars, TypeOK
  <2> QED
    BY <2>1 DEF KeyInv, Holding, KeysOfUsed, ChildrenToSet, KnownKeys
<1>3. ASSUME Kept(mem') \subseteq used', admitting' = Idle, keyOf' = [j \in Jobs |-> "none"]
      PROVE  KeyInv'
  BY <1>3 DEF KeyInv, Holding, KeysOfUsed, ChildrenToSet, KnownKeys, Idle, Kept
<1>4. CASE Crash
  BY <1>3, <1>4, NothingKept DEF Crash, Reboot
<1>5. CASE Restart
  BY <1>3, <1>5, RestoredKept DEF Restart, Reboot, FileUsed
<1> QED
  BY <1>1, <1>2, <1>4, <1>5, OtherSteps

LEMMA KeysCorrect == Spec => [](TypeOK /\ KeyInv /\ FileUsed)
<1>1. Init => TypeOK /\ KeyInv /\ FileUsed
  <2>1. Init => Copied = {} /\ Kept(disk) = {}
    BY NothingKept DEF Init, InitAt, Copied
  <2> QED
    BY <2>1, InitTypes, KeyInit DEF Init, FileUsed
<1>2. TypeOK /\ KeyInv /\ FileUsed /\ [Next]_vars => (TypeOK /\ KeyInv /\ FileUsed)'
  <2> SUFFICES ASSUME TypeOK, KeyInv, FileUsed, [Next]_vars
               PROVE  (TypeOK /\ KeyInv /\ FileUsed)'
    OBVIOUS
  <2>1. TypeOK'
    BY AdmissionTypes, RecordTypes, LoopTypes DEF Next, LoopStep
  <2>2. KeyInv'
    BY KeyBegin, KeyEnd, KeyRest DEF Next
  <2> QED
    BY <2>1, <2>2, FileUsedStep
<1> QED
  BY <1>1, <1>2, PTL DEF Spec, SafeSpec

(* OneJobPerKey follows: of two retained records with one key, one at most is held
   by the request under way, and the key names the other. *)
THEOREM OneJobPerKeyCorrect == Spec => []OneJobPerKey
<1>1. TypeOK /\ KeyInv => OneJobPerKey
  <2> SUFFICES ASSUME KeyInv, NEW i \in Kept(mem), NEW j \in Kept(mem), i # j,
                      keyOf[i] # "none", keyOf[i] = keyOf[j]
               PROVE  FALSE
    BY DEF OneJobPerKey
  <2>1. \A d \in {i, j} : d = admitting.job => keyOf[d] = admitting.key
    <3>1. NoJob \notin Kept(mem)
      BY HistoryAssumption DEF Kept
    <3> QED
      BY <3>1 DEF KeyInv, Holding
  <2> QED
    BY <2>1 DEF KeyInv, KnownKeys
<1> QED
  BY <1>1, KeysCorrect, PTL

--------------------------------------------------------------------------------
(* The limit.  The records kept, with those that the request under way has checked
   room for and not yet added, are within it; so are those of a copy and of the
   file, since each was once a set of records kept. *)
Pending ==
  IF admitting.job # NoJob /\ Kids[admitting.job] # {} THEN Cardinality(admitting.left) + 1 ELSE 0

Room ==
  /\ Cardinality(Kept(mem)) + Pending <= RecordLimit
  /\ Cardinality(Copied) <= RecordLimit
  /\ LoadAccepts

LEMMA SizeOfJobs ==
  ASSUME NEW S \in SUBSET Jobs, NEW T \in SUBSET S
  PROVE  /\ IsFiniteSet(S) /\ Cardinality(S) \in Nat
         /\ Cardinality(T) \in Nat /\ Cardinality(T) <= Cardinality(S)
         /\ \A j \in Jobs \ S : Cardinality(S \cup {j}) = Cardinality(S) + 1
         /\ \A j \in S : Cardinality(S \ {j}) = Cardinality(S) - 1
<1>1. IsFiniteSet(S) /\ IsFiniteSet(T)
  BY HistoryAssumption, FS_Subset
<1> QED
  BY <1>1, FS_CardinalityType, FS_Subset, FS_AddElement, FS_RemoveElement

LEMMA PendingType ==
  ASSUME TypeOK
  PROVE  Pending \in Nat
BY SizeOfJobs DEF TypeOK, Pending

(* Fewer records, and no more of them pending. *)
LEMMA RoomKept ==
  ASSUME TypeOK, Room, Kept(mem') \subseteq Kept(mem), Pending' \in Nat, Pending' <= Pending
  PROVE  Cardinality(Kept(mem')) + Pending' <= RecordLimit
<1>1. /\ Cardinality(Kept(mem)) \in Nat /\ Cardinality(Kept(mem')) \in Nat
      /\ Cardinality(Kept(mem')) <= Cardinality(Kept(mem))
  BY SizeOfJobs DEF Kept
<1> QED
  BY <1>1, PendingType, HistoryAssumption DEF Room

LEMMA RoomBegin ==
  ASSUME TypeOK, KeyInv, Room, NEW j \in Jobs, NEW k \in Keys \cup {"none"}, NEW p \in Payloads,
         AdmitJob(j, k, p) \/ AdmitBatch(j, k, p)
  PROVE  Cardinality(Kept(mem')) + Pending' <= RecordLimit
<1>1. CASE AdmitJob(j, k, p)
  <2>1. Kept(mem') = Kept(mem) \cup {j} /\ j \notin Kept(mem)
    BY <1>1, Inserted DEF AdmitJob, TypeOK, KeyInv, KeysOfUsed
  <2>2. Cardinality(Kept(mem')) = Cardinality(Kept(mem)) + 1
    BY <2>1, SizeOfJobs DEF Kept
  <2>3. Pending' = 0
    BY <1>1 DEF AdmitJob, Singles, Pending
  <2>4. Cardinality(Kept(mem)) + 1 <= RecordLimit
    BY <1>1 DEF AdmitJob, Fits
  <2>5. Cardinality(Kept(mem)) \in Nat
    BY SizeOfJobs DEF Kept
  <2> QED
    BY <2>2, <2>3, <2>4, <2>5
<1>2. CASE AdmitBatch(j, k, p)
  <2>1. Kept(mem') = Kept(mem)
    BY <1>2 DEF AdmitBatch
  <2>2. Pending' = Cardinality(Kids[j]) + 1
    BY <1>2, HistoryAssumption DEF AdmitBatch, Pending
  <2> QED
    BY <1>2, <2>1, <2>2 DEF AdmitBatch, Fits
<1> QED
  BY <1>1, <1>2

LEMMA RoomEnd ==
  ASSUME TypeOK, KeyInv, Room, AdmissionStep
  PROVE  Cardinality(Kept(mem')) + Pending' <= RecordLimit
<1>0. Cardinality(Kept(mem)) \in Nat
  BY SizeOfJobs DEF Kept
<1>1. ASSUME NEW j \in Jobs, SetChild(j)
      PROVE  Cardinality(Kept(mem')) + Pending' <= RecordLimit
  <2>1. Kept(mem') = Kept(mem) \cup {j} /\ j \in admitting.left
    BY <1>1, Inserted DEF SetChild, TypeOK
  <2>2. j \notin Kept(mem) /\ admitting.job # NoJob /\ Kids[admitting.job] # {}
    BY <2>1 DEF KeyInv, KeysOfUsed, ChildrenToSet
  <2>3. Cardinality(Kept(mem')) = Cardinality(Kept(mem)) + 1
    BY <2>1, <2>2, SizeOfJobs DEF Kept
  <2>4. admitting'.job = admitting.job /\ admitting'.left = admitting.left \ {j}
    BY <1>1 DEF SetChild, TypeOK
  <2>5. Cardinality(admitting.left) \in Nat
        /\ Cardinality(admitting.left \ {j}) = Cardinality(admitting.left) - 1
    BY <2>1, SizeOfJobs DEF TypeOK
  <2>6. Pending = Cardinality(admitting.left) + 1
    BY <2>2 DEF Pending
  <2>7. Pending' = Cardinality(admitting.left)
    BY <2>2, <2>4, <2>5 DEF Pending
  <2> QED
    BY <1>0, <2>3, <2>5, <2>6, <2>7 DEF Room
<1>2. CASE SetParent
  <2>1. admitting.job \in Jobs /\ admitting.left = {}
    BY <1>2 DEF SetParent, TypeOK
  <2>2. Kept(mem') = Kept(mem) \cup {admitting.job} /\ admitting' = Idle
    BY <1>2, <2>1, Inserted DEF SetParent, TypeOK
  <2>3. Cardinality(Kept(mem')) <= Cardinality(Kept(mem)) + 1
    BY <1>0, <2>1, <2>2, SizeOfJobs DEF Kept
  <2>4. Pending \in Nat /\ Pending >= 1
    BY <1>2, <2>1, FS_EmptySet DEF SetParent, Pending
  <2>5. Pending' = 0
    BY <2>2 DEF Pending, Idle
  <2>6. Cardinality(Kept(mem')) \in Nat
    BY SizeOfJobs DEF Kept
  <2> QED
    BY <1>0, <2>3, <2>4, <2>5, <2>6, HistoryAssumption DEF Room
<1>3. CASE Accept \/ Rollback
  <2>1. Kept(mem') \subseteq Kept(mem) /\ admitting' = Idle
    BY <1>3, Erased DEF Accept, Rollback, TypeOK
  <2>2. Pending' = 0
    BY <2>1 DEF Pending, Idle
  <2> QED
    BY <2>1, <2>2, RoomKept, PendingType
<1> QED
  BY <1>1, <1>2, <1>3 DEF AdmissionStep

LEMMA RoomRest ==
  ASSUME TypeOK, Room,
         \/ \E j \in Jobs : Update(j) \/ Signal(j) \/ Remove(j)
         \/ LoopStep \/ Tick \/ CloseApp \/ CloseStore \/ Exit \/ Crash \/ Restart \/ UNCHANGED vars
  PROVE  Cardinality(Kept(mem')) + Pending' <= RecordLimit
<1>1. CASE SameRecords \/ \E j \in Jobs : FewerRecords(j)
  <2>1. Kept(mem') \subseteq Kept(mem) /\ UNCHANGED admitting
    BY <1>1, Erased DEF SameRecords, FewerRecords, admissionVars, TypeOK
  <2>2. Pending' = Pending
    BY <2>1 DEF Pending
  <2> QED
    BY <2>1, <2>2, RoomKept, PendingType
<1>2. CASE Crash \/ Restart
  <2>1. admitting' = Idle /\ Kept(mem') \in {{}, Kept(disk)}
    BY <1>2, NothingKept, RestoredKept DEF Crash, Restart, Reboot
  <2>2. Pending' = 0
    BY <2>1 DEF Pending, Idle
  <2>3. Cardinality({}) = 0 /\ Cardinality(Kept(disk)) \in Nat
    BY FS_EmptySet, SizeOfJobs DEF Kept
  <2> QED
    BY <2>1, <2>2, <2>3, HistoryAssumption DEF Room, LoadAccepts
<1> QED
  BY <1>1, <1>2, OtherSteps

LEMMA RoomStep ==
  ASSUME TypeOK, KeyInv, Room, [Next]_vars
  PROVE  Room'
<1>1. Cardinality(Kept(mem')) + Pending' <= RecordLimit
  BY RoomBegin, RoomEnd, RoomRest DEF Next
<1>2. CopyStep
  BY AnyCopyStep
<1>3. /\ Copied \subseteq Jobs /\ Kept(mem) \subseteq Jobs /\ Kept(disk) \subseteq Jobs
      /\ Copied' \subseteq Jobs /\ Kept(disk') \subseteq Jobs
  <2>1. toRead \subseteq Jobs /\ toRead' \subseteq Jobs
    BY AdmissionTypes, RecordTypes, LoopTypes DEF Next, LoopStep, TypeOK, Kept
  <2> QED
    BY <2>1 DEF Copied, Kept
<1>4. Cardinality(Kept(mem)) <= RecordLimit
  BY <1>3, SizeOfJobs, PendingType, HistoryAssumption DEF Room
<1>5. \A S, T \in SUBSET Jobs : T \subseteq S /\ Cardinality(S) <= RecordLimit => Cardinality(T) <= RecordLimit
  BY SizeOfJobs, HistoryAssumption
<1>6. Cardinality(Copied') <= RecordLimit
  BY <1>2, <1>3, <1>4, <1>5 DEF CopyStep, Room
<1>7. LoadAccepts'
  BY <1>2, <1>3, <1>5 DEF CopyStep, Room, LoadAccepts
<1> QED
  BY <1>1, <1>6, <1>7 DEF Room

(* No file this server writes is one that its next start refuses. *)
THEOREM LoadAcceptsCorrect == Spec => []LoadAccepts
<1>1. Init => Room
  <2> SUFFICES ASSUME Init PROVE Room
    OBVIOUS
  <2>1. Kept(mem) = {} /\ Copied = {} /\ Kept(disk) = {} /\ Pending = 0
    BY NothingKept DEF Init, InitAt, Copied, Pending, Idle
  <2>2. Cardinality({}) = 0
    BY FS_EmptySet
  <2> QED
    BY <2>1, <2>2, HistoryAssumption DEF Room, LoadAccepts
<1>2. (TypeOK /\ KeyInv /\ FileUsed) /\ Room /\ [Next]_vars => Room'
  BY RoomStep
<1>3. Room => LoadAccepts
  BY DEF Room
<1> QED
  BY <1>1, <1>2, <1>3, KeysCorrect, PTL DEF Spec, SafeSpec

--------------------------------------------------------------------------------
(* What the file owes.  While a flush writes, a record that has been read and has
   changed since is about to be signalled, or its token waits for the next round. *)
CopyIsCurrent ==
  /\ toRead # {} => loop = "writing"
  /\ loop = "writing" => \A j \in Jobs \ toRead : saved[j] # mem[j] => j \in owed \/ token

LagInv == CopyIsCurrent /\ LagIsOwed

copyVars == <<dirty, loop, toRead, saved, disk, failing>>

(* The steps that change memory: with the lock free, they leave the token; a record
   updated under its own lock is owed until its writer leaves the token. *)
LEMMA LagTokenSet ==
  ASSUME LagInv, UNCHANGED copyVars, token'
  PROVE  LagInv'
BY DEF LagInv, CopyIsCurrent, LagIsOwed, copyVars

LEMMA LagAdmission ==
  ASSUME TypeOK, LagInv,
         \/ \E j \in Jobs, k \in Keys \cup {"none"}, p \in Payloads : AdmitJob(j, k, p) \/ AdmitBatch(j, k, p)
         \/ AdmissionStep
  PROVE  LagInv'
<1> USE DEF copyVars, loopVars
<1>1. ASSUME NEW j \in Jobs, NEW k \in Keys \cup {"none"}, NEW p \in Payloads, AdmitJob(j, k, p)
      PROVE  LagInv'
  BY <1>1, LagTokenSet DEF AdmitJob, Insert
<1>2. ASSUME UNCHANGED <<mem, owed, token, loopVars, serverVars>> PROVE LagInv'
  BY <1>2 DEF LagInv, CopyIsCurrent, LagIsOwed, serverVars
<1>3. ASSUME NEW j \in Jobs, NEW k \in Keys \cup {"none"}, NEW p \in Payloads, AdmitBatch(j, k, p)
      PROVE  LagInv'
  BY <1>2, <1>3 DEF AdmitBatch
<1>4. CASE Accept
  BY <1>2, <1>4 DEF Accept
<1>5. CASE SetParent \/ Rollback \/ \E j \in Jobs : SetChild(j)
  BY <1>5, LagTokenSet DEF SetParent, Rollback, SetChild, Insert, Erase
<1> QED
  BY <1>1, <1>3, <1>4, <1>5 DEF AdmissionStep

LEMMA LagRecord ==
  ASSUME TypeOK, LagInv, NEW j \in Jobs,
         Update(j) \/ Signal(j) \/ Remove(j) \/ TrimRecord(j) \/ ReadRecord(j)
  PROVE  LagInv'
<1> USE DEF copyVars, loopVars
<1>1. CASE Update(j)
  <2>1. \A i \in Jobs : i # j => mem'[i] = mem[i]
    BY <1>1, Updated DEF TypeOK
  <2>2. owed' = owed \cup {j} /\ UNCHANGED <<token, copyVars, server>>
    BY <1>1 DEF Update, serverVars
  <2>3. CopyIsCurrent'
    BY <2>1, <2>2 DEF LagInv, CopyIsCurrent
  <2>4. LagIsOwed'
    BY <2>1, <2>2 DEF LagInv, LagIsOwed
  <2> QED
    BY <2>3, <2>4 DEF LagInv
<1>2. CASE Signal(j) \/ Remove(j)
  BY <1>2, LagTokenSet DEF Signal, Remove, Erase
<1>3. CASE TrimRecord(j)
  BY <1>3, LagTokenSet DEF TrimRecord, Erase
<1>4. CASE ReadRecord(j)
  <2>1. /\ saved'[j] = mem[j] /\ \A i \in Jobs : i # j => saved'[i] = saved[i]
        /\ toRead' = toRead \ {j} /\ UNCHANGED <<mem, owed, token, dirty, loop, disk, failing, server>>
    BY <1>4 DEF ReadRecord, serverVars, TypeOK
  <2>2. toRead # {}
    BY <1>4 DEF ReadRecord
  <2>3. CopyIsCurrent'
    BY <2>1, <2>2 DEF LagInv, CopyIsCurrent
  <2>4. LagIsOwed'
    BY <2>1 DEF LagInv, LagIsOwed
  <2> QED
    BY <2>3, <2>4 DEF LagInv
<1> QED
  BY <1>1, <1>2, <1>3, <1>4

LEMMA LagLoop ==
  ASSUME TypeOK, LagInv,
         \/ TakeToken \/ Tick \/ StopLoop \/ BeginRead \/ EndFlush
         \/ CloseApp \/ CloseStore \/ Exit \/ Crash \/ Restart \/ UNCHANGED vars
  PROVE  LagInv'
<1> USE DEF LagInv, CopyIsCurrent, LagIsOwed
<1>1. CASE TakeToken
  BY <1>1 DEF TakeToken
<1>2. CASE Tick \/ StopLoop
  BY <1>2 DEF Tick, StopLoop, BeginFlush, serverVars
<1>3. CASE BeginRead
  BY <1>3 DEF BeginRead, Kept, Nothing, serverVars
<1>4. CASE EndFlush
  BY <1>4 DEF EndFlush, Write, serverVars
<1>5. CASE CloseApp \/ CloseStore \/ Exit
  BY <1>5 DEF CloseApp, CloseStore, Exit, loopVars, Up
<1>6. CASE Crash \/ Restart
  BY <1>6 DEF Crash, Restart, Reboot, Up
<1>7. CASE UNCHANGED vars
  BY <1>7 DEF vars, loopVars, serverVars
<1> QED
  BY <1>1, <1>2, <1>3, <1>4, <1>5, <1>6, <1>7

(* A difference between memory and the file is never forgotten. *)
THEOREM LagIsOwedCorrect == Spec => []LagIsOwed
<1>1. Init => LagInv
  BY DEF Init, InitAt, LagInv, CopyIsCurrent, LagIsOwed
<1>2. TypeOK /\ LagInv /\ [Next]_vars => LagInv'
  BY LagAdmission, LagRecord, LagLoop DEF Next, LoopStep
<1>3. LagInv => LagIsOwed
  BY DEF LagInv
<1> QED
  BY <1>1, <1>2, <1>3, TypeCorrect, PTL DEF Spec, SafeSpec

--------------------------------------------------------------------------------
(* Shutdown.  No admission is under way once App.Close has begun; a record that the
   last flush has read had ended, or has not ended since, as only ended records are
   touched after Pool.Stop. *)
StagesInv ==
  /\ server # "serving" => admitting = Idle
  /\ last \/ loop = "done" => server \in {"ending", "exited"}
  /\ server = "exited" => loop = "done"
  /\ toRead # {} => loop = "writing"

EndsCopied ==
  /\ last /\ loop = "writing" => \A j \in Jobs \ toRead : mem[j].ended => saved[j].ended
  /\ loop = "done" /\ ~failing => \A j \in Jobs : mem[j].ended => disk[j].ended

EndInv == StagesInv /\ EndsCopied

(* An admission begins and ends while the server is serving, before any last flush. *)
LEMMA EndAdmission ==
  ASSUME TypeOK, EndInv, server \in Up,
         \/ \E j \in Jobs, k \in Keys \cup {"none"}, p \in Payloads : AdmitJob(j, k, p) \/ AdmitBatch(j, k, p)
         \/ AdmissionStep
  PROVE  EndInv'
<1> USE DEF EndInv, StagesInv, EndsCopied
<1>1. server = "serving" /\ UNCHANGED <<loopVars, serverVars>>
  <2>1. CASE AdmissionStep
    <3>1. admitting # Idle /\ UNCHANGED <<loopVars, serverVars>>
      BY <2>1, HistoryAssumption DEF AdmissionStep, SetParent, Accept, Rollback, SetChild, Idle
    <3> QED
      BY <3>1
  <2> QED
    BY <2>1 DEF AdmitJob, AdmitBatch
<1> QED
  BY <1>1 DEF loopVars, serverVars

LEMMA EndRecord ==
  ASSUME TypeOK, EndInv, NEW j \in Jobs,
         Update(j) \/ Signal(j) \/ Remove(j) \/ TrimRecord(j) \/ ReadRecord(j)
  PROVE  EndInv'
<1>1. CASE Update(j)
  <2>1. /\ server \in Up /\ UNCHANGED <<admissionVars, loopVars, serverVars>>
        /\ server = "ending" => mem[j].ended
    BY <1>1 DEF Update
  <2>2. \A i \in Jobs : i # j => mem'[i] = mem[i]
    BY <1>1, Updated DEF TypeOK
  <2>3. last \/ loop = "done" => \A i \in Jobs : mem'[i].ended => mem[i].ended
    BY <2>1, <2>2 DEF EndInv, StagesInv, Up
  <2>4. StagesInv'
    BY <2>1 DEF EndInv, StagesInv, admissionVars, loopVars, serverVars
  <2>5. EndsCopied'
    BY <2>1, <2>3 DEF EndInv, EndsCopied, loopVars
  <2> QED
    BY <2>4, <2>5 DEF EndInv
<1>2. CASE Signal(j)
  BY <1>2 DEF Signal, EndInv, StagesInv, EndsCopied, admissionVars, loopVars, serverVars
<1>3. CASE Remove(j) \/ TrimRecord(j)
  <2>1. /\ UNCHANGED <<admitting, loop, last, toRead, saved, disk, failing, server>>
        /\ \A i \in Jobs : mem'[i].ended => mem[i].ended
    BY <1>3, Erased DEF Remove, TrimRecord, admissionVars, loopVars, serverVars, TypeOK
  <2> QED
    BY <2>1 DEF EndInv, StagesInv, EndsCopied
<1>4. CASE ReadRecord(j)
  <2>1. /\ saved'[j] = mem[j] /\ \A i \in Jobs : i # j => saved'[i] = saved[i]
        /\ toRead' = toRead \ {j} /\ UNCHANGED <<mem, admitting, loop, last, disk, failing, server>>
    BY <1>4 DEF ReadRecord, serverVars, admissionVars, TypeOK
  <2>2. toRead # {}
    BY <1>4 DEF ReadRecord
  <2> QED
    BY <2>1, <2>2 DEF EndInv, StagesInv, EndsCopied
<1> QED
  BY <1>1, <1>2, <1>3, <1>4

LEMMA EndLoop ==
  ASSUME TypeOK, EndInv,
         \/ TakeToken \/ Tick \/ StopLoop \/ BeginRead \/ EndFlush
         \/ CloseApp \/ CloseStore \/ Exit \/ Crash \/ Restart \/ UNCHANGED vars
  PROVE  EndInv'
<1> USE DEF EndInv, StagesInv, EndsCopied
<1>1. CASE TakeToken
  BY <1>1 DEF TakeToken, admissionVars, serverVars
<1>2. CASE Tick \/ StopLoop
  BY <1>2 DEF Tick, StopLoop, BeginFlush, admissionVars, serverVars
<1>3. CASE BeginRead
  BY <1>3 DEF BeginRead, Kept, NoRecord, Nothing, admissionVars, serverVars
<1>4. CASE EndFlush
  BY <1>4 DEF EndFlush, Write, admissionVars, serverVars
<1>5. CASE CloseApp \/ CloseStore \/ Exit
  BY <1>5 DEF CloseApp, CloseStore, Exit, admissionVars, loopVars
<1>6. CASE Crash \/ Restart
  BY <1>6 DEF Crash, Restart, Reboot
<1>7. CASE UNCHANGED vars
  BY <1>7 DEF vars, admissionVars, loopVars, serverVars
<1> QED
  BY <1>1, <1>2, <1>3, <1>4, <1>5, <1>6, <1>7

(* After an orderly exit, the file shows the end of every job that memory showed. *)
THEOREM ExitSavesEndsCorrect == Spec => []ExitSavesEnds
<1>1. Init => EndInv
  BY DEF Init, InitAt, EndInv, StagesInv, EndsCopied
<1>2. TypeOK /\ EndInv /\ [Next]_vars => EndInv'
  <2>1. ASSUME NEW j \in Jobs, NEW k \in Keys \cup {"none"}, NEW p \in Payloads,
               AdmitJob(j, k, p) \/ AdmitBatch(j, k, p)
        PROVE  server \in Up
    BY <2>1 DEF AdmitJob, AdmitBatch, Up
  <2> QED
    BY <2>1, EndAdmission, EndRecord, EndLoop DEF Next, LoopStep
<1>3. EndInv => ExitSavesEnds
  BY DEF EndInv, StagesInv, EndsCopied, ExitSavesEnds
<1> QED
  BY <1>1, <1>2, <1>3, TypeCorrect, PTL DEF Spec, SafeSpec

================================================================================
