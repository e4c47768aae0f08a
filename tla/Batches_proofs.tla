----------------------------- MODULE Batches_proofs -----------------------------
(***************************************************************************)
(* Proofs about playlist batches, for any number of batches of any length,  *)
(* any number of requests in flight and any bounds of the pool: what the    *)
(* goroutine that watches a batch may conclude from children that it reads *)
(* one by one while workers, requests and App.Close change them.           *)
(***************************************************************************)
EXTENDS Batches, SequenceFacts

(* The children of a batch are jobs, and no batches themselves. *)
LEMMA KidFacts ==
  ASSUME NEW b \in Batches
  PROVE  /\ b \in Jobs /\ b # NoJob
         /\ Total(b) \in Nat \ {0}
         /\ \A i \in 1 .. Total(b) : Children[b][i] \in Kids(b)
         /\ \A k \in Kids(b) : \E i \in 1 .. Total(b) : k = Children[b][i]
         /\ Kids(b) \subseteq Jobs \ Batches
<1>1. Children[b] \in Seq(Jobs \ Batches) /\ Children[b] # << >>
  BY BatchesAssumption
<1>2. Kids(b) = {Children[b][i] : i \in 1 .. Total(b)}
  BY <1>1, ToSetIsRange DEF Kids, Total
<1>3. Total(b) \in Nat \ {0}
  BY <1>1, EmptySeq DEF Total
<1>4. Kids(b) \subseteq Jobs \ Batches
  BY <1>1, RangeInSet DEF Kids
<1> QED
  BY <1>2, <1>3, <1>4, BatchesAssumption DEF NoJob

--------------------------------------------------------------------------------
(* The records and the pool, as JobPool describes them. *)
JobTypes ==
  /\ status \in [Jobs -> {"none", "active", "downloading"} \cup Waiting \cup Terminal]
  /\ stored \subseteq Jobs
  /\ ctxDone \subseteq Jobs
  /\ queue \in Seq(Jobs)
  /\ held \in Jobs \cup {NoJob}
  /\ running \subseteq Jobs
  /\ returned \subseteq Jobs
  /\ poolDone \in BOOLEAN

(* A step of the pool keeps the types; a status is never withdrawn, and a terminal
   one never changed; contexts stay cancelled. *)
StatusStep(jobs) ==
  /\ \A j \in Jobs : status[j] # "none" => status'[j] # "none"
  /\ \A j \in jobs : status[j] \in Terminal => status'[j] = status[j]
  /\ ctxDone \subseteq ctxDone'

LEMMA PoolSteps ==
  ASSUME JobTypes, Next \/ UNCHANGED jobVars
  PROVE  JobTypes' /\ StatusStep(Jobs)
<1> USE DEF JobTypes, StatusStep, poolVars
<1>1. ASSUME NEW j \in Jobs, NEW s \in {"active", "cancelled"} \cup Terminal, SetUnlessTerminal(j, s)
      PROVE  /\ status' \in [Jobs -> {"none", "active", "downloading"} \cup Waiting \cup Terminal]
             /\ \A i \in Jobs : status[i] # "none" => status'[i] # "none"
             /\ \A i \in Jobs : status[i] \in Terminal => status'[i] = status[i]
  BY <1>1 DEF SetUnlessTerminal, Terminal
<1>2. CASE Take
  <2>1. Tail(queue) \in Seq(Jobs) /\ Head(queue) \in Jobs
    BY <1>2, HeadTailProperties DEF Take
  <2> QED
    BY <1>2, <2>1 DEF Take
<1>3. CASE Start
  BY <1>3 DEF Start
<1>4. ASSUME NEW j \in Jobs, Work(j) \/ MarkCancelled(j) PROVE JobTypes' /\ StatusStep(Jobs)
  BY <1>1, <1>4 DEF Work, MarkCancelled, Terminal
<1>5. ASSUME NEW j \in Jobs, Return(j) PROVE JobTypes' /\ StatusStep(Jobs)
  BY <1>5 DEF Return
<1>6. CASE Stop \/ Drop
  BY <1>6 DEF Stop, Drop
<1>7. ASSUME NEW j \in Jobs, NEW s \in Waiting, Create(j, s) PROVE JobTypes' /\ StatusStep(Jobs)
  BY <1>7 DEF Create, Waiting, Terminal
<1>8. ASSUME NEW j \in Jobs, Put(j) PROVE JobTypes' /\ StatusStep(Jobs)
  BY <1>8, AppendProperties DEF Put
<1>9. ASSUME NEW j \in Jobs, Cancel(j) \/ Forget(j) PROVE JobTypes' /\ StatusStep(Jobs)
  BY <1>9 DEF Cancel, Forget
<1>10. ASSUME NEW j \in Jobs, Withdraw(j) PROVE JobTypes' /\ StatusStep(Jobs)
  <2>1. queue' \in Seq(Jobs)
    <3>1. ASSUME NEW k \in DOMAIN queue PROVE RemoveAt(queue, k) \in Seq(Jobs)
      BY LenProperties, RemoveAtProperties
    <3> QED
      BY <1>10, <3>1 DEF Withdraw
  <2> QED
    BY <1>10, <2>1 DEF Withdraw
<1>11. CASE UNCHANGED jobVars
  BY <1>11 DEF jobVars
<1> QED
  BY <1>2, <1>3, <1>4, <1>5, <1>6, <1>7, <1>8, <1>9, <1>10, <1>11 DEF Next, PoolStep

--------------------------------------------------------------------------------
(* The goroutines of a batch begin together, once all its records are set; the
   positions they count stay within the playlist. *)
At(b, states) == watch[b] \in states

AtChild(b) == At(b, {"cancelling", "withdrawing", "marking", "counting"})

Started(b) ==
  /\ watch[b] = "none" => admitter[b] = [at |-> "none", next |-> 1] /\ round[b] = FreshRound
  /\ watch[b] # "none" => status[b] # "none" /\ \A k \in Kids(b) : status[k] # "none"

Ranges(b) ==
  /\ admitter[b].at \in {"waiting", "admitted"} => admitter[b].next <= Total(b)
  /\ AtChild(b) => round[b].kid <= Total(b)
  /\ At(b, {"reporting", "sleeping", "draining", "returned"}) => round[b].kid = Total(b) + 1
  /\ round[b].finished < round[b].kid

RequestJobs == \A c \in Clients : req[c].op # "none" => req[c].job \in Jobs

TypeInv ==
  /\ TypeOK
  /\ \A b \in Batches : Started(b) /\ Ranges(b)
  /\ RequestJobs

(* The child that the watching, or the admitting, goroutine is about. *)
LEMMA CurrentKid ==
  ASSUME TypeInv, NEW b \in Batches
  PROVE  /\ AtChild(b) \/ round[b].kid <= Total(b) =>
              round[b].kid \in 1 .. Total(b) /\ Kid(b) \in Kids(b) /\ Kid(b) \in Jobs \ Batches
         /\ admitter[b].at \in {"waiting", "admitted"} =>
              admitter[b].next \in 1 .. Total(b) /\ NextChild(b) \in Kids(b) /\ NextChild(b) \in Jobs \ Batches
<1>1. round[b].kid \in 1 .. Total(b) + 1 /\ admitter[b].next \in 1 .. Total(b) + 1
  BY DEF TypeInv, TypeOK
<1>2. Total(b) \in Nat /\ Ranges(b)
  BY KidFacts DEF TypeInv
<1> QED
  BY <1>1, <1>2, KidFacts DEF Ranges, Kid, NextChild

(* Seen from the records, a step of this module is a step of the pool, but for the
   two that write a status of their own and the removal by a request.  Only singles
   are put in the queue by requests, and only children by a batch. *)
JobStep ==
  \/ UNCHANGED jobVars
  \/ PoolStep \/ Drop \/ Stop
  \/ \E j \in Jobs : (\E s \in Waiting : Create(j, s)) \/ Cancel(j) \/ Withdraw(j) \/ MarkCancelled(j)
  \/ \E j \in Singles : Put(j) \/ Forget(j)
  \/ \E b \in Batches : AdmitChild(b) \/ MarkQueued(b) \/ Report(b)
  \/ \E c \in Clients : EndDelete(c)

LEMMA EachJobStep ==
  ASSUME TypeInv, [BatchNext]_vars
  PROVE  JobStep
<1> USE DEF JobStep
<1>1. CASE Pooling \/ StopPool
  BY <1>1 DEF Pooling, StopPool
<1>2. CASE Admitting
  <2>1. \A b \in Batches : b \in Jobs /\ \A i \in 1 .. Total(b) : Children[b][i] \in Jobs
    BY KidFacts
  <2>2. CASE SetChild
    BY <2>1, <2>2 DEF SetChild, Waiting
  <2>3. CASE SetParent
    BY <2>1, <2>3 DEF SetParent, Waiting
  <2>4. CASE PutSingle \/ RollbackSingle
    BY <2>4 DEF PutSingle, RollbackSingle
  <2> QED
    BY <1>2, <2>2, <2>3, <2>4 DEF Admitting
<1>3. ASSUME NEW j \in Jobs, SetSingle(j) PROVE JobStep
  BY <1>3 DEF SetSingle, Waiting
<1>4. ASSUME NEW b \in Batches, BeginBatch(b) \/ AdmitterStep(b) PROVE JobStep
  BY <1>4 DEF BeginBatch, AdmitterStep, StopAdmission
<1>5. ASSUME NEW b \in Batches, WatchStep(b) PROVE JobStep
  <2>1. CASE CancelChild(b) \/ WithdrawChild(b) \/ MarkChild(b)
    <3>1. Kid(b) \in Jobs
      BY <2>1, CurrentKid DEF CancelChild, WithdrawChild, MarkChild, Go, AtChild, At
    <3> QED
      BY <2>1, <3>1 DEF CancelChild, WithdrawChild, MarkChild
  <2>2. CASE ReadContext(b) \/ LookAtChild(b) \/ CountChild(b) \/ EndRound(b) \/ NextRound(b) \/ ReturnBatch(b)
    BY <2>2 DEF ReadContext, LookAtChild, CountChild, EndRound, NextRound, ReturnBatch
  <2> QED
    BY <1>5, <2>1, <2>2 DEF WatchStep
<1>6. ASSUME NEW c \in Clients, RequestStep(c) PROVE JobStep
  <2>1. CASE CancelRecord(c) \/ WithdrawRecord(c) \/ EndCancel(c)
    <3>1. req[c].job \in Jobs
      BY <2>1 DEF CancelRecord, WithdrawRecord, EndCancel, Advance, Done, TypeInv, RequestJobs
    <3> QED
      BY <2>1, <3>1 DEF CancelRecord, WithdrawRecord, EndCancel
  <2>2. CASE RefuseDelete(c)
    BY <2>2 DEF RefuseDelete
  <2> QED
    BY <1>6, <2>1, <2>2 DEF RequestStep
<1>7. ASSUME NEW c \in Clients, NEW op, NEW j, Begin(c, op, j) PROVE JobStep
  BY <1>7 DEF Begin
<1>8. CASE BeginClose \/ CloseStep
  <2>1. CASE CloseBatch
    <3>1. PICK b \in toCancel : ctxDone' = IF b \in stored THEN ctxDone \cup {b} ELSE ctxDone
      BY <2>1 DEF CloseBatch
    <3>2. b \in Jobs
      BY <3>1, KidFacts DEF TypeInv, TypeOK
    <3>3. UNCHANGED <<status, stored, poolVars>>
      BY <2>1 DEF CloseBatch
    <3>4. Cancel(b) \/ UNCHANGED jobVars
      BY <3>1, <3>3 DEF Cancel, jobVars
    <3> QED
      BY <3>2, <3>4
  <2>2. CASE BeginClose \/ WaitBatches \/ EndClose
    BY <2>2 DEF BeginClose, WaitBatches, EndClose
  <2> QED
    BY <1>8, <2>1, <2>2 DEF CloseStep
<1>9. CASE UNCHANGED vars
  BY <1>9 DEF vars
<1> QED
  BY <1>1, <1>2, <1>3, <1>4, <1>5, <1>6, <1>7, <1>8, <1>9 DEF BatchNext

LEMMA StatusSteps ==
  ASSUME TypeInv, [BatchNext]_vars
  PROVE  JobTypes' /\ StatusStep(Jobs \ Batches)
<1>1. JobTypes
  BY DEF TypeInv, TypeOK, JobTypes
<1>2. CASE Next \/ UNCHANGED jobVars
  BY <1>1, <1>2, PoolSteps DEF StatusStep
<1>6. ASSUME NEW b \in Batches, AdmitChild(b) PROVE Next
  BY <1>6, CurrentKid DEF AdmitChild, Next
<1>7. ASSUME NEW j \in Singles, Put(j) \/ Forget(j) PROVE Next
  BY <1>7 DEF Next, Singles
<1>8. ASSUME NEW j \in Jobs,
             (\E s \in Waiting : Create(j, s)) \/ Cancel(j) \/ Withdraw(j) \/ MarkCancelled(j)
      PROVE  Next
  BY <1>8 DEF Next
<1>9. CASE PoolStep \/ Drop \/ Stop
  BY <1>2, <1>9 DEF Next
<1>3. ASSUME NEW b \in Batches, MarkQueued(b) PROVE JobTypes' /\ StatusStep(Jobs \ Batches)
  <2>1. NextChild(b) \in Jobs
    BY <1>3, CurrentKid DEF MarkQueued
  <2> QED
    BY <1>1, <1>3, <2>1 DEF MarkQueued, JobTypes, StatusStep, Waiting, Terminal, poolVars
<1>4. ASSUME NEW b \in Batches, Report(b) PROVE JobTypes' /\ StatusStep(Jobs \ Batches)
  <2>1. Verdict(b) \in {"downloading"} \cup Terminal
    BY DEF Verdict, Terminal
  <2> QED
    BY <1>1, <1>4, <2>1, KidFacts DEF Report, JobTypes, StatusStep, Terminal, poolVars
<1>5. ASSUME NEW c \in Clients, EndDelete(c) PROVE JobTypes' /\ StatusStep(Jobs \ Batches)
  BY <1>1, <1>5 DEF EndDelete, JobTypes, StatusStep, poolVars
<1> QED
  BY <1>2, <1>3, <1>4, <1>5, <1>6, <1>7, <1>8, <1>9, EachJobStep DEF JobStep

--------------------------------------------------------------------------------
(* What each step of runBatch does to the batch's own state, and to no other's. *)
Rounds(b) ==
  [cancelled: BOOLEAN, kid: 1 .. Total(b) + 1, finished: 0 .. Total(b), failed: BOOLEAN]

OthersStay(b) ==
  /\ watch' \in [Batches -> WatchStates]
  /\ DOMAIN round' = Batches
  /\ \A d \in Batches \ {b} : watch'[d] = watch[d] /\ round'[d] = round[d]
  /\ UNCHANGED <<working, admitter, req, closing, toCancel>>

LEMMA Moved ==
  ASSUME TypeOK, NEW b \in Batches, NEW from, NEW to \in WatchStates, Go(b, from, to)
  PROVE  /\ watch' \in [Batches -> WatchStates] /\ watch[b] = from /\ watch'[b] = to
         /\ \A d \in Batches \ {b} : watch'[d] = watch[d]
BY DEF Go, TypeOK

LEMMA Tallied ==
  ASSUME TypeInv, NEW b \in Batches, round[b].kid <= Total(b), NEW missing \in BOOLEAN, NEW s,
         Tally(b, missing, s)
  PROVE  /\ DOMAIN round' = Batches /\ round'[b] \in Rounds(b)
         /\ \A d \in Batches \ {b} : round'[d] = round[d]
         /\ round'[b].cancelled = round[b].cancelled
         /\ round'[b].kid = round[b].kid + 1
         /\ round'[b].finished = IF missing \/ s \in Terminal THEN round[b].finished + 1 ELSE round[b].finished
         /\ round'[b].failed <=> round[b].failed \/ (~missing /\ s = "failed")
<1>1. DOMAIN round = Batches /\ round[b] \in Rounds(b)
  BY DEF TypeInv, TypeOK, Rounds
<1>2. Total(b) \in Nat /\ round[b].finished < round[b].kid
  BY KidFacts DEF TypeInv, Ranges
<1>3. round[b].kid + 1 \in 1 .. Total(b) + 1 /\ round[b].finished + 1 \in 0 .. Total(b)
  BY <1>1, <1>2 DEF Rounds
<1> DEFINE more == IF missing \/ s \in Terminal THEN round[b].finished + 1 ELSE round[b].finished
           bad == round[b].failed \/ (~missing /\ s = "failed")
<1>4. /\ DOMAIN round' = Batches
      /\ \A d \in Batches \ {b} : round'[d] = round[d]
      /\ round'[b] = [cancelled |-> round[b].cancelled, kid |-> round[b].kid + 1,
                      finished |-> IF missing \/ s \in Terminal THEN round[b].finished + 1 ELSE round[b].finished,
                      failed |-> round[b].failed \/ (~missing /\ s = "failed")]
  BY <1>1 DEF Tally, Rounds
<1>5. more \in 0 .. Total(b) /\ bad \in BOOLEAN /\ round[b].cancelled \in BOOLEAN
  BY <1>1, <1>3 DEF Rounds
<1>6. round'[b] = [cancelled |-> round[b].cancelled, kid |-> round[b].kid + 1, finished |-> more, failed |-> bad]
  BY <1>4
<1> HIDE DEF more, bad
<1>7. round'[b] \in Rounds(b)
  BY <1>3, <1>5, <1>6 DEF Rounds
<1>8. /\ round'[b].cancelled = round[b].cancelled /\ round'[b].kid = round[b].kid + 1
      /\ round'[b].finished = more /\ round'[b].failed = bad
  BY <1>6
<1> QED
  BY <1>4, <1>7, <1>8 DEF more, bad

(* The states of runBatch, and what its round holds then. *)
WatchMove(b) ==
  \/ /\ watch[b] = "reading" /\ watch'[b] = "looking"
     /\ round'[b] = [FreshRound EXCEPT !.cancelled = b \in ctxDone]
  \/ /\ watch[b] = "looking" /\ watch'[b] = "looking" /\ round[b].kid <= Total(b)
     /\ Kid(b) \notin stored /\ Tally(b, TRUE, "none")
  \/ /\ watch[b] = "looking" /\ round[b].kid <= Total(b)
     /\ watch'[b] = IF round[b].cancelled THEN "cancelling" ELSE "counting"
     /\ round'[b] = round[b]
  \/ /\ watch[b] = "cancelling" /\ watch'[b] = "withdrawing" /\ round'[b] = round[b]
  \/ /\ watch[b] = "withdrawing" /\ watch'[b] = "marking" /\ round'[b] = round[b]
     /\ Withdraw(Kid(b))
  \/ /\ watch[b] = "marking" /\ watch'[b] = "counting" /\ round'[b] = round[b]
     /\ MarkCancelled(Kid(b))
  \/ /\ watch[b] = "counting" /\ watch'[b] = "looking" /\ Tally(b, FALSE, status[Kid(b)])
  \/ /\ watch[b] = "looking" /\ watch'[b] = "reporting" /\ round'[b] = round[b]
     /\ round[b].kid = Total(b) + 1
  \/ /\ watch[b] = "reporting" /\ round'[b] = round[b]
     /\ watch'[b] = IF Over(b) THEN "draining" ELSE "sleeping"
     /\ status' = [status EXCEPT ![b] = Verdict(b)]
  \/ /\ watch[b] = "sleeping" /\ watch'[b] = "reading" /\ round'[b] = round[b]
  \/ /\ watch[b] = "draining" /\ watch'[b] = "returned" /\ round'[b] = round[b]
     /\ admitter[b].at = "done"

LEMMA WatchSteps ==
  ASSUME TypeInv, NEW b \in Batches, WatchStep(b)
  PROVE  WatchMove(b) /\ OthersStay(b) /\ round'[b] \in Rounds(b)
<1> USE DEF WatchMove, OthersStay, WatchStates
<1>0. /\ TypeOK /\ DOMAIN round = Batches /\ round[b] \in Rounds(b)
      /\ AtChild(b) => round[b].kid <= Total(b)
  BY DEF TypeInv, TypeOK, Rounds, Ranges
<1>1. CASE ReadContext(b)
  <2>1. Total(b) \in Nat
    BY KidFacts
  <2>2. /\ DOMAIN round' = Batches /\ round'[b] = [FreshRound EXCEPT !.cancelled = b \in ctxDone]
        /\ \A d \in Batches \ {b} : round'[d] = round[d]
    BY <1>0, <1>1 DEF ReadContext
  <2>3. round'[b] \in Rounds(b)
    <3>1. round'[b] = [cancelled |-> b \in ctxDone, kid |-> 1, finished |-> 0, failed |-> FALSE]
      BY <2>2 DEF FreshRound
    <3>2. 1 \in 1 .. Total(b) + 1 /\ 0 \in 0 .. Total(b) /\ (b \in ctxDone) \in BOOLEAN
      BY <2>1
    <3> QED
      BY <3>1, <3>2 DEF Rounds
  <2> QED
    BY <1>0, <1>1, <2>2, <2>3, Moved DEF ReadContext
<1>2. CASE LookAtChild(b)
  <2>1. CASE Kid(b) \notin stored /\ Go(b, "looking", "looking") /\ Tally(b, TRUE, "none")
    <3>1. /\ watch[b] = "looking" /\ watch'[b] = "looking" /\ watch' \in [Batches -> WatchStates]
          /\ \A d \in Batches \ {b} : watch'[d] = watch[d]
      BY <1>0, <2>1, Moved
    <3>2. round[b].kid <= Total(b)
      BY <1>2 DEF LookAtChild
    <3>3. /\ DOMAIN round' = Batches /\ round'[b] \in Rounds(b)
          /\ \A d \in Batches \ {b} : round'[d] = round[d]
      BY <2>1, <3>2, Tallied
    <3> QED
      BY <1>2, <2>1, <3>1, <3>2, <3>3 DEF LookAtChild
  <2>2. CASE Go(b, "looking", IF round[b].cancelled THEN "cancelling" ELSE "counting") /\ UNCHANGED round
    BY <1>0, <1>2, <2>2, Moved DEF LookAtChild
  <2> QED
    BY <1>2, <2>1, <2>2 DEF LookAtChild
<1>3. CASE CountChild(b)
  <2>1. watch[b] = "counting" /\ watch'[b] = "looking" /\ watch' \in [Batches -> WatchStates]
        /\ \A d \in Batches \ {b} : watch'[d] = watch[d]
    BY <1>0, <1>3, Moved DEF CountChild
  <2>2. Tally(b, FALSE, status[Kid(b)]) /\ round[b].kid <= Total(b)
    BY <1>0, <1>3, <2>1 DEF CountChild, AtChild, At
  <2>3. /\ DOMAIN round' = Batches /\ round'[b] \in Rounds(b)
        /\ \A d \in Batches \ {b} : round'[d] = round[d]
    BY <2>2, Tallied
  <2> QED
    BY <1>3, <2>1, <2>2, <2>3 DEF CountChild
<1>4. CASE CancelChild(b)
  BY <1>0, <1>4, Moved DEF CancelChild
<1>5. CASE WithdrawChild(b)
  BY <1>0, <1>5, Moved DEF WithdrawChild
<1>6. CASE MarkChild(b)
  BY <1>0, <1>6, Moved DEF MarkChild
<1>7. CASE EndRound(b)
  BY <1>0, <1>7, Moved DEF EndRound
<1>8. CASE Report(b)
  BY <1>0, <1>8, Moved DEF Report
<1>9. CASE NextRound(b)
  BY <1>0, <1>9, Moved DEF NextRound
<1>10. CASE ReturnBatch(b)
  BY <1>0, <1>10, Moved DEF ReturnBatch
<1> QED
  BY <1>1, <1>2, <1>3, <1>4, <1>5, <1>6, <1>7, <1>8, <1>9, <1>10 DEF WatchStep

Admitters(b) == [at: {"none", "waiting", "admitted", "done"}, next: 1 .. Total(b) + 1]

AdmitterMove(b) ==
  /\ DOMAIN admitter' = Batches
  /\ \A d \in Batches \ {b} : admitter'[d] = admitter[d]
  /\ \/ admitter[b].at = "waiting" /\ admitter'[b] = [at |-> "admitted", next |-> admitter[b].next]
     \/ /\ admitter[b].at = "admitted"
        /\ admitter'[b] = [at |-> IF admitter[b].next = Total(b) THEN "done" ELSE "waiting",
                           next |-> admitter[b].next + 1]
     \/ admitter[b].at = "waiting" /\ admitter'[b] = [at |-> "done", next |-> admitter[b].next]
  /\ UNCHANGED <<working, watch, round, req, closing, toCancel>>

LEMMA AdmitterSteps ==
  ASSUME TypeInv, NEW b \in Batches, AdmitterStep(b)
  PROVE  AdmitterMove(b) /\ admitter'[b] \in Admitters(b)
<1>1. DOMAIN admitter = Batches /\ admitter[b] \in Admitters(b)
  BY DEF TypeInv, TypeOK, Admitters
<1>2. ASSUME admitter[b].at = "admitted" PROVE admitter[b].next + 1 \in 1 .. Total(b) + 1
  BY <1>2, CurrentKid, KidFacts
<1>3. CASE AdmitChild(b)
  BY <1>1, <1>3 DEF AdmitChild, AdmitterMove, Admitters
<1>4. CASE MarkQueued(b)
  <2>1. /\ admitter[b].at = "admitted" /\ DOMAIN admitter' = Batches
        /\ \A d \in Batches \ {b} : admitter'[d] = admitter[d]
        /\ admitter'[b] = [at |-> IF admitter[b].next = Total(b) THEN "done" ELSE "waiting",
                           next |-> admitter[b].next + 1]
    BY <1>1, <1>4 DEF MarkQueued
  <2>2. admitter'[b] \in Admitters(b)
    BY <1>2, <2>1 DEF Admitters
  <2> QED
    BY <1>4, <2>1, <2>2 DEF MarkQueued, AdmitterMove
<1>5. CASE StopAdmission(b)
  BY <1>1, <1>5 DEF StopAdmission, AdmitterMove, Admitters
<1> QED
  BY <1>3, <1>4, <1>5 DEF AdmitterStep

(* SetParent starts both goroutines of a batch. *)
LEMMA ParentSet ==
  ASSUME TypeInv, SetParent
  PROVE  /\ working \in Batches /\ watch[working] = "none" /\ watch'[working] = "reading"
         /\ admitter[working] = [at |-> "none", next |-> 1]
         /\ admitter'[working] = [at |-> "waiting", next |-> 1]
         /\ round[working] = FreshRound
         /\ DOMAIN admitter' = Batches /\ watch' \in [Batches -> WatchStates]
         /\ \A d \in Batches \ {working} : watch'[d] = watch[d] /\ admitter'[d] = admitter[d]
         /\ UNCHANGED <<round, req, closing, toCancel>> /\ working' = NoJob
         /\ status[working] = "none" /\ status'[working] # "none"
         /\ \A k \in Kids(working) : status[k] # "none"
<1>1. /\ working \in Batches /\ status[working] = "none" /\ status'[working] = "queued"
      /\ \A k \in Kids(working) : status[k] # "none"
  BY KidFacts DEF SetParent, Create, TypeInv, TypeOK
<1>2. Started(working) /\ watch[working] = "none"
  BY <1>1 DEF TypeInv, Started
<1>3. DOMAIN admitter = Batches /\ watch \in [Batches -> WatchStates]
  BY DEF TypeInv, TypeOK
<1>4. admitter[working] = [at |-> "none", next |-> 1] /\ round[working] = FreshRound
  BY <1>2 DEF Started
<1> QED
  BY <1>1, <1>2, <1>3, <1>4 DEF SetParent, WatchStates

(* The other steps leave the goroutines of batches alone. *)
LEMMA OtherMoves ==
  ASSUME TypeInv, [BatchNext]_vars
  PROVE  \/ \E b \in Batches : WatchStep(b) \/ AdmitterStep(b)
         \/ SetParent
         \/ UNCHANGED <<admitter, watch, round>>
<1>1. CASE Pooling \/ StopPool \/ UNCHANGED vars
  BY <1>1 DEF Pooling, StopPool, vars, batchVars
<1>2. CASE PutSingle \/ RollbackSingle \/ SetChild
  BY <1>2 DEF PutSingle, RollbackSingle, SetChild, batchVars
<1>3. ASSUME NEW j, SetSingle(j) \/ BeginBatch(j) PROVE UNCHANGED <<admitter, watch, round>>
  BY <1>3 DEF SetSingle, BeginBatch
<1>4. ASSUME NEW c \in Clients, RequestStep(c) PROVE UNCHANGED <<admitter, watch, round>>
  BY <1>4 DEF RequestStep, RefuseDelete, CancelRecord, WithdrawRecord, EndCancel, EndDelete
<1>5. ASSUME NEW c, NEW op, NEW j, Begin(c, op, j) PROVE UNCHANGED <<admitter, watch, round>>
  BY <1>5 DEF Begin
<1>6. CASE BeginClose \/ CloseStep
  BY <1>6 DEF BeginClose, CloseStep, CloseBatch, WaitBatches, EndClose
<1> QED
  BY <1>1, <1>2, <1>3, <1>4, <1>5, <1>6 DEF BatchNext, Admitting

(* Requests, the mutex of admission and App.Close. *)
OwnTypes ==
  /\ working \in Jobs \cup {NoJob}
  /\ req \in [Clients -> [op: {"none", "cancel", "delete"}, job: Jobs \cup {NoJob},
                          at: {"idle", "got", "cancelled", "withdrawn"}]]
  /\ closing \in {"open", "cancelling", "waiting", "closed"}
  /\ toCancel \subseteq Batches

LEMMA OwnSteps ==
  ASSUME TypeInv, [BatchNext]_vars
  PROVE  OwnTypes' /\ RequestJobs'
<1> USE DEF OwnTypes, RequestJobs
<1>0. OwnTypes /\ RequestJobs
  BY DEF TypeInv, TypeOK
<1>1. CASE UNCHANGED <<working, req, closing, toCancel>>
  BY <1>0, <1>1
<1>2. CASE Pooling \/ StopPool \/ UNCHANGED vars
  BY <1>1, <1>2 DEF Pooling, StopPool, vars, batchVars
<1>3. CASE Admitting
  BY <1>0, <1>3 DEF Admitting, PutSingle, RollbackSingle, SetChild, SetParent, batchVars
<1>4. ASSUME NEW j \in Jobs, SetSingle(j) PROVE OwnTypes' /\ RequestJobs'
  BY <1>0, <1>4 DEF SetSingle
<1>5. ASSUME NEW b \in Batches, BeginBatch(b) PROVE OwnTypes' /\ RequestJobs'
  BY <1>0, <1>5, KidFacts DEF BeginBatch
<1>6. ASSUME NEW b \in Batches, WatchStep(b) PROVE UNCHANGED <<working, req, closing, toCancel>>
  BY <1>6, WatchSteps DEF OthersStay
<1>7. ASSUME NEW b \in Batches, AdmitterStep(b) PROVE UNCHANGED <<working, req, closing, toCancel>>
  BY <1>7, AdmitterSteps DEF AdmitterMove
<1>8. ASSUME NEW c \in Clients, RequestStep(c) PROVE OwnTypes' /\ RequestJobs'
  <2>1. CASE CancelRecord(c) \/ WithdrawRecord(c)
    BY <1>0, <2>1 DEF CancelRecord, WithdrawRecord, Advance
  <2>2. CASE RefuseDelete(c) \/ EndCancel(c) \/ EndDelete(c)
    BY <1>0, <2>2 DEF RefuseDelete, EndCancel, EndDelete, Done, Idle
  <2> QED
    BY <1>8, <2>1, <2>2 DEF RequestStep
<1>9. ASSUME NEW c \in Clients, NEW op \in {"cancel", "delete"}, NEW j \in Jobs, Begin(c, op, j)
      PROVE  OwnTypes' /\ RequestJobs'
  BY <1>0, <1>9 DEF Begin
<1>10. CASE BeginClose \/ CloseStep
  BY <1>0, <1>10 DEF BeginClose, CloseStep, CloseBatch, WaitBatches, EndClose, ActiveBatches
<1> QED
  BY <1>1, <1>2, <1>3, <1>4, <1>5, <1>6, <1>7, <1>8, <1>9, <1>10 DEF BatchNext

(* The variables hold values of their types, and the goroutines of a batch count
   within its playlist. *)
LEMMA TypeInvStep ==
  ASSUME TypeInv, [BatchNext]_vars
  PROVE  TypeInv'
<1>1. JobTypes' /\ StatusStep(Jobs \ Batches) /\ OwnTypes' /\ RequestJobs'
  BY StatusSteps, OwnSteps
<1>2. \A b \in Batches : Started(b) /\ Ranges(b) /\ round[b] \in Rounds(b) /\ admitter[b] \in Admitters(b)
  BY DEF TypeInv, TypeOK, Rounds, Admitters
<1>3. watch \in [Batches -> WatchStates] /\ DOMAIN admitter = Batches /\ DOMAIN round = Batches
  BY DEF TypeInv, TypeOK
<1> DEFINE Good(d) ==
      /\ Started(d)' /\ Ranges(d)'
      /\ round'[d] \in Rounds(d) /\ admitter'[d] \in Admitters(d)
<1>4. SUFFICES /\ watch' \in [Batches -> WatchStates] /\ DOMAIN admitter' = Batches /\ DOMAIN round' = Batches
               /\ \A d \in Batches : Good(d)
  BY <1>1, <1>4 DEF TypeInv, TypeOK, JobTypes, OwnTypes, Rounds, Admitters
<1>5. ASSUME NEW d \in Batches, watch'[d] = watch[d], round'[d] = round[d], admitter'[d] = admitter[d]
      PROVE  Good(d)
  <2>2. Started(d)'
    BY <1>1, <1>2, <1>5, KidFacts DEF Started, StatusStep
  <2>3. Ranges(d)'
    BY <1>2, <1>5 DEF Ranges, AtChild, At
  <2> QED
    BY <1>2, <1>5, <2>2, <2>3
<1>6. CASE UNCHANGED <<admitter, watch, round>>
  BY <1>3, <1>5, <1>6
<1>7. ASSUME NEW b \in Batches, watch[b] # "none", watch'[b] # "none"
      PROVE  Started(b)'
  BY <1>1, <1>2, <1>7, KidFacts DEF Started, StatusStep
<1>8. ASSUME NEW b \in Batches, WatchStep(b)
      PROVE  /\ watch' \in [Batches -> WatchStates] /\ DOMAIN admitter' = Batches /\ DOMAIN round' = Batches
             /\ \A d \in Batches : Good(d)
  <2>1. WatchMove(b) /\ OthersStay(b) /\ round'[b] \in Rounds(b)
    BY <1>8, WatchSteps
  <2>2. watch[b] # "none" /\ watch'[b] # "none"
    BY <2>1 DEF WatchMove
  <2>3. Total(b) \in Nat \ {0} /\ round[b] \in Rounds(b) /\ Ranges(b)
    BY <1>2, KidFacts
  <2>4. Ranges(b)'
    <3>1. ASSUME NEW missing \in BOOLEAN, NEW s, Tally(b, missing, s), watch'[b] = "looking",
                 round[b].kid <= Total(b), admitter' = admitter
          PROVE  Ranges(b)'
      BY <2>3, <3>1, Tallied DEF Ranges, AtChild, At, Rounds
    <3>2. ASSUME round'[b] = [FreshRound EXCEPT !.cancelled = b \in ctxDone], watch'[b] = "looking",
                 admitter' = admitter
          PROVE  Ranges(b)'
      BY <2>3, <3>2 DEF Ranges, AtChild, At, FreshRound
    <3>3. watch[b] = "counting" => round[b].kid <= Total(b)
      BY <2>3 DEF Ranges, AtChild, At
    <3>4. admitter' = admitter
      BY <2>1 DEF OthersStay
    <3>5. ASSUME round'[b] = round[b], watch'[b] \in {"looking", "reading"} PROVE Ranges(b)'
      BY <2>3, <3>4, <3>5 DEF Ranges, AtChild, At
    <3>6. ASSUME round'[b] = round[b], watch'[b] \in {"cancelling", "withdrawing", "marking", "counting"},
                 round[b].kid <= Total(b)
          PROVE  Ranges(b)'
      BY <2>3, <3>4, <3>6 DEF Ranges, AtChild, At
    <3>7. ASSUME round'[b] = round[b], watch'[b] \in {"reporting", "sleeping", "draining", "returned"},
                 round[b].kid = Total(b) + 1
          PROVE  Ranges(b)'
      BY <2>3, <3>4, <3>7 DEF Ranges, AtChild, At
    <3> QED
      BY <2>1, <2>3, <3>1, <3>2, <3>3, <3>4, <3>5, <3>6, <3>7 DEF WatchMove, Ranges, AtChild, At
  <2> QED
    BY <1>2, <1>3, <1>5, <1>7, <2>1, <2>2, <2>4 DEF OthersStay
<1>9. ASSUME NEW b \in Batches, AdmitterStep(b)
      PROVE  /\ watch' \in [Batches -> WatchStates] /\ DOMAIN admitter' = Batches /\ DOMAIN round' = Batches
             /\ \A d \in Batches : Good(d)
  <2>1. AdmitterMove(b) /\ admitter'[b] \in Admitters(b)
    BY <1>9, AdmitterSteps
  <2>2. watch[b] # "none" /\ watch'[b] # "none"
    BY <1>2, <2>1 DEF AdmitterMove, Started
  <2>3. Ranges(b)'
    <3>1. admitter[b].next \in 1 .. Total(b) + 1 /\ Total(b) \in Nat
      BY <1>2, KidFacts DEF Admitters
    <3> QED
      BY <1>2, <2>1, <3>1 DEF AdmitterMove, Ranges, AtChild, At
  <2> QED
    BY <1>2, <1>3, <1>5, <1>7, <2>1, <2>2, <2>3 DEF AdmitterMove
<1>10. CASE SetParent
  <2>1. PICK b \in Batches : b = working
    BY <1>10, ParentSet
  <2>2. /\ admitter'[b] = [at |-> "waiting", next |-> 1] /\ round'[b] = FreshRound
        /\ watch'[b] = "reading" /\ status'[b] # "none" /\ \A k \in Kids(b) : status[k] # "none"
        /\ Total(b) \in Nat \ {0}
    BY <1>10, <2>1, ParentSet, KidFacts
  <2>3. Started(b)'
    BY <1>1, <2>2, KidFacts DEF Started, StatusStep
  <2>4. Ranges(b)' /\ admitter'[b] \in Admitters(b) /\ round'[b] \in Rounds(b)
    BY <2>2 DEF Ranges, AtChild, At, FreshRound, Admitters, Rounds
  <2>5. \A d \in Batches \ {b} : watch'[d] = watch[d] /\ round'[d] = round[d] /\ admitter'[d] = admitter[d]
    BY <1>10, <2>1, ParentSet
  <2>6. watch' \in [Batches -> WatchStates] /\ DOMAIN admitter' = Batches /\ DOMAIN round' = Batches
    BY <1>3, <1>10, ParentSet
  <2> QED
    BY <1>5, <2>3, <2>4, <2>5, <2>6
<1> QED
  BY <1>6, <1>8, <1>9, <1>10, OtherMoves

LEMMA TypeInvHolds == BatchSafeSpec => []TypeInv
<1>1. BatchInit => TypeInv
  <2> SUFFICES ASSUME BatchInit PROVE TypeInv
    OBVIOUS
  <2>1. \A b \in Batches : /\ Started(b) /\ Ranges(b) /\ FreshRound \in Rounds(b)
                           /\ [at |-> "none", next |-> 1] \in Admitters(b)
    <3> SUFFICES ASSUME NEW b \in Batches
                 PROVE  /\ Started(b) /\ Ranges(b) /\ FreshRound \in Rounds(b)
                        /\ [at |-> "none", next |-> 1] \in Admitters(b)
      OBVIOUS
    <3>1. Total(b) \in Nat /\ 1 \in 1 .. Total(b) + 1 /\ 0 \in 0 .. Total(b)
      BY KidFacts
    <3>2. FreshRound \in Rounds(b) /\ [at |-> "none", next |-> 1] \in Admitters(b)
      BY <3>1 DEF FreshRound, Rounds, Admitters
    <3>3. watch[b] = "none" /\ admitter[b] = [at |-> "none", next |-> 1] /\ round[b] = FreshRound
      BY DEF BatchInit
    <3>4. Started(b) /\ Ranges(b)
      BY <3>3 DEF Started, Ranges, AtChild, At, FreshRound
    <3> QED
      BY <3>2, <3>4
  <2>2. OwnTypes /\ RequestJobs
    BY DEF BatchInit, OwnTypes, RequestJobs, Idle
  <2>3. JobTypes
    <3>1. Init
      BY DEF BatchInit
    <3>2. [j \in Jobs |-> "none"] \in [Jobs -> {"none", "active", "downloading"} \cup Waiting \cup Terminal]
      OBVIOUS
    <3>3. queue \in Seq(Jobs)
      BY <3>1 DEF Init
    <3> QED
      BY <3>1, <3>2, <3>3 DEF Init, JobTypes
  <2>4. /\ watch \in [Batches -> WatchStates] /\ DOMAIN admitter = Batches /\ DOMAIN round = Batches
        /\ \A b \in Batches : admitter[b] \in Admitters(b) /\ round[b] \in Rounds(b)
    BY <2>1 DEF BatchInit, WatchStates
  <2>5. TypeOK
    BY <2>2, <2>3, <2>4 DEF TypeOK, OwnTypes, JobTypes, Rounds, Admitters
  <2> QED
    BY <2>1, <2>2, <2>5 DEF TypeInv
<1> QED
  BY <1>1, TypeInvStep, PTL DEF BatchSafeSpec

(* The variables hold values of their types in every reachable state. *)
THEOREM TypeCorrect == BatchSafeSpec => []TypeOK
<1>1. TypeInv => TypeOK
  BY DEF TypeInv
<1> QED
  BY <1>1, TypeInvHolds, PTL

--------------------------------------------------------------------------------
(* What a child's record and its place in the pool owe each other.  A child without
   a record has ended or was never set; only ended children are removed; whatever
   has a place in the pool has been set. *)
KidInv ==
  /\ \A b \in Batches : \A k \in Kids(b) \ stored : status[k] \in {"none"} \cup Terminal
  /\ \A c \in Clients : req[c].op = "delete" /\ req[c].job \notin Batches => status[req[c].job] \in Terminal
  /\ \A j \in Placed \ {NoJob} : status[j] # "none"

LEMMA PlacedStep ==
  ASSUME TypeInv, [BatchNext]_vars
  PROVE  \A j \in Placed' \ {NoJob} : j \in Placed \/ status[j] # "none"
<1> USE DEF Placed, Queued
<1>1. queue \in Seq(Jobs) /\ JobStep
  BY EachJobStep DEF TypeInv, TypeOK
<1>2. CASE UNCHANGED poolVars
  BY <1>2 DEF poolVars
<1>3. CASE Take
  BY <1>1, <1>3, TailRange DEF Take
<1>4. CASE Start \/ Drop \/ Stop
  BY <1>4 DEF Start, Drop, Stop
<1>5. ASSUME NEW j \in Jobs, Return(j) PROVE \A i \in Placed' \ {NoJob} : i \in Placed
  BY <1>5 DEF Return
<1>6. ASSUME NEW j \in Jobs, Put(j) PROVE \A i \in Placed' \ {NoJob} : i \in Placed \/ status[i] # "none"
  BY <1>1, <1>6, AppendRange DEF Put
<1>7. ASSUME NEW j, Withdraw(j) PROVE Placed' \subseteq Placed
  <2>1. ASSUME NEW k \in DOMAIN queue PROVE ToSet(RemoveAt(queue, k)) \subseteq ToSet(queue)
    BY <1>1, <2>1, RemoveAtRange, LenProperties
  <2> QED
    BY <1>7, <2>1 DEF Withdraw
<1>8. ASSUME NEW j, (\E s : Create(j, s)) \/ Work(j) \/ Cancel(j) \/ MarkCancelled(j) \/ Forget(j)
      PROVE  UNCHANGED poolVars
  BY <1>8 DEF Create, Work, Cancel, MarkCancelled, Forget
<1>9. ASSUME NEW b, MarkQueued(b) \/ Report(b) \/ EndDelete(b) PROVE UNCHANGED poolVars
  BY <1>9 DEF MarkQueued, Report, EndDelete
<1>10. ASSUME NEW b \in Batches, AdmitChild(b) PROVE Put(NextChild(b)) /\ NextChild(b) \in Jobs
  BY <1>10, CurrentKid DEF AdmitChild
<1> QED
  BY <1>1, <1>2, <1>3, <1>4, <1>5, <1>6, <1>7, <1>8, <1>9, <1>10 DEF JobStep, PoolStep, Singles, jobVars

(* A request to remove a record has found it ended. *)
LEMMA DeleteStep ==
  ASSUME TypeInv, [BatchNext]_vars, NEW c \in Clients, req'[c].op = "delete"
  PROVE  \/ req[c].op = "delete" /\ req'[c].job = req[c].job
         \/ status[req'[c].job] \in Terminal
<1> DEFINE Goal == \/ req[c].op = "delete" /\ req'[c].job = req[c].job
                   \/ status[req'[c].job] \in Terminal
<1>1. req \in [Clients -> [op: {"none", "cancel", "delete"}, job: Jobs \cup {NoJob},
                           at: {"idle", "got", "cancelled", "withdrawn"}]]
  BY DEF TypeInv, TypeOK
<1>2. CASE UNCHANGED req
  BY <1>2
<1>3. ASSUME NEW d \in Clients, RequestStep(d) PROVE Goal
  <2>1. CASE CancelRecord(d) \/ WithdrawRecord(d)
    BY <1>1, <2>1 DEF CancelRecord, WithdrawRecord, Advance
  <2>2. CASE RefuseDelete(d) \/ EndCancel(d) \/ EndDelete(d)
    BY <1>1, <2>2 DEF RefuseDelete, EndCancel, EndDelete, Done, Idle
  <2> QED
    BY <1>3, <2>1, <2>2 DEF RequestStep
<1>4. ASSUME NEW d \in Clients, NEW op \in {"cancel", "delete"}, NEW j \in Jobs, Begin(d, op, j) PROVE Goal
  BY <1>1, <1>4 DEF Begin
<1>5. CASE Pooling \/ StopPool \/ Admitting \/ UNCHANGED vars
  BY <1>2, <1>5 DEF Pooling, StopPool, vars, batchVars, Admitting, PutSingle, RollbackSingle, SetChild, SetParent
<1>6. ASSUME NEW j, SetSingle(j) \/ BeginBatch(j) PROVE UNCHANGED req
  BY <1>6 DEF SetSingle, BeginBatch
<1>7. ASSUME NEW b \in Batches, WatchStep(b) PROVE UNCHANGED req
  BY <1>7, WatchSteps DEF OthersStay
<1>8. ASSUME NEW b \in Batches, AdmitterStep(b) PROVE UNCHANGED req
  BY <1>8, AdmitterSteps DEF AdmitterMove
<1>9. CASE BeginClose \/ CloseStep
  BY <1>2, <1>9 DEF BeginClose, CloseStep, CloseBatch, WaitBatches, EndClose
<1> QED
  BY <1>2, <1>3, <1>4, <1>5, <1>6, <1>7, <1>8, <1>9 DEF BatchNext

(* A child's record appears when it is set and goes when it has ended. *)
LEMMA KidStep ==
  ASSUME TypeInv, KidInv, [BatchNext]_vars, NEW b \in Batches, NEW k \in Kids(b)
  PROVE  /\ k \in stored' => k \in stored \/ status[k] = "none"
         /\ k \in stored => k \in stored' \/ status[k] \in Terminal
         /\ status[k] = "none" => k \in stored' \/ status'[k] \in {"none"} \cup Terminal
<1>1. JobStep /\ k \in Jobs /\ k \notin Batches /\ k \notin Singles
  BY EachJobStep, KidFacts DEF Singles
<1>2. status \in [Jobs -> {"none", "active", "downloading"} \cup Waiting \cup Terminal]
  BY DEF TypeInv, TypeOK
<1>3. CASE UNCHANGED <<status, stored>>
  BY <1>3
<1>4. CASE Take \/ Start \/ Drop \/ Stop \/ \E j \in Jobs : Return(j) \/ Cancel(j) \/ Withdraw(j)
  BY <1>3, <1>4 DEF Take, Start, Drop, Stop, Return, Cancel, Withdraw
<1>5. ASSUME NEW j \in Jobs, Work(j)
      PROVE  UNCHANGED stored /\ (status[k] = "none" => status'[k] = "none")
  <2>1. j \in running /\ status[j] # "none"
    BY <1>5, BatchesAssumption DEF Work, KidInv, Placed, NoJob
  <2> QED
    BY <1>1, <1>2, <1>5, <2>1 DEF Work, SetUnlessTerminal
<1>6. ASSUME NEW j \in Jobs, MarkCancelled(j)
      PROVE  UNCHANGED stored /\ (status[k] = "none" => status'[k] \in {"none", "cancelled"})
  BY <1>1, <1>2, <1>6 DEF MarkCancelled, SetUnlessTerminal
<1>7. ASSUME NEW j \in Jobs, NEW s \in Waiting, Create(j, s)
      PROVE  /\ status[j] = "none" /\ stored' = stored \cup {j}
             /\ j # k => status'[k] = status[k]
  BY <1>1, <1>2, <1>7 DEF Create
<1>8. ASSUME NEW j \in Singles, Put(j) \/ Forget(j)
      PROVE  (k \in stored' <=> k \in stored) /\ UNCHANGED status
  BY <1>1, <1>8 DEF Put, Forget
<1>9. ASSUME NEW d \in Batches, AdmitChild(d) PROVE UNCHANGED <<status, stored>>
  BY <1>9 DEF AdmitChild, Put
<1>10. ASSUME NEW d \in Batches, MarkQueued(d)
       PROVE  UNCHANGED stored /\ (status[k] = "none" => status'[k] = "none")
  BY <1>1, <1>2, <1>10 DEF MarkQueued
<1>11. ASSUME NEW d \in Batches, Report(d) PROVE UNCHANGED stored /\ status'[k] = status[k]
  BY <1>1, <1>2, <1>11 DEF Report
<1>12. ASSUME NEW c \in Clients, EndDelete(c)
       PROVE  UNCHANGED status /\ stored' \subseteq stored /\ (k \in stored => k \in stored' \/ status[k] \in Terminal)
  BY <1>1, <1>12 DEF EndDelete, Done, KidInv
<1> QED
  BY <1>1, <1>3, <1>4, <1>5, <1>6, <1>7, <1>8, <1>9, <1>10, <1>11, <1>12 DEF JobStep, PoolStep, jobVars, Terminal

LEMMA KidInvStep ==
  ASSUME TypeInv, KidInv, [BatchNext]_vars
  PROVE  KidInv'
<1>1. StatusStep(Jobs \ Batches) /\ JobTypes' /\ TypeInv'
  BY StatusSteps, TypeInvStep
<1>2. ASSUME NEW b \in Batches, NEW k \in Kids(b), k \notin stored'
      PROVE  status'[k] \in {"none"} \cup Terminal
  <2>1. k \in Jobs \ Batches
    BY KidFacts
  <2> QED
    BY <1>1, <1>2, <2>1, KidStep DEF StatusStep, KidInv
<1>3. ASSUME NEW c \in Clients, req'[c].op = "delete", req'[c].job \notin Batches
      PROVE  status'[req'[c].job] \in Terminal
  <2>1. req'[c].job \in Jobs
    BY <1>1, <1>3 DEF TypeInv, RequestJobs
  <2>2. status[req'[c].job] \in Terminal
    BY <1>3, DeleteStep DEF KidInv
  <2> QED
    BY <1>1, <1>3, <2>1, <2>2 DEF StatusStep
<1>4. ASSUME NEW j \in Placed', j # NoJob PROVE status'[j] # "none"
  <2>1. j \in Jobs
    <3>1. Queued' \subseteq Jobs
      BY <1>1, RangeInSet DEF JobTypes, Queued
    <3> QED
      BY <1>1, <1>4, <3>1 DEF JobTypes, Placed
  <2>2. status[j] # "none"
    BY <1>4, PlacedStep DEF KidInv
  <2> QED
    BY <1>1, <2>1, <2>2 DEF StatusStep
<1> QED
  BY <1>2, <1>3, <1>4 DEF KidInv

LEMMA KidInvHolds == BatchSafeSpec => [](TypeInv /\ KidInv)
<1>1. BatchInit => KidInv
  <2>1. BatchInit => Placed = {NoJob}
    BY ShortRange DEF BatchInit, Init, Placed, Queued
  <2>2. BatchInit => \A b \in Batches : \A k \in Kids(b) : status[k] = "none"
    BY KidFacts DEF BatchInit, Init
  <2> QED
    BY <2>1, <2>2 DEF BatchInit, KidInv, Idle
<1>2. TypeInv /\ KidInv /\ [BatchNext]_vars => KidInv'
  BY KidInvStep
<1> QED
  BY <1>1, <1>2, TypeInvHolds, PTL DEF BatchSafeSpec

--------------------------------------------------------------------------------
(* What a round knows of the children it has read.  When it has counted them all as
   finished, or has cancelled each, all of them have ended and stay so; a failure
   it noted is still there, and one it did not note is not. *)
Seen(b) == {Children[b][i] : i \in 1 .. round[b].kid - 1}

AllSeenEnded(b) ==
  round[b].cancelled \/ round[b].finished = round[b].kid - 1 =>
    \A k \in Seen(b) : status[k] \in Terminal

MarkedEnded(b) == round[b].cancelled /\ At(b, {"counting"}) => status[Kid(b)] \in Terminal

FailuresNoted(b) ==
  /\ round[b].failed => \E k \in Kids(b) : status[k] = "failed"
  /\ ~round[b].failed /\ round[b].finished = round[b].kid - 1 =>
       \A k \in Seen(b) \cap stored : status[k] # "failed"

RoundInv(b) == AllSeenEnded(b) /\ MarkedEnded(b) /\ FailuresNoted(b)

LEMMA SeenFacts ==
  ASSUME TypeInv, NEW b \in Batches
  PROVE  /\ Seen(b) \subseteq Kids(b)
         /\ round[b].kid = Total(b) + 1 => Kids(b) \subseteq Seen(b)
         /\ round'[b].kid = round[b].kid => Seen(b)' = Seen(b)
         /\ round'[b].kid = round[b].kid + 1 => Seen(b)' = Seen(b) \cup {Kid(b)}
         /\ round'[b].kid = 1 => Seen(b)' = {}
<1>1. round[b].kid \in 1 .. Total(b) + 1 /\ Total(b) \in Nat
  BY KidFacts DEF TypeInv, TypeOK
<1>2. Seen(b) \subseteq Kids(b) /\ (round[b].kid = Total(b) + 1 => Kids(b) \subseteq Seen(b))
  BY <1>1, KidFacts DEF Seen
<1>3. ASSUME round'[b].kid = round[b].kid + 1 PROVE Seen(b)' = Seen(b) \cup {Kid(b)}
  <2>1. 1 .. round'[b].kid - 1 = 1 .. (round[b].kid - 1) \cup {round[b].kid}
    BY <1>1, <1>3
  <2> QED
    BY <2>1 DEF Seen, Kid
<1>4. ASSUME round'[b].kid = 1 PROVE Seen(b)' = {}
  BY <1>4 DEF Seen
<1>5. ASSUME round'[b].kid = round[b].kid PROVE Seen(b)' = Seen(b)
  BY <1>5 DEF Seen
<1> QED
  BY <1>2, <1>3, <1>4, <1>5

(* What any step leaves of the children of a batch that has begun. *)
KidsKept(b) ==
  \A k \in Kids(b) :
    /\ status[k] \in Terminal => status'[k] = status[k]
    /\ k \in stored' => k \in stored
    /\ k \notin stored => status[k] \in Terminal

LEMMA BegunKids ==
  ASSUME TypeInv, KidInv, [BatchNext]_vars, NEW b \in Batches, watch[b] # "none"
  PROVE  KidsKept(b)
<1>1. Started(b) /\ StatusStep(Jobs \ Batches)
  BY StatusSteps DEF TypeInv
<1> QED
  BY <1>1, KidFacts, KidStep DEF Started, StatusStep, KidsKept, KidInv

LEMMA RoundStays ==
  ASSUME TypeInv, KidInv, [BatchNext]_vars, NEW b \in Batches, RoundInv(b),
         watch'[b] = watch[b] \/ (watch[b] = "none" /\ watch'[b] = "reading"), round'[b] = round[b]
  PROVE  RoundInv(b)'
<1>1. CASE watch[b] = "none"
  <2>1. round[b] = FreshRound
    BY <1>1 DEF TypeInv, Started
  <2>2. Seen(b)' = {}
    BY <2>1, SeenFacts DEF FreshRound
  <2> QED
    BY <1>1, <2>1, <2>2 DEF RoundInv, AllSeenEnded, MarkedEnded, FailuresNoted, At, FreshRound
<1>2. CASE watch[b] # "none"
  <2>1. KidsKept(b) /\ Seen(b)' = Seen(b) /\ Seen(b) \subseteq Kids(b) /\ watch'[b] = watch[b]
    BY <1>2, BegunKids, SeenFacts
  <2>2. At(b, {"counting"}) => Kid(b) \in Kids(b) /\ Kid(b)' = Kid(b)
    BY CurrentKid DEF AtChild, At, Kid
  <2>3. AllSeenEnded(b)' /\ FailuresNoted(b)'
    <3>1. AllSeenEnded(b)'
      BY <2>1 DEF RoundInv, AllSeenEnded, KidsKept
    <3>2. round[b].failed => \E k \in Kids(b) : status'[k] = "failed"
      BY <2>1 DEF RoundInv, FailuresNoted, KidsKept, Terminal
    <3>3. ASSUME ~round[b].failed, round[b].finished = round[b].kid - 1, NEW k \in Seen(b), k \in stored'
          PROVE  status'[k] # "failed"
      BY <2>1, <3>3 DEF RoundInv, AllSeenEnded, FailuresNoted, KidsKept
    <3> QED
      BY <2>1, <3>1, <3>2, <3>3 DEF FailuresNoted
  <2>4. MarkedEnded(b)'
    BY <2>1, <2>2 DEF RoundInv, MarkedEnded, KidsKept, At
  <2> QED
    BY <2>3, <2>4 DEF RoundInv
<1> QED
  BY <1>1, <1>2

(* Reading one more child. *)
LEMMA RoundTally ==
  ASSUME TypeInv, KidInv, [BatchNext]_vars, NEW b \in Batches, RoundInv(b), KidsKept(b),
         round[b].kid <= Total(b), watch'[b] = "looking", NEW missing \in BOOLEAN, NEW s,
         Tally(b, missing, s),
         missing => Kid(b) \notin stored,
         ~missing => s = status[Kid(b)] /\ (round[b].cancelled => s \in Terminal)
  PROVE  RoundInv(b)'
<1>1. /\ round'[b].cancelled = round[b].cancelled
      /\ round'[b].kid = round[b].kid + 1
      /\ round'[b].finished = IF missing \/ s \in Terminal THEN round[b].finished + 1 ELSE round[b].finished
      /\ round'[b].failed <=> round[b].failed \/ (~missing /\ s = "failed")
  BY Tallied
<1>2. /\ Seen(b)' = Seen(b) \cup {Kid(b)} /\ Seen(b) \subseteq Kids(b)
      /\ Kid(b) \in Kids(b)
  BY <1>1, SeenFacts, CurrentKid
<1>3. round[b].finished \in Nat /\ round[b].kid \in Nat /\ round[b].finished < round[b].kid
  BY KidFacts DEF TypeInv, TypeOK, Ranges
<1>4. missing \/ s \in Terminal => status[Kid(b)] \in Terminal /\ status'[Kid(b)] = status[Kid(b)]
  BY <1>2 DEF KidsKept
<1>5. ASSUME round'[b].finished = round'[b].kid - 1
      PROVE  round[b].finished = round[b].kid - 1 /\ (missing \/ s \in Terminal)
  BY <1>1, <1>3, <1>5
<1>6. AllSeenEnded(b)'
  <2>1. ASSUME round'[b].cancelled \/ round'[b].finished = round'[b].kid - 1
        PROVE  /\ missing \/ s \in Terminal
               /\ \A k \in Seen(b) : status[k] \in Terminal
    BY <1>1, <1>5, <2>1 DEF RoundInv, AllSeenEnded
  <2> QED
    BY <1>2, <1>4, <2>1 DEF AllSeenEnded, KidsKept
<1>7. FailuresNoted(b)'
  <2>1. ASSUME round'[b].failed PROVE \E k \in Kids(b) : status'[k] = "failed"
    <3>1. PICK k \in Kids(b) : status[k] = "failed"
      BY <1>1, <1>2, <2>1 DEF RoundInv, FailuresNoted
    <3> QED
      BY <3>1 DEF KidsKept, Terminal
  <2>2. ASSUME ~round'[b].failed, round'[b].finished = round'[b].kid - 1, NEW k \in Seen(b)', k \in stored'
        PROVE  status'[k] # "failed"
    <3>1. ~round[b].failed /\ round[b].finished = round[b].kid - 1 /\ k \in stored
      BY <1>1, <1>2, <1>5, <2>2 DEF KidsKept
    <3>2. CASE k \in Seen(b)
      BY <1>2, <3>1, <3>2 DEF RoundInv, AllSeenEnded, FailuresNoted, KidsKept
    <3>3. CASE k = Kid(b)
      BY <1>1, <1>4, <1>5, <2>2, <3>1, <3>3
    <3> QED
      BY <1>2, <2>2, <3>2, <3>3
  <2> QED
    BY <2>1, <2>2 DEF FailuresNoted
<1>8. MarkedEnded(b)'
  BY DEF MarkedEnded, At
<1> QED
  BY <1>6, <1>7, <1>8 DEF RoundInv

(* Moving on with the same round. *)
LEMMA RoundMoves ==
  ASSUME TypeInv, KidInv, [BatchNext]_vars, NEW b \in Batches, RoundInv(b), watch[b] # "none",
         round'[b] = round[b], watch'[b] # "counting" \/ ~round[b].cancelled
  PROVE  RoundInv(b)'
<1>1. KidsKept(b) /\ Seen(b)' = Seen(b) /\ Seen(b) \subseteq Kids(b)
  BY BegunKids, SeenFacts
<1>2. MarkedEnded(b)'
  BY DEF MarkedEnded, At
<1>3. AllSeenEnded(b)'
  BY <1>1 DEF RoundInv, AllSeenEnded, KidsKept
<1>4. round[b].failed => \E k \in Kids(b) : status'[k] = "failed"
  BY <1>1 DEF RoundInv, FailuresNoted, KidsKept, Terminal
<1>5. ASSUME ~round[b].failed, round[b].finished = round[b].kid - 1, NEW k \in Seen(b), k \in stored'
      PROVE  status'[k] # "failed"
  BY <1>1, <1>5 DEF RoundInv, AllSeenEnded, FailuresNoted, KidsKept
<1> QED
  BY <1>1, <1>2, <1>3, <1>4, <1>5 DEF RoundInv, FailuresNoted

LEMMA RoundInvStep ==
  ASSUME TypeInv, KidInv, \A b \in Batches : RoundInv(b), [BatchNext]_vars
  PROVE  \A b \in Batches : RoundInv(b)'
<1> TAKE b \in Batches
<1>1. CASE WatchStep(b)
  <2>1. WatchMove(b) /\ Ranges(b) /\ watch[b] # "none"
    BY <1>1, WatchSteps DEF TypeInv, WatchMove
  <2>2. KidsKept(b)
    BY <2>1, BegunKids
  <2>3. CASE watch[b] = "reading" /\ watch'[b] = "looking" /\ round'[b] = [FreshRound EXCEPT !.cancelled = b \in ctxDone]
    <3>1. Seen(b)' = {} /\ ~round'[b].failed
      BY <2>3, SeenFacts DEF FreshRound
    <3> QED
      BY <2>3, <3>1 DEF RoundInv, AllSeenEnded, MarkedEnded, FailuresNoted, At
  <2>4. CASE watch'[b] = "looking" /\ round[b].kid <= Total(b) /\ Kid(b) \notin stored /\ Tally(b, TRUE, "none")
    BY <2>2, <2>4, RoundTally
  <2>5. CASE watch[b] = "counting" /\ watch'[b] = "looking" /\ Tally(b, FALSE, status[Kid(b)])
    <3>1. round[b].kid <= Total(b)
      BY <2>1, <2>5 DEF Ranges, AtChild, At
    <3>2. round[b].cancelled => status[Kid(b)] \in Terminal
      BY <2>5 DEF RoundInv, MarkedEnded, At
    <3> QED
      BY <2>2, <2>5, <3>1, <3>2, RoundTally
  <2>6. CASE watch[b] = "marking" /\ watch'[b] = "counting" /\ round'[b] = round[b] /\ MarkCancelled(Kid(b))
    <3>1. Kid(b) \in Kids(b) /\ Kid(b) \in Jobs /\ Kid(b)' = Kid(b)
      BY <2>6, CurrentKid DEF AtChild, At, Kid
    <3>2. status'[Kid(b)] \in Terminal
      BY <2>6, <3>1 DEF MarkCancelled, SetUnlessTerminal, Terminal, TypeInv, TypeOK
    <3>3. MarkedEnded(b)'
      BY <3>1, <3>2 DEF MarkedEnded
    <3>4. AllSeenEnded(b)' /\ FailuresNoted(b)'
      <4>1. Seen(b)' = Seen(b) /\ Seen(b) \subseteq Kids(b)
        BY <2>6, SeenFacts
      <4>2. AllSeenEnded(b)'
        BY <2>2, <2>6, <4>1 DEF RoundInv, AllSeenEnded, KidsKept
      <4>3. round[b].failed => \E k \in Kids(b) : status'[k] = "failed"
        BY <2>2 DEF RoundInv, FailuresNoted, KidsKept, Terminal
      <4>4. ASSUME ~round[b].failed, round[b].finished = round[b].kid - 1, NEW k \in Seen(b), k \in stored'
            PROVE  status'[k] # "failed"
        BY <2>2, <4>1, <4>4 DEF RoundInv, AllSeenEnded, FailuresNoted, KidsKept
      <4> QED
        BY <2>6, <4>1, <4>2, <4>3, <4>4 DEF FailuresNoted
    <3> QED
      BY <3>3, <3>4 DEF RoundInv
  <2>7. CASE round'[b] = round[b] /\ (watch'[b] # "counting" \/ ~round[b].cancelled)
    BY <2>1, <2>7, RoundMoves
  <2> QED
    BY <2>1, <2>3, <2>4, <2>5, <2>6, <2>7 DEF WatchMove
<1>2. CASE ~WatchStep(b)
  <2>1. ASSUME NEW d \in Batches, WatchStep(d), d # b PROVE watch'[b] = watch[b] /\ round'[b] = round[b]
    BY <2>1, WatchSteps DEF OthersStay
  <2>2. ASSUME NEW d \in Batches, AdmitterStep(d) PROVE watch'[b] = watch[b] /\ round'[b] = round[b]
    BY <2>2, AdmitterSteps DEF AdmitterMove
  <2>3. CASE SetParent
    <3>1. /\ watch'[b] = watch[b] \/ (watch[b] = "none" /\ watch'[b] = "reading")
          /\ round'[b] = round[b]
      BY <2>3, ParentSet
    <3> QED
      BY <3>1, RoundStays
  <2> QED
    BY <1>2, <2>1, <2>2, <2>3, RoundStays, OtherMoves
<1> QED
  BY <1>1, <1>2

LEMMA RoundInvHolds == BatchSafeSpec => [](TypeInv /\ KidInv /\ \A b \in Batches : RoundInv(b))
<1>1. BatchInit => \A b \in Batches : RoundInv(b)
  <2> SUFFICES ASSUME BatchInit, NEW b \in Batches PROVE RoundInv(b)
    OBVIOUS
  <2>1. round[b] = FreshRound /\ watch[b] = "none"
    BY DEF BatchInit
  <2>2. Seen(b) = {} /\ ~round[b].failed
    BY <2>1 DEF Seen, FreshRound
  <2> QED
    BY <2>1, <2>2 DEF RoundInv, AllSeenEnded, MarkedEnded, FailuresNoted, At
<1>2. (TypeInv /\ KidInv) /\ (\A b \in Batches : RoundInv(b)) /\ [BatchNext]_vars
        => (\A b \in Batches : RoundInv(b))'
  BY RoundInvStep
<1> QED
  BY <1>1, <1>2, KidInvHolds, PTL DEF BatchSafeSpec

--------------------------------------------------------------------------------
(* The end of a batch.  The round of the last report is the one that is kept, and the
   status it gave the parent is final: a terminal status of a batch is overwritten by
   its own report only. *)
LEMMA EndedParentStep ==
  ASSUME TypeInv, [BatchNext]_vars, NEW b \in Batches, status[b] \in Terminal
  PROVE  status'[b] = status[b] \/ Report(b)
<1>1. JobStep /\ JobTypes /\ b \in Jobs
  BY EachJobStep, KidFacts DEF TypeInv, TypeOK, JobTypes
<1>2. CASE Next \/ UNCHANGED jobVars
  BY <1>1, <1>2, PoolSteps DEF StatusStep
<1>3. ASSUME NEW d \in Batches, MarkQueued(d) PROVE status'[b] = status[b]
  BY <1>1, <1>3, CurrentKid DEF MarkQueued, JobTypes
<1>4. ASSUME NEW d \in Batches, Report(d) PROVE status'[b] = status[b] \/ Report(b)
  BY <1>1, <1>4 DEF Report, Go, JobTypes
<1>5. ASSUME NEW c \in Clients, EndDelete(c) PROVE status'[b] = status[b]
  BY <1>5 DEF EndDelete
<1>6. ASSUME NEW d \in Batches, AdmitChild(d) PROVE Next
  BY <1>6, CurrentKid DEF AdmitChild, Next
<1>7. ASSUME NEW j \in Singles, Put(j) \/ Forget(j) PROVE Next
  BY <1>7 DEF Next, Singles
<1>8. ASSUME NEW j \in Jobs,
             (\E s \in Waiting : Create(j, s)) \/ Cancel(j) \/ Withdraw(j) \/ MarkCancelled(j)
      PROVE  Next
  BY <1>8 DEF Next
<1>9. CASE PoolStep \/ Drop \/ Stop
  BY <1>2, <1>9 DEF Next
<1> QED
  BY <1>1, <1>2, <1>3, <1>4, <1>5, <1>6, <1>7, <1>8, <1>9 DEF JobStep

LEMMA ParentStep ==
  ASSUME TypeInv, [BatchNext]_vars, NEW b \in Batches, status[b] \in Terminal, watch[b] # "reporting"
  PROVE  status'[b] = status[b]
BY EndedParentStep DEF Report, Go

VerdictInv(b) == At(b, {"draining", "returned"}) => Over(b) /\ status[b] = Verdict(b)

LEMMA VerdictInvStep ==
  ASSUME TypeInv, [BatchNext]_vars, NEW b \in Batches, VerdictInv(b)
  PROVE  VerdictInv(b)'
<1>0. status \in [Jobs -> {"none", "active", "downloading"} \cup Waiting \cup Terminal] /\ b \in Jobs
  BY KidFacts DEF TypeInv, TypeOK
<1>1. ASSUME At(b, {"draining", "returned"}), round'[b] = round[b] PROVE VerdictInv(b)'
  <2>1. status[b] \in Terminal
    BY <1>1 DEF VerdictInv, Verdict, Terminal
  <2>2. status'[b] = status[b]
    BY <1>1, <2>1, ParentStep DEF At
  <2> QED
    BY <1>1, <2>2 DEF VerdictInv, Over, Verdict
<1>2. CASE watch'[b] = watch[b] /\ round'[b] = round[b]
  BY <1>1, <1>2 DEF VerdictInv, At
<1>3. CASE WatchStep(b)
  <2>1. WatchMove(b)
    BY <1>3, WatchSteps
  <2>2. ASSUME watch'[b] \notin {"draining", "returned"} PROVE VerdictInv(b)'
    BY <2>2 DEF VerdictInv, At
  <2>3. CASE /\ watch[b] = "reporting" /\ round'[b] = round[b]
             /\ watch'[b] = IF Over(b) THEN "draining" ELSE "sleeping"
             /\ status' = [status EXCEPT ![b] = Verdict(b)]
    <3>1. status'[b] = Verdict(b) /\ Verdict(b)' = Verdict(b) /\ (Over(b)' <=> Over(b))
      BY <1>0, <2>3 DEF Verdict, Over
    <3> QED
      BY <2>2, <2>3, <3>1 DEF VerdictInv
  <2>4. CASE watch[b] = "draining" /\ watch'[b] = "returned" /\ round'[b] = round[b]
    BY <1>1, <2>4 DEF At
  <2> QED
    BY <2>1, <2>2, <2>3, <2>4 DEF WatchMove
<1>4. ASSUME NEW d \in Batches, WatchStep(d), d # b PROVE watch'[b] = watch[b] /\ round'[b] = round[b]
  BY <1>4, WatchSteps DEF OthersStay
<1>5. ASSUME NEW d \in Batches, AdmitterStep(d) PROVE watch'[b] = watch[b] /\ round'[b] = round[b]
  BY <1>5, AdmitterSteps DEF AdmitterMove
<1>6. CASE SetParent
  <2>1. \/ watch'[b] = watch[b] /\ round'[b] = round[b]
        \/ watch'[b] = "reading"
    BY <1>6, ParentSet
  <2> QED
    BY <1>2, <2>1 DEF VerdictInv, At
<1> QED
  BY <1>2, <1>3, <1>4, <1>5, <1>6, OtherMoves

LEMMA EndInvHolds ==
  BatchSafeSpec => [](TypeInv /\ \A b \in Batches : RoundInv(b) /\ VerdictInv(b))
<1>1. BatchInit => \A b \in Batches : VerdictInv(b)
  BY DEF BatchInit, VerdictInv, At
<1>2. TypeInv /\ (\A b \in Batches : VerdictInv(b)) /\ [BatchNext]_vars => (\A b \in Batches : VerdictInv(b))'
  BY VerdictInvStep
<1>3. BatchSafeSpec => []\A b \in Batches : VerdictInv(b)
  BY <1>1, <1>2, TypeInvHolds, PTL DEF BatchSafeSpec
<1>4. TypeInv /\ KidInv /\ (\A b \in Batches : RoundInv(b)) /\ (\A b \in Batches : VerdictInv(b))
        => TypeInv /\ \A b \in Batches : RoundInv(b) /\ VerdictInv(b)
  OBVIOUS
<1> QED
  BY <1>3, <1>4, RoundInvHolds, PTL

(* Once the last report is made, every child has been seen. *)
LEMMA AllSeen ==
  ASSUME TypeInv, NEW b \in Batches, VerdictInv(b), watch[b] \in {"draining", "returned"}
  PROVE  /\ Kids(b) \subseteq Seen(b)
         /\ status[b] = Verdict(b)
         /\ round[b].cancelled \/ round[b].finished = round[b].kid - 1
<1>1. round[b].kid = Total(b) + 1 /\ Total(b) \in Nat
  BY KidFacts DEF TypeInv, Ranges, At
<1> QED
  BY <1>1, SeenFacts DEF VerdictInv, At, Over

(* A cancellation of a batch is overwritten by nothing but the report of a round that had
   read the context before it was cancelled (handler_batch.go:144, 166-185): what a
   later round, a child, a request or the pool does leaves it. *)
THEOREM OnlyEarlierRoundsOverwrite ==
  BatchSafeSpec =>
    [][\A b \in Batches : status[b] = "cancelled" =>
         status'[b] = "cancelled" \/ (Report(b) /\ ~round[b].cancelled)]_vars
<1> DEFINE Kept == \A b \in Batches : status[b] = "cancelled" =>
                     status'[b] = "cancelled" \/ (Report(b) /\ ~round[b].cancelled)
<1>1. ASSUME TypeInv, [BatchNext]_vars, NEW b \in Batches, status[b] = "cancelled"
      PROVE  status'[b] = "cancelled" \/ (Report(b) /\ ~round[b].cancelled)
  <2>1. status'[b] = status[b] \/ Report(b)
    BY <1>1, EndedParentStep DEF Terminal
  <2>2. b \in Jobs /\ status \in [Jobs -> {"none", "active", "downloading"} \cup Waiting \cup Terminal]
    BY <1>1, KidFacts DEF TypeInv, TypeOK
  <2>3. Report(b) /\ round[b].cancelled => status'[b] = "cancelled"
    BY <2>2 DEF Report, Verdict, Over
  <2> QED
    BY <1>1, <2>1, <2>3
<1>2. TypeInv /\ [BatchNext]_vars => [Kept]_vars
  BY <1>1
<1> QED
  BY <1>2, TypeInvHolds, PTL DEF BatchSafeSpec

(* A batch ends only when all its children have. *)
THEOREM ReturnedMeansEndedCorrect == BatchSafeSpec => []ReturnedMeansEnded
<1>1. TypeInv /\ (\A b \in Batches : RoundInv(b) /\ VerdictInv(b)) => ReturnedMeansEnded
  BY AllSeen DEF ReturnedMeansEnded, RoundInv, AllSeenEnded
<1> QED
  BY <1>1, EndInvHolds, PTL

(* The status a batch ends with agrees with what its children show. *)
THEOREM VerdictIsFairCorrect == BatchSafeSpec => []VerdictIsFair
<1>1. ASSUME TypeInv, NEW b \in Batches, RoundInv(b), VerdictInv(b), watch[b] \in {"draining", "returned"}
      PROVE  /\ status[b] = "completed" => \A k \in Kids(b) \cap stored : status[k] # "failed"
             /\ status[b] = "failed" => \E k \in Kids(b) : status[k] = "failed"
  <2>1. /\ Kids(b) \subseteq Seen(b) /\ status[b] = Verdict(b)
        /\ round[b].cancelled \/ round[b].finished = round[b].kid - 1
    BY <1>1, AllSeen
  <2>2. /\ Verdict(b) = "completed" => ~round[b].cancelled /\ ~round[b].failed
        /\ Verdict(b) = "failed" => round[b].failed
    BY DEF Verdict
  <2> QED
    BY <1>1, <2>1, <2>2 DEF RoundInv, FailuresNoted
<1>2. TypeInv /\ (\A b \in Batches : RoundInv(b) /\ VerdictInv(b)) => VerdictIsFair
  BY <1>1 DEF VerdictIsFair
<1> QED
  BY <1>2, EndInvHolds, PTL

--------------------------------------------------------------------------------
(* The queue.  No job waits in it twice, so taking one out leaves none; a batch whose
   context is done admits no more, and a round that saw that has taken each child it
   has passed out of the queue. *)
QueueInv(b) ==
  round[b].cancelled =>
    /\ b \in ctxDone
    /\ Seen(b) \cap stored \cap Queued = {}
    /\ At(b, {"marking", "counting"}) => Kid(b) \notin Queued

LEMMA DistinctStep ==
  ASSUME TypeInv, Distinct(queue), [BatchNext]_vars
  PROVE  Distinct(queue)'
<1>1. queue \in Seq(Jobs) /\ JobStep
  BY EachJobStep DEF TypeInv, TypeOK
<1>2. CASE UNCHANGED queue
  BY <1>2 DEF Distinct
<1>3. CASE Take
  BY <1>1, <1>3, TailDistinct DEF Take, Distinct
<1>4. ASSUME NEW j \in Jobs, Put(j) PROVE Distinct(queue)'
  <2>1. j \notin ToSet(queue) /\ queue' = Append(queue, j)
    BY <1>4 DEF Put, Placed, Queued
  <2>2. Distinct(Append(queue, j))
    BY <1>1, <2>1, AppendDistinct
  <2> QED
    BY <2>1, <2>2 DEF Distinct
<1>5. ASSUME NEW j, Withdraw(j) PROVE Distinct(queue)'
  <2>1. ASSUME NEW k \in DOMAIN queue PROVE Distinct(RemoveAt(queue, k))
    BY <1>1, <2>1, RemoveAtDistinct, LenProperties
  <2>2. UNCHANGED queue \/ \E k \in DOMAIN queue : queue' = RemoveAt(queue, k)
    BY <1>5 DEF Withdraw
  <2>3. Distinct(queue')
    BY <2>1, <2>2
  <2> QED
    BY <2>3 DEF Distinct
<1>6. CASE Start \/ Drop \/ Stop \/ \E j \in Jobs : Work(j) \/ Return(j) \/ Cancel(j) \/ MarkCancelled(j) \/ Forget(j)
  BY <1>2, <1>6 DEF Start, Drop, Stop, Work, Return, Cancel, MarkCancelled, Forget, poolVars
<1>7. ASSUME NEW j \in Jobs, NEW s, Create(j, s) PROVE UNCHANGED queue
  BY <1>7 DEF Create, poolVars
<1>8. ASSUME NEW b, MarkQueued(b) \/ Report(b) \/ EndDelete(b) PROVE UNCHANGED queue
  BY <1>8 DEF MarkQueued, Report, EndDelete, poolVars
<1>9. ASSUME NEW b \in Batches, AdmitChild(b) PROVE Put(NextChild(b)) /\ NextChild(b) \in Jobs
  BY <1>9, CurrentKid DEF AdmitChild
<1> QED
  BY <1>1, <1>2, <1>3, <1>4, <1>5, <1>6, <1>7, <1>8, <1>9 DEF JobStep, PoolStep, Singles, jobVars, poolVars

LEMMA QueueGrows ==
  ASSUME TypeInv, [BatchNext]_vars, NEW k \in Queued' \ Queued
  PROVE  k \in Singles \/ \E d \in Batches : AdmitChild(d) /\ k = NextChild(d)
<1> USE DEF Queued
<1>1. queue \in Seq(Jobs) /\ JobStep
  BY EachJobStep DEF TypeInv, TypeOK
<1>2. CASE UNCHANGED queue
  BY <1>2
<1>3. CASE Take
  BY <1>1, <1>3, TailRange DEF Take
<1>4. ASSUME NEW j \in Jobs, Put(j) PROVE k = j
  BY <1>1, <1>4, AppendRange DEF Put
<1>5. ASSUME NEW j, Withdraw(j) PROVE FALSE
  <2>1. ASSUME NEW i \in DOMAIN queue PROVE ToSet(RemoveAt(queue, i)) \subseteq ToSet(queue)
    BY <1>1, <2>1, RemoveAtRange, LenProperties
  <2> QED
    BY <1>5, <2>1 DEF Withdraw
<1>6. CASE Start \/ Drop \/ Stop \/ \E j \in Jobs : Work(j) \/ Return(j) \/ Cancel(j) \/ MarkCancelled(j) \/ Forget(j)
  BY <1>2, <1>6 DEF Start, Drop, Stop, Work, Return, Cancel, MarkCancelled, Forget, poolVars
<1>7. ASSUME NEW j \in Jobs, NEW s, Create(j, s) PROVE UNCHANGED queue
  BY <1>7 DEF Create, poolVars
<1>8. ASSUME NEW b, MarkQueued(b) \/ Report(b) \/ EndDelete(b) PROVE UNCHANGED queue
  BY <1>8 DEF MarkQueued, Report, EndDelete, poolVars
<1>9. ASSUME NEW b \in Batches, AdmitChild(b) PROVE Put(NextChild(b)) /\ NextChild(b) \in Jobs
  BY <1>9, CurrentKid DEF AdmitChild
<1> QED
  BY <1>1, <1>2, <1>3, <1>4, <1>5, <1>6, <1>7, <1>8, <1>9 DEF JobStep, PoolStep, Singles, jobVars, poolVars

(* A batch whose context is done puts no child in the queue. *)
LEMMA NoneAdmitted ==
  ASSUME TypeInv, [BatchNext]_vars, NEW b \in Batches, b \in ctxDone, NEW k \in Kids(b), k \in Queued'
  PROVE  k \in Queued
<1> SUFFICES ASSUME k \notin Queued PROVE FALSE
  OBVIOUS
<1>1. k \notin Singles
  BY DEF Singles
<1>2. PICK d \in Batches : AdmitChild(d) /\ k = NextChild(d)
  BY <1>1, QueueGrows
<1>3. d \notin ctxDone /\ k \in Kids(d)
  BY <1>2, CurrentKid DEF AdmitChild
<1> QED
  BY <1>3, BatchesAssumption

LEMMA WithdrawnIsOut ==
  ASSUME queue \in Seq(Jobs), Distinct(queue), NEW j, Withdraw(j)
  PROVE  j \notin Queued'
<1>1. CASE j \notin Queued /\ UNCHANGED queue
  BY <1>1 DEF Queued
<1>2. ASSUME NEW k \in DOMAIN queue, queue[k] = j, queue' = RemoveAt(queue, k) PROVE j \notin Queued'
  <2>1. k \in 1 .. Len(queue)
    BY LenProperties
  <2>2. j \notin ToSet(RemoveAt(queue, k))
    BY <1>2, <2>1, RemovedIsGone
  <2> QED
    BY <1>2, <2>2 DEF Queued
<1> QED
  BY <1>1, <1>2 DEF Withdraw

LEMMA QueueInvStep ==
  ASSUME TypeInv, KidInv, Distinct(queue), [BatchNext]_vars, NEW b \in Batches, QueueInv(b)
  PROVE  QueueInv(b)'
<1>0. /\ ctxDone \subseteq ctxDone'
      /\ \A k \in Kids(b) : b \in ctxDone /\ k \in Queued' => k \in Queued
  BY StatusSteps, NoneAdmitted DEF StatusStep
<1>1. ASSUME watch[b] # "none", round'[b] = round[b],
             round[b].cancelled /\ At(b, {"marking", "counting"})' =>
               Kid(b) \notin Queued' \/ At(b, {"marking", "counting"})
      PROVE  QueueInv(b)'
  <2>1. KidsKept(b) /\ Seen(b)' = Seen(b) /\ Seen(b) \subseteq Kids(b) /\ Kid(b)' = Kid(b)
    BY <1>1, BegunKids, SeenFacts DEF Kid
  <2>2. At(b, {"marking", "counting"}) => Kid(b) \in Kids(b)
    BY CurrentKid DEF AtChild, At
  <2> QED
    BY <1>0, <1>1, <2>1, <2>2 DEF QueueInv, KidsKept
<1>2. CASE watch'[b] = watch[b] /\ round'[b] = round[b]
  <2>1. CASE watch[b] = "none"
    BY <1>2, <2>1 DEF TypeInv, Started, FreshRound, QueueInv
  <2> QED
    BY <1>1, <1>2, <2>1 DEF At
<1>3. CASE WatchStep(b)
  <2>1. WatchMove(b) /\ watch[b] # "none" /\ Ranges(b)
    BY <1>3, WatchSteps DEF WatchMove, TypeInv
  <2>2. KidsKept(b)
    BY <2>1, BegunKids
  <2>3. CASE watch'[b] = "looking" /\ round'[b] = [FreshRound EXCEPT !.cancelled = b \in ctxDone]
    <3>1. Seen(b)' = {} /\ round'[b].cancelled = (b \in ctxDone)
      BY <2>3, SeenFacts DEF FreshRound
    <3> QED
      BY <1>0, <2>3, <3>1 DEF QueueInv, At
  <2>4. ASSUME watch'[b] = "looking", round[b].kid <= Total(b), NEW missing \in BOOLEAN, NEW s,
               Tally(b, missing, s),
               round[b].cancelled => Kid(b) \notin stored \/ Kid(b) \notin Queued
        PROVE  QueueInv(b)'
    <3>1. /\ round'[b].cancelled = round[b].cancelled
          /\ Seen(b)' = Seen(b) \cup {Kid(b)} /\ Seen(b) \subseteq Kids(b) /\ Kid(b) \in Kids(b)
      BY <2>4, Tallied, SeenFacts, CurrentKid
    <3> QED
      BY <1>0, <2>2, <2>4, <3>1 DEF QueueInv, KidsKept, At
  <2>5. CASE watch[b] = "counting" /\ watch'[b] = "looking" /\ Tally(b, FALSE, status[Kid(b)])
    <3>1. round[b].kid <= Total(b)
      BY <2>1, <2>5 DEF Ranges, AtChild, At
    <3>2. round[b].cancelled => Kid(b) \notin Queued
      BY <2>5 DEF QueueInv, At
    <3> QED
      BY <2>4, <2>5, <3>1, <3>2
  <2>6. CASE watch[b] = "withdrawing" /\ round'[b] = round[b] /\ Withdraw(Kid(b))
    <3>1. Kid(b) \notin Queued'
      BY <2>6, WithdrawnIsOut DEF TypeInv, TypeOK
    <3> QED
      BY <1>1, <2>1, <2>6, <3>1
  <2>7. CASE round'[b] = round[b] /\ (At(b, {"marking"}) \/ ~At(b, {"marking", "counting"})' \/ ~round[b].cancelled)
    BY <1>1, <2>1, <2>7 DEF At
  <2>8. CASE watch'[b] = "looking" /\ round[b].kid <= Total(b) /\ Kid(b) \notin stored /\ Tally(b, TRUE, "none")
    BY <2>4, <2>8
  <2> QED
    BY <2>1, <2>3, <2>5, <2>6, <2>7, <2>8 DEF WatchMove, At
<1>4. ASSUME NEW d \in Batches, WatchStep(d), d # b PROVE watch'[b] = watch[b] /\ round'[b] = round[b]
  BY <1>4, WatchSteps DEF OthersStay
<1>5. ASSUME NEW d \in Batches, AdmitterStep(d) PROVE watch'[b] = watch[b] /\ round'[b] = round[b]
  BY <1>5, AdmitterSteps DEF AdmitterMove
<1>6. CASE SetParent
  <2>1. \/ watch'[b] = watch[b] /\ round'[b] = round[b]
        \/ round'[b] = FreshRound
    BY <1>6, ParentSet
  <2> QED
    BY <1>2, <2>1 DEF QueueInv, FreshRound
<1> QED
  BY <1>2, <1>3, <1>4, <1>5, <1>6, OtherMoves

LEMMA QueueInvHolds == BatchSafeSpec => [](Distinct(queue) /\ \A b \in Batches : QueueInv(b))
<1>1. BatchInit => Distinct(queue) /\ \A b \in Batches : QueueInv(b)
  BY EmptyDistinct DEF BatchInit, Init, QueueInv, FreshRound
<1>2. (TypeInv /\ KidInv) /\ (Distinct(queue) /\ \A b \in Batches : QueueInv(b)) /\ [BatchNext]_vars
        => (Distinct(queue) /\ \A b \in Batches : QueueInv(b))'
  BY DistinctStep, QueueInvStep
<1> QED
  BY <1>1, <1>2, KidInvHolds, PTL DEF BatchSafeSpec

(* A cancelled batch that has returned leaves no child in the queue. *)
THEOREM CancelledBatchLeavesQueueCorrect == BatchSafeSpec => []CancelledBatchLeavesQueue
<1>1. /\ TypeInv /\ \A b \in Batches : RoundInv(b) /\ VerdictInv(b)
      /\ Distinct(queue) /\ \A b \in Batches : QueueInv(b)
      => CancelledBatchLeavesQueue
  BY AllSeen DEF CancelledBatchLeavesQueue, QueueInv
<1> QED
  BY <1>1, EndInvHolds, QueueInvHolds, PTL

--------------------------------------------------------------------------------
(* Shutdown.  The goroutine that watches a batch outlives the one that admits its
   children; App.Close begins when nothing is being admitted, so it waits for every
   batch there will ever be. *)
LifeInv(b) ==
  /\ watch[b] = "none" <=> admitter[b].at = "none"
  /\ watch[b] = "returned" => admitter[b].at = "done"

CloseInv ==
  /\ closing # "open" => working = NoJob
  /\ closing = "closed" => Running = {}

LEMMA LifeInvStep ==
  ASSUME TypeInv, [BatchNext]_vars, NEW b \in Batches, LifeInv(b)
  PROVE  LifeInv(b)'
<1>1. CASE watch'[b] = watch[b] /\ admitter'[b] = admitter[b]
  BY <1>1 DEF LifeInv
<1>2. ASSUME NEW d \in Batches, WatchStep(d) PROVE LifeInv(b)'
  <2>1. WatchMove(d) /\ OthersStay(d)
    BY <1>2, WatchSteps
  <2> QED
    BY <1>1, <2>1 DEF WatchMove, OthersStay, LifeInv
<1>3. ASSUME NEW d \in Batches, AdmitterStep(d) PROVE LifeInv(b)'
  <2>1. AdmitterMove(d)
    BY <1>3, AdmitterSteps
  <2> QED
    BY <1>1, <2>1 DEF AdmitterMove, LifeInv
<1>4. CASE SetParent
  <2>1. \/ watch'[b] = watch[b] /\ admitter'[b] = admitter[b]
        \/ watch'[b] = "reading" /\ admitter'[b] = [at |-> "waiting", next |-> 1]
    BY <1>4, ParentSet
  <2> QED
    BY <1>1, <2>1 DEF LifeInv
<1> QED
  BY <1>1, <1>2, <1>3, <1>4, OtherMoves

LEMMA CloseInvStep ==
  ASSUME TypeInv, CloseInv, [BatchNext]_vars
  PROVE  CloseInv'
<1>0. NoJob \notin Batches
  BY KidFacts
<1>1. CASE UNCHANGED <<working, closing, watch>>
  BY <1>1 DEF CloseInv, Running
<1>2. ASSUME UNCHANGED <<working, closing>>,
             \A b \in Batches : watch[b] \in {"none", "returned"} => watch'[b] = watch[b]
      PROVE  CloseInv'
  BY <1>2 DEF CloseInv, Running
<1>3. CASE Pooling \/ StopPool \/ UNCHANGED vars
  BY <1>1, <1>3 DEF Pooling, StopPool, vars, batchVars
<1>4. CASE Admitting
  <2>1. CASE PutSingle \/ RollbackSingle
    BY <2>1 DEF PutSingle, RollbackSingle, CloseInv, Running
  <2>2. CASE SetChild
    BY <1>1, <2>2 DEF SetChild, batchVars
  <2>3. CASE SetParent
    <3>1. working \in Batches /\ working' = NoJob /\ UNCHANGED closing
      BY <2>3, ParentSet
    <3> QED
      BY <1>0, <3>1 DEF CloseInv
  <2> QED
    BY <1>4, <2>1, <2>2, <2>3 DEF Admitting
<1>5. ASSUME NEW j, SetSingle(j) \/ BeginBatch(j) PROVE CloseInv'
  BY <1>5 DEF SetSingle, BeginBatch, CloseInv
<1>6. ASSUME NEW b \in Batches, WatchStep(b) PROVE CloseInv'
  <2>1. WatchMove(b) /\ OthersStay(b)
    BY <1>6, WatchSteps
  <2> QED
    BY <1>2, <2>1 DEF WatchMove, OthersStay
<1>7. ASSUME NEW b \in Batches, AdmitterStep(b) PROVE CloseInv'
  BY <1>1, <1>7, AdmitterSteps DEF AdmitterMove
<1>8. ASSUME NEW c \in Clients, RequestStep(c) PROVE CloseInv'
  BY <1>1, <1>8 DEF RequestStep, RefuseDelete, CancelRecord, WithdrawRecord, EndCancel, EndDelete
<1>9. ASSUME NEW c, NEW op, NEW j, Begin(c, op, j) PROVE CloseInv'
  BY <1>1, <1>9 DEF Begin
<1>10. CASE BeginClose \/ CloseStep
  BY <1>10 DEF BeginClose, CloseStep, CloseBatch, WaitBatches, EndClose, CloseInv, Running
<1> QED
  BY <1>3, <1>4, <1>5, <1>6, <1>7, <1>8, <1>9, <1>10 DEF BatchNext

(* The pool is stopped only when no admission waits for it. *)
THEOREM ClosedMeansQuietCorrect == BatchSafeSpec => []ClosedMeansQuiet
<1>1. BatchInit => CloseInv /\ \A b \in Batches : LifeInv(b)
  BY DEF BatchInit, CloseInv, LifeInv
<1>2. TypeInv /\ CloseInv /\ (\A b \in Batches : LifeInv(b)) /\ [BatchNext]_vars
        => (CloseInv /\ \A b \in Batches : LifeInv(b))'
  BY CloseInvStep, LifeInvStep
<1>3. CloseInv /\ (\A b \in Batches : LifeInv(b)) => ClosedMeansQuiet
  BY DEF CloseInv, LifeInv, Running, ClosedMeansQuiet
<1> QED
  BY <1>1, <1>2, <1>3, TypeInvHolds, PTL DEF BatchSafeSpec

================================================================================
