---------------------------- MODULE JobQueue_proofs ----------------------------
(***************************************************************************)
(* Proofs about the job queue for any set of callers and any capacity: no  *)
(* wake-up is lost in either direction, the bound is kept, a failed call   *)
(* leaves nothing behind, and every step implements a step of BoundedFIFO. *)
(***************************************************************************)
EXTENDS JobQueue, SequenceFacts

--------------------------------------------------------------------------------
(* The variables hold values of their types in every reachable state. *)
THEOREM TypeCorrect == SafeSpec => []TypeOK
<1>1. Init => TypeOK
  BY EmptySeq DEF Init, TypeOK, CallStates, ReaderStates
<1>2. TypeOK /\ [Next]_vars => TypeOK'
  <2> SUFFICES ASSUME TypeOK, [Next]_vars PROVE TypeOK'
    OBVIOUS
  <2> USE DEF TypeOK, CallStates, ReaderStates
  <2>1. ASSUME NEW c \in Callers, Begin(c) PROVE TypeOK'
    BY <2>1 DEF Begin, MoveCall
  <2>2. ASSUME NEW c \in Callers, CallerStep(c) PROVE TypeOK'
    <3>1. CASE Admit(c)
      BY <3>1, AppendProperties DEF Admit, MoveCall
    <3>2. CASE Refuse(c) \/ Park(c) \/ Unpark(c) \/ GiveUp(c) \/ Wake(c)
      BY <3>2 DEF Refuse, Park, Unpark, GiveUp, Wake, MoveCall
    <3> QED
      BY <2>2, <3>1, <3>2 DEF CallerStep
  <2>3. ASSUME NEW c \in Callers, RemoveQueued(c) PROVE TypeOK'
    BY <2>3, RemoveAtProperties DEF RemoveQueued, Broadcast
  <2>4. ASSUME NEW c \in Callers, CancelCall(c) PROVE TypeOK'
    BY <2>4 DEF CancelCall
  <2>5. CASE Pop
    <3>1. Head(items) \in Callers /\ Tail(items) \in Seq(Callers)
      BY <2>5 DEF Pop
    <3> QED
      BY <2>5, <3>1 DEF Pop, MoveReader, Broadcast
  <2>6. CASE Enter \/ TestContext \/ FindEmpty \/ ParkReader \/ WakeReader \/ StopReader
    BY <2>6 DEF Enter, TestContext, FindEmpty, ParkReader, WakeReader, StopReader, MoveReader
  <2>7. CASE StopPool
    BY <2>7 DEF StopPool
  <2>8. CASE UNCHANGED vars
    BY <2>8 DEF vars
  <2> QED
    BY <2>1, <2>2, <2>3, <2>4, <2>5, <2>6, <2>7, <2>8 DEF Next, ReaderStep
<1> QED
  BY <1>1, <1>2, PTL DEF SafeSpec

--------------------------------------------------------------------------------
(* The invariant that carries the safety argument.  It is inductive on top of
   the types: each conjunct says what a party that waits may rely on, or what
   a call that has ended in an error has left. *)
Inv == Bounded /\ NoLostWakeup /\ ParkedMeansFull /\ ErrorLeavesNothing

LEMMA InitInv == Init => Inv
<1> SUFFICES ASSUME Init PROVE Inv
  OBVIOUS
<1>1. Len(items) = 0 /\ ToSet(items) = {}
  BY EmptySeq DEF Init, ToSet
<1> QED
  BY <1>1, QueueAssumption
     DEF Init, Inv, Bounded, NoLostWakeup, ParkedMeansFull, ErrorLeavesNothing,
         Queued, QueueAssumption

(* A caller moves without touching the items: only waking and accepted calls
   own an item, so no other caller's move can expose one. *)
LEMMA CallerMoveInv ==
  ASSUME TypeOK, Inv, NEW c \in Callers,
         Begin(c) \/ Refuse(c) \/ Park(c) \/ Unpark(c) \/ GiveUp(c) \/ Wake(c)
  PROVE  Inv'
<1>1. UNCHANGED <<items, reader, taken>>
  BY DEF Begin, Refuse, Park, Unpark, GiveUp, Wake
<1>2. Bounded'
  BY <1>1 DEF Inv, Bounded
<1>3. NoLostWakeup'
  BY <1>1 DEF Inv, NoLostWakeup, TypeOK, Begin, Refuse, Park, Unpark, GiveUp, Wake,
              MoveCall
<1>4. ParkedMeansFull'
  BY <1>1 DEF Inv, ParkedMeansFull, HasRoom, TypeOK, Begin, Refuse, Park, Unpark,
              GiveUp, Wake, MoveCall
<1>5. ErrorLeavesNothing'
  <2>1. ToSet(items) \cup taken \subseteq Callers
    BY ToSetIsRange DEF TypeOK
  <2>2. \A d \in ToSet(items) \cup taken : call[d] \in {"waking", "accepted"}
    BY DEF Inv, ErrorLeavesNothing, Queued
  <2>3. \A d \in ToSet(items) \cup taken : call'[d] \in {"waking", "accepted"}
    BY <2>1, <2>2
       DEF TypeOK, Begin, Refuse, Park, Unpark, GiveUp, Wake, MoveCall
  <2> QED
    BY <1>1, <2>3 DEF ErrorLeavesNothing, Queued
<1> QED
  BY <1>2, <1>3, <1>4, <1>5 DEF Inv

(* The append fills a place it has seen free under the same lock, and owes the
   reader a wake-up from then on. *)
LEMMA AdmitInv ==
  ASSUME TypeOK, Inv, NEW c \in Callers, Admit(c)
  PROVE  Inv'
<1>1. /\ call[c] = "locking" /\ call' = [call EXCEPT ![c] = "waking"]
      /\ items' = Append(items, c)
      /\ HasRoom
      /\ UNCHANGED <<wake, stale, cancelled, reader, stop, taken>>
  BY DEF Admit, MoveCall
<1>2. /\ Len(items) \in Nat /\ Len(items') = Len(items) + 1
      /\ ToSet(items') = ToSet(items) \cup {c}
  BY <1>1, AppendProperties, AppendRange DEF TypeOK
<1>3. Bounded'
  BY <1>1, <1>2, QueueAssumption DEF Bounded, HasRoom, QueueAssumption
<1>4. NoLostWakeup'
  BY <1>1 DEF NoLostWakeup, TypeOK
<1>5. ParkedMeansFull'
  BY <1>1, <1>2, QueueAssumption
     DEF Inv, ParkedMeansFull, HasRoom, TypeOK, QueueAssumption
<1>6. ErrorLeavesNothing'
  BY <1>1, <1>2 DEF Inv, ErrorLeavesNothing, Queued, TypeOK
<1> QED
  BY <1>3, <1>4, <1>5, <1>6 DEF Inv

(* An item leaves, by Next or by Remove: the broadcast marks every parked
   caller's channel as closed, so nobody is left waiting on the room it made. *)
LEMMA LeaveInv ==
  ASSUME TypeOK, Inv, Broadcast, UNCHANGED <<wake, call>>,
         items' \in Seq(Callers), Len(items') = Len(items) - 1,
         ToSet(items') \cup taken' \subseteq ToSet(items) \cup taken,
         reader' \in {"unlocked", "parked"} => reader' = reader /\ items # << >>
  PROVE  Inv'
<1>1. Len(items) \in Nat /\ Len(items') \in Nat
  BY DEF TypeOK
<1>2. Bounded'
  BY <1>1, QueueAssumption DEF Inv, Bounded, QueueAssumption
<1>3. NoLostWakeup'
  BY DEF Inv, NoLostWakeup
<1>4. ParkedMeansFull'
  BY DEF ParkedMeansFull, Broadcast
<1>5. ErrorLeavesNothing'
  BY DEF Inv, ErrorLeavesNothing, Queued
<1> QED
  BY <1>2, <1>3, <1>4, <1>5 DEF Inv

LEMMA PopInv ==
  ASSUME TypeOK, Inv, Pop
  PROVE  Inv'
<1>1. /\ items # << >> /\ items' = Tail(items) /\ taken' = taken \cup {Head(items)}
      /\ reader' = "away" /\ Broadcast /\ UNCHANGED <<wake, call>>
  BY DEF Pop, MoveReader
<1>2. items' \in Seq(Callers) /\ Len(items') = Len(items) - 1
  BY <1>1, HeadTailProperties DEF TypeOK
<1>3. ToSet(items') \cup taken' \subseteq ToSet(items) \cup taken
  BY <1>1, TailRange DEF TypeOK
<1> QED
  BY <1>1, <1>2, <1>3, LeaveInv

LEMMA RemoveInv ==
  ASSUME TypeOK, Inv, NEW c \in Callers, RemoveQueued(c)
  PROVE  Inv'
<1>1. PICK k \in DOMAIN items : items' = RemoveAt(items, k)
  BY DEF RemoveQueued
<1>2. Broadcast /\ UNCHANGED <<wake, call, reader, taken>>
  BY DEF RemoveQueued
<1>3. k \in 1 .. Len(items) /\ items # << >>
  BY <1>1, LenProperties DEF TypeOK
<1>4. items' \in Seq(Callers) /\ Len(items') = Len(items) - 1
  BY <1>1, <1>3, RemoveAtProperties DEF TypeOK
<1>5. ToSet(items') \subseteq ToSet(items)
  BY <1>1, <1>3, RemoveAtRange DEF TypeOK
<1> QED
  BY <1>2, <1>3, <1>4, <1>5, LeaveInv

(* The reader makes to park only beside an empty queue, and a pending wake-up
   is used up only by unparking it. *)
LEMMA ReaderMoveInv ==
  ASSUME TypeOK, Inv, Enter \/ TestContext \/ FindEmpty \/ ParkReader \/ WakeReader \/ StopReader
  PROVE  Inv'
<1>1. UNCHANGED <<items, stale, call, taken>>
  BY DEF Enter, TestContext, FindEmpty, ParkReader, WakeReader, StopReader
<1>2. NoLostWakeup'
  BY <1>1 DEF Inv, NoLostWakeup, Enter, TestContext, FindEmpty, ParkReader, WakeReader, StopReader,
              MoveReader
<1> QED
  BY <1>1, <1>2 DEF Inv, Bounded, ParkedMeansFull, HasRoom, ErrorLeavesNothing, Queued

LEMMA NextInv == TypeOK /\ Inv /\ [Next]_vars => Inv'
<1> SUFFICES ASSUME TypeOK, Inv, [Next]_vars PROVE Inv'
  OBVIOUS
<1>1. ASSUME NEW c \in Callers, Begin(c) \/ CallerStep(c) PROVE Inv'
  BY <1>1, CallerMoveInv, AdmitInv DEF CallerStep
<1>2. ASSUME NEW c \in Callers, RemoveQueued(c) PROVE Inv'
  BY <1>2, RemoveInv
<1>3. ASSUME NEW c \in Callers, CancelCall(c) PROVE Inv'
  BY <1>3 DEF CancelCall, Inv, Bounded, NoLostWakeup, ParkedMeansFull, HasRoom,
              ErrorLeavesNothing, Queued
<1>4. CASE ReaderStep
  BY <1>4, PopInv, ReaderMoveInv DEF ReaderStep
<1>5. CASE StopPool \/ UNCHANGED vars
  BY <1>5 DEF StopPool, vars, Inv, Bounded, NoLostWakeup, ParkedMeansFull, HasRoom,
              ErrorLeavesNothing, Queued
<1> QED
  BY <1>1, <1>2, <1>3, <1>4, <1>5 DEF Next

THEOREM InvCorrect == SafeSpec => []Inv
BY InitInv, NextInv, TypeCorrect, PTL DEF SafeSpec

(* The queue never holds more than its capacity (queue.go:39,61). *)
THEOREM CapacityKept == SafeSpec => []Bounded
BY InvCorrect, PTL DEF Inv

(* The dispatcher never sleeps beside a queued job without a wake-up on its
   way (queue.go:75-101). *)
THEOREM ReaderIsWoken == SafeSpec => []NoLostWakeup
BY InvCorrect, PTL DEF Inv

(* A batch that waits on an open channel waits for a full queue (queue.go:30-55). *)
THEOREM WaitersAreWoken == SafeSpec => []ParkedMeansFull
BY InvCorrect, PTL DEF Inv

(* A call that failed left nothing in the queue (queue.go:35-38,50-53,61-64). *)
THEOREM FailedCallsLeaveNothing == SafeSpec => []ErrorLeavesNothing
BY InvCorrect, PTL DEF Inv

--------------------------------------------------------------------------------
(* Every step of the queue is a step of the buffer it promises, or none. *)
LEMMA StepImplements ==
  ASSUME TypeOK, Inv, [Next]_vars
  PROVE  [Buffer!Next]_(Buffer!vars)
<1> USE DEF Buffer!vars
<1>1. ASSUME NEW c \in Callers, Admit(c) PROVE Buffer!Next
  <2>1. c \notin ToSet(items) \cup taken
    BY <1>1 DEF Admit, MoveCall, Inv, ErrorLeavesNothing, Queued
  <2> QED
    BY <1>1, <2>1 DEF Admit, HasRoom, Buffer!Next, Buffer!Put, Buffer!ToSet, ToSet
<1>2. ASSUME NEW c \in Callers, RemoveQueued(c) PROVE Buffer!Next
  BY <1>2 DEF RemoveQueued, Buffer!Next, Buffer!Withdraw, Buffer!RemoveAt, RemoveAt
<1>3. CASE Pop
  BY <1>3 DEF Pop, Buffer!Next, Buffer!Take
<1>4. CASE StopPool
  BY <1>4 DEF StopPool, Buffer!Next, Buffer!CloseReader
<1>5. ASSUME NEW c \in Callers,
             Begin(c) \/ CancelCall(c) \/ Refuse(c) \/ Park(c) \/ Unpark(c)
               \/ GiveUp(c) \/ Wake(c)
      PROVE  UNCHANGED <<items, taken, stop>>
  BY <1>5 DEF Begin, CancelCall, Refuse, Park, Unpark, GiveUp, Wake
<1>6. CASE Enter \/ TestContext \/ FindEmpty \/ ParkReader \/ WakeReader \/ StopReader
  BY <1>6 DEF Enter, TestContext, FindEmpty, ParkReader, WakeReader, StopReader
<1>7. CASE UNCHANGED vars
  BY <1>7 DEF vars
<1> QED
  BY <1>1, <1>2, <1>3, <1>4, <1>5, <1>6, <1>7 DEF Next, CallerStep, ReaderStep

(* The queue implements the safety part of BoundedFIFO under the mapping of
   ImplementsBuffer: first in, first out, each item at most once. *)
THEOREM QueueImplementsBuffer == SafeSpec => Buffer!SafeSpec
<1>1. Init => Buffer!Init
  BY DEF Init, Buffer!Init
<1> QED
  BY <1>1, StepImplements, TypeCorrect, InvCorrect, PTL DEF SafeSpec, Buffer!SafeSpec
================================================================================
