------------------------------- MODULE JobQueue -------------------------------
(***************************************************************************)
(* internal/queue/queue.go: the bounded FIFO between admission and the     *)
(* worker pool, step by step between its lock and its two channels.        *)
(*                                                                         *)
(* Every critical section of q.mu is one action, because nothing blocks    *)
(* inside one.  The steps that lie between critical sections (the send on  *)
(* q.wake, the select that waits, the test of the context in Next) are     *)
(* actions of their own, so TLC explores every order of them.              *)
(*                                                                         *)
(* A caller stands for one call with one item and is identified with it.   *)
(* Waiters call EnqueueWait, the other callers Enqueue.  There is one      *)
(* reader, as in the program: Pool.dispatchLoop is the only caller of Next. *)
(***************************************************************************)
EXTENDS Naturals, Sequences, SequencesExt

CONSTANTS
  Callers,    \* one call of Enqueue or EnqueueWait each
  Waiters,    \* those that call EnqueueWait
  Capacity    \* q.capacity

ASSUME QueueAssumption ==
  /\ Waiters \subseteq Callers
  /\ Capacity \in Nat

VARIABLES
  items,      \* q.items
  wake,       \* q.wake holds its one token
  stale,      \* the parked callers whose q.space channel has been closed
  call,       \* where each caller stands
  cancelled,  \* the callers whose context is done
  reader,     \* where the reader stands
  stop,       \* the reader's context is done
  taken       \* history: the items Next has returned

vars == <<items, wake, stale, call, cancelled, reader, stop, taken>>

CallStates ==
  {"idle", "locking", "parked", "waking", "accepted", "full", "cancelled"}

Returned == {"accepted", "full", "cancelled"}

ReaderStates == {"away", "entering", "locking", "unlocked", "parked", "stopped"}

TypeOK ==
  /\ items \in Seq(Callers)
  /\ wake \in BOOLEAN
  /\ stale \subseteq Callers
  /\ call \in [Callers -> CallStates]
  /\ cancelled \subseteq Callers
  /\ reader \in ReaderStates
  /\ stop \in BOOLEAN
  /\ taken \subseteq Callers

Init ==
  /\ items = << >>
  /\ wake = FALSE
  /\ stale = {}
  /\ call = [c \in Callers |-> "idle"]
  /\ cancelled = {}
  /\ reader = "away"
  /\ stop = FALSE
  /\ taken = {}

HasRoomOffByOne == Len(items) <= Capacity

HasRoom == Len(items) < Capacity

MoveCall(c, from, to) ==
  /\ call[c] = from
  /\ call' = [call EXCEPT ![c] = to]

MoveReader(from, to) ==
  /\ reader = from
  /\ reader' = to

--------------------------------------------------------------------------------
(* Admission *)

(* A call reaches the lock. *)
Begin(c) ==
  /\ MoveCall(c, "idle", "locking")
  /\ UNCHANGED <<items, wake, stale, cancelled, reader, stop, taken>>

(* Under the lock: there is room, and a waiter's context is still live. *)
Admit(c) ==
  /\ c \in Waiters => c \notin cancelled
  /\ HasRoom
  /\ MoveCall(c, "locking", "waking")
  /\ items' = Append(items, c)
  /\ UNCHANGED <<wake, stale, cancelled, reader, stop, taken>>

(* Enqueue refuses at once when the queue is full. *)
Refuse(c) ==
  /\ c \notin Waiters
  /\ ~HasRoom
  /\ MoveCall(c, "locking", "full")
  /\ UNCHANGED <<items, wake, stale, cancelled, reader, stop, taken>>

(* EnqueueWait takes hold of the current space channel and waits on it. *)
Park(c) ==
  /\ c \in Waiters \ cancelled
  /\ ~HasRoom
  /\ MoveCall(c, "locking", "parked")
  /\ UNCHANGED <<items, wake, stale, cancelled, reader, stop, taken>>

(* The channel it holds has been closed: try again from the top. *)
Unpark(c) ==
  /\ c \in stale
  /\ MoveCall(c, "parked", "locking")
  /\ stale' = stale \ {c}
  /\ UNCHANGED <<items, wake, cancelled, reader, stop, taken>>

GiveUpAtLockOnly(c) ==
  /\ c \in Waiters \cap cancelled
  /\ MoveCall(c, "locking", "cancelled")
  /\ UNCHANGED <<items, wake, stale, cancelled, reader, stop, taken>>

(* Both the test under the lock and the select give up on a done context. *)
GiveUp(c) ==
  /\ c \in Waiters \cap cancelled
  /\ MoveCall(c, "locking", "cancelled") \/ MoveCall(c, "parked", "cancelled")
  /\ stale' = stale \ {c}
  /\ UNCHANGED <<items, wake, cancelled, reader, stop, taken>>

WakeUnbuffered(c) ==
  /\ MoveCall(c, "waking", "accepted")
  /\ wake' = (reader = "parked")
  /\ UNCHANGED <<items, stale, cancelled, reader, stop, taken>>

WakeOrError(c) ==
  /\ MoveCall(c, "waking", IF c \in cancelled THEN "cancelled" ELSE "accepted")
  /\ wake' = TRUE
  /\ UNCHANGED <<items, stale, cancelled, reader, stop, taken>>

(* After the unlock: a send on q.wake that never blocks. *)
Wake(c) ==
  /\ MoveCall(c, "waking", "accepted")
  /\ wake' = TRUE
  /\ UNCHANGED <<items, stale, cancelled, reader, stop, taken>>

--------------------------------------------------------------------------------
(* Removal *)

NoBroadcast == UNCHANGED stale

(* close(q.space); q.space = make(...): all who wait hold a closed channel. *)
Broadcast == stale' = stale \cup {c \in Callers : call[c] = "parked"}

(* Next, up to its first test of the context. *)
Enter ==
  /\ MoveReader("away", "entering")
  /\ UNCHANGED <<items, wake, stale, call, cancelled, stop, taken>>

TestContext ==
  /\ ~stop
  /\ MoveReader("entering", "locking")
  /\ UNCHANGED <<items, wake, stale, call, cancelled, stop, taken>>

Pop ==
  /\ MoveReader("locking", "away")
  /\ items # << >>
  /\ items' = Tail(items)
  /\ taken' = taken \cup {Head(items)}
  /\ Broadcast
  /\ UNCHANGED <<wake, call, cancelled, stop>>

(* Between the unlock and the select anyone may append. *)
FindEmpty ==
  /\ MoveReader("locking", "unlocked")
  /\ items = << >>
  /\ UNCHANGED <<items, wake, stale, call, cancelled, stop, taken>>

ParkReader ==
  /\ MoveReader("unlocked", "parked")
  /\ UNCHANGED <<items, wake, stale, call, cancelled, stop, taken>>

WakeReader ==
  /\ wake
  /\ MoveReader("parked", "entering")
  /\ wake' = FALSE
  /\ UNCHANGED <<items, stale, call, cancelled, stop, taken>>

StopReader ==
  /\ stop
  /\ MoveReader("entering", "stopped") \/ MoveReader("parked", "stopped")
  /\ UNCHANGED <<items, wake, stale, call, cancelled, stop, taken>>

(* Remove deletes the first item that matches; without one it does nothing. *)
RemoveQueued(c) ==
  \E k \in DOMAIN items :
    /\ items[k] = c
    /\ \A i \in 1 .. k - 1 : items[i] # c
    /\ items' = RemoveAt(items, k)
    /\ Broadcast
    /\ UNCHANGED <<wake, call, cancelled, reader, stop, taken>>

--------------------------------------------------------------------------------
(* What the users of the queue do to the two contexts *)

(* A context done after its call has returned is never looked at again. *)
CancelCall(c) ==
  /\ c \in Waiters \ cancelled
  /\ call[c] \notin Returned
  /\ cancelled' = cancelled \cup {c}
  /\ UNCHANGED <<items, wake, stale, call, reader, stop, taken>>

StopPool ==
  /\ ~stop
  /\ stop' = TRUE
  /\ UNCHANGED <<items, wake, stale, call, cancelled, reader, taken>>

--------------------------------------------------------------------------------
CallerStep(c) ==
  Admit(c) \/ Refuse(c) \/ Park(c) \/ Unpark(c) \/ GiveUp(c) \/ Wake(c)

ReaderStep ==
  Enter \/ TestContext \/ Pop \/ FindEmpty \/ ParkReader \/ WakeReader \/ StopReader

Next ==
  \/ \E c \in Callers : Begin(c) \/ CallerStep(c) \/ RemoveQueued(c) \/ CancelCall(c)
  \/ ReaderStep
  \/ StopPool

SafeSpec == Init /\ [][Next]_vars

(* A goroutine that can run does run; the dispatcher comes back for the next
   item once it has handed the last one over.  Clients owe nothing: nobody
   must call, cancel, remove or stop. *)
Fairness ==
  /\ \A c \in Callers : WF_vars(CallerStep(c))
  /\ WF_vars(ReaderStep)

Spec == SafeSpec /\ Fairness

--------------------------------------------------------------------------------
(* Properties *)

Queued == ToSet(items)

(* The queue never holds more than its capacity, whatever the order in which
   callers pass the lock (queue.go:39,61). *)
Bounded == Len(items) <= Capacity

(* Next "blocks until an item is available" (queue.go:75): while the reader
   waits, or is about to, beside a queued item, its wake-up is on the way: the
   token is there, or the caller that appended has still to send it. *)
NoLostWakeup ==
  reader \in {"unlocked", "parked"} /\ items # << >> =>
    wake \/ \E c \in Callers : call[c] = "waking"

(* EnqueueWait reserves capacity "without ... lost wakeups" (queue.go:30): a
   waiter whose channel is still open waits for a queue that is full. *)
ParkedMeansFull ==
  \A c \in Callers : call[c] = "parked" /\ c \notin stale => ~HasRoom

(* A call that reported an error left nothing behind: its item is neither
   queued nor ever returned by Next (queue.go:35-38, 50-53, 61-64). *)
ErrorLeavesNothing ==
  \A c \in Queued \cup taken : call[c] \in {"waking", "accepted"}

(* The queue implements the buffer it promises, with its progress: an item at
   the head is taken as long as the pool runs. *)
Buffer == INSTANCE BoundedFIFO WITH
  Items <- Callers, buf <- items, closed <- stop

ImplementsBuffer == Buffer!Spec

(* A batch waiting for capacity gets it or is cancelled, unless the reader has
   been told to stop: each item taken lets a waiter in.  "A batch stops admitting
   jobs immediately when its cancellation context is closed" (queue.go:30-31), also
   when nothing is ever taken again. *)
WaiterReturns ==
  \A c \in Callers :
    /\ call[c] = "parked" ~> call[c] \in Returned \/ stop
    /\ c \in cancelled /\ call[c] \in {"locking", "parked"} ~> call[c] \in Returned
================================================================================
