------------------------------ MODULE BoundedFIFO ------------------------------
(***************************************************************************)
(* What internal/queue promises its users, free of locks and channels: a   *)
(* FIFO buffer of at most Capacity items, from which items can be taken at *)
(* the head or withdrawn wherever they stand.  Until the buffer is closed  *)
(* (its only reader's context is cancelled) an item at the head is taken.  *)
(***************************************************************************)
EXTENDS Naturals, Sequences, SequencesExt

CONSTANTS
  Items,      \* what may be queued; each is put at most once
  Capacity    \* the bound of the buffer

VARIABLES
  buf,        \* the queued items, oldest first
  taken,      \* the items handed to the reader
  closed      \* the reader has been told to stop

vars == <<buf, taken, closed>>

Init ==
  /\ buf = << >>
  /\ taken = {}
  /\ closed = FALSE

Put(i) ==
  /\ Len(buf) < Capacity
  /\ i \notin ToSet(buf) \cup taken
  /\ buf' = Append(buf, i)
  /\ UNCHANGED <<taken, closed>>

Take ==
  /\ buf # << >>
  /\ buf' = Tail(buf)
  /\ taken' = taken \cup {Head(buf)}
  /\ UNCHANGED closed

Withdraw(k) ==
  /\ buf' = RemoveAt(buf, k)
  /\ UNCHANGED <<taken, closed>>

CloseReader ==
  /\ closed' = TRUE
  /\ UNCHANGED <<buf, taken>>

Next ==
  \/ \E i \in Items : Put(i)
  \/ Take
  \/ \E k \in DOMAIN buf : Withdraw(k)
  \/ CloseReader

(* Safety alone: what every step may do. *)
SafeSpec == Init /\ [][Next]_vars

(* The reader keeps taking for as long as it has not been told to stop. *)
Spec == SafeSpec /\ WF_vars(~closed /\ Take)
================================================================================
