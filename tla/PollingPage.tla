------------------------------ MODULE PollingPage ------------------------------
(***************************************************************************)
(* The list of downloads in the web client: it is fetched whole when the    *)
(* page opens and after a user's action, and every second the records not  *)
(* yet seen to have ended are asked for.  Calls overlap; answers arrive in  *)
(* any order, or not at all.                                               *)
(*                                                                         *)
(* Records are numbered in the order they were queued, and listed newest    *)
(* first.  Of a record only matters whether it has ended.                  *)
(***************************************************************************)
EXTENDS Naturals, FiniteSets

CONSTANTS
  Records,      \* a finite set of numbers
  PollLimit,    \* slice(0, 50) in batchStatus
  Calls         \* bound: calls under way at once

VARIABLES
  server,    \* each record: "none" yet, "active", "ended", "removed"
  shown,     \* downloads: what the page shows of each record it lists
  ids,       \* downloadIds: the records to poll; their order is that of the list
  call       \* what each call asks for and, once the server has seen it, its answer

vars == <<server, shown, ids, call>>

--------------------------------------------------------------------------------
Idle == [stage |-> "idle"]
Snapshots == {"active", "ended"}

Answers == UNION {[S -> Snapshots] : S \in SUBSET Records}

TypeOK ==
  /\ server \in [Records -> {"none", "active", "ended", "removed"}]
  /\ shown \in Answers
  /\ ids \subseteq Records
  /\ \A c \in Calls :
       \/ call[c] = Idle
       \/ call[c] \in [stage : {"sent"}, asks : {"list", "poll"}, asked : SUBSET Records]
       \/ call[c] \in [stage : {"answered"}, asks : {"list", "poll"}, answer : Answers]

Init ==
  /\ server = [i \in Records |-> "none"]
  /\ shown = << >>
  /\ ids = {}
  /\ call = [c \in Calls |-> Idle]

--------------------------------------------------------------------------------
(* The server's records, in outline: one may be lost or taken back while it is
   active, and nothing ends twice. *)
Admit(i) ==
  /\ server[i] = "none" /\ \A k \in Records : k < i => server[k] # "none"
  /\ server' = [server EXCEPT ![i] = "active"]
  /\ UNCHANGED <<shown, ids, call>>

End(i) ==
  /\ server[i] = "active"
  /\ server' = [server EXCEPT ![i] = "ended"]
  /\ UNCHANGED <<shown, ids, call>>

Forget(i) ==
  /\ server[i] \in Snapshots
  /\ server' = [server EXCEPT ![i] = "removed"]
  /\ UNCHANGED <<shown, ids, call>>

ActiveOnly == {i \in Records : server[i] = "active"}

Kept == {i \in Records : server[i] \in Snapshots}

Snapshot(S) == [i \in S |-> server[i]]

(* HandleListDownloads, here of all records (the code stops after 200, and the page asks
   for no more), and HandleBatchStatus, null for a record that is not there. *)
Answer(c) ==
  /\ call[c].stage = "sent"
  /\ call' = [call EXCEPT ![c] =
       [stage |-> "answered", asks |-> call[c].asks,
        answer |-> Snapshot(IF call[c].asks = "list" THEN Kept ELSE call[c].asked \cap Kept)]]
  /\ UNCHANGED <<server, shown, ids>>

--------------------------------------------------------------------------------
(* The page *)

(* fetchDownloads: on opening, and after cancelling or removing. *)
Fetch(c) ==
  /\ call[c] = Idle
  /\ call' = [call EXCEPT ![c] = [stage |-> "sent", asks |-> "list", asked |-> {}]]
  /\ UNCHANGED <<server, shown, ids>>

(* The first of the list, which SnapshotAll has sorted. *)
Newest(S, n) == {i \in S : Cardinality({k \in S : k > i}) < n}

(* batchStatus at the interval's tick, while there is something to poll. *)
Asked == Newest(ids, PollLimit)

Poll(c) ==
  /\ call[c] = Idle /\ ids # {}
  /\ call' = [call EXCEPT ![c] = [stage |-> "sent", asks |-> "poll", asked |-> Asked]]
  /\ UNCHANGED <<server, shown, ids>>

(* The list replaces what is shown. *)
ShowList(answer) ==
  /\ shown' = answer
  /\ ids' = {i \in DOMAIN answer : answer[i] # "ended"}

ShowSnapshotsOnly(answer) ==
  /\ shown' = [i \in DOMAIN shown |-> IF i \in DOMAIN answer THEN answer[i] ELSE shown[i]]
  /\ ids' = {i \in ids : i \in DOMAIN answer /\ answer[i] # "ended"}

(* Snapshots replace what is shown of their records, and those that have ended
   are polled no more; a record without a snapshot stays. *)
ShowSnapshots(answer) ==
  /\ shown' = [i \in DOMAIN shown |-> IF i \in DOMAIN answer THEN answer[i] ELSE shown[i]]
  /\ ids' = {i \in ids : i \notin DOMAIN answer \/ answer[i] # "ended"}

Receive(c) ==
  /\ call[c].stage = "answered"
  /\ IF call[c].asks = "list" THEN ShowList(call[c].answer) ELSE ShowSnapshots(call[c].answer)
  /\ call' = [call EXCEPT ![c] = Idle]
  /\ UNCHANGED <<server>>

(* An error or the request's time limit: nothing shown changes. *)
Fail(c) ==
  /\ call[c] # Idle
  /\ call' = [call EXCEPT ![c] = Idle]
  /\ UNCHANGED <<server, shown, ids>>

--------------------------------------------------------------------------------
Next ==
  \/ \E i \in Records : Admit(i) \/ End(i) \/ Forget(i)
  \/ \E c \in Calls : Fetch(c) \/ Poll(c) \/ Answer(c) \/ Receive(c) \/ Fail(c)

(* The interval ticks on, every call ends (apiRequest aborts it after 30 s), and
   polls do not fail for ever; nobody must act on the page. *)
Fairness ==
  /\ \A c \in Calls : WF_vars(Answer(c) \/ Receive(c) \/ Fail(c))
  /\ SF_vars(\E c \in Calls : Poll(c))
  /\ SF_vars(\E c \in Calls : Answer(c) /\ call[c].asks = "poll")
  /\ SF_vars(\E c \in Calls : Receive(c) /\ call[c].asks = "poll")

SafeSpec == Init /\ [][Next]_vars

Spec == SafeSpec /\ Fairness

--------------------------------------------------------------------------------
(* Properties *)

(* What the page shows and the server still runs is polled, in whatever order
   lists and snapshots were answered and applied (useDownloads.js:24-25, 43-53). *)
ActiveIsPolled ==
  \A i \in DOMAIN shown : server[i] = "active" => i \in ids

(* The end of a record that is polled gets shown, unless the record is removed
   or always stands behind PollLimit others (useDownloads.js:42-53, api.js:139). *)
Starved(i) == i \in ids \ Asked

PolledEndIsShown ==
  \A i \in Records :
    \/ server[i] = "ended" /\ i \in ids
         ~> i \notin DOMAIN shown \/ shown[i] = "ended" \/ server[i] = "removed"
    \/ <>[]Starved(i)

(* "Downloads use live SSE updates, reconnect snapshots, version-aware resync, and
   polling fallback" (README.md:45): a record that is shown as running is polled, so
   that its end will be shown, and no older snapshot comes after a newer one. *)
RunningIsPolled == \A i \in DOMAIN shown : shown[i] = "active" => i \in ids
================================================================================
