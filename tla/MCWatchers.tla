------------------------------- MODULE MCWatchers -------------------------------
(***************************************************************************)
(* The two ways to watch jobs: the event stream (EventStream) and the page  *)
(* that polls (PollingPage).  They share no state beyond the server's       *)
(* records, of which each has its own picture; a run picks one of them in   *)
(* its initial state, and the other rests.                                 *)
(***************************************************************************)
EXTENDS EventStream

CONSTANTS Records, PollLimit, Calls   \* of PollingPage

VARIABLES
  part,   \* "stream" or "page": the one explored
  server, shown, ids, call

pageVars == <<server, shown, ids, call>>

watchersVars == <<part, vars, pageVars>>

Page == INSTANCE PollingPage

WatchersInit == part \in {"stream", "page"} /\ Init /\ Page!Init

WatchersNext ==
  \/ part = "stream" /\ Next /\ UNCHANGED <<part, pageVars>>
  \/ part = "page" /\ Page!Next /\ UNCHANGED <<part, vars>>

(* Of the part that rests no fair step is enabled, so its fairness asks for nothing. *)
WatchersSpec ==
  WatchersInit /\ [][WatchersNext]_watchersVars /\ Fairness /\ Page!Fairness

(* The properties of PollingPage; those of EventStream keep their names. *)
ActiveIsPolled == Page!ActiveIsPolled
PolledEndIsShown == Page!PolledEndIsShown
================================================================================
