------------------------------ MODULE EventStream ------------------------------
(***************************************************************************)
(* Live updates: DownloadProgress.Update and ProgressStore.Delete publish  *)
(* on the event bus, the SSE gateway takes events from its bounded buffer, *)
(* drops those that are stale or too frequent, and broadcasts the others   *)
(* to the bounded channel of each connection, whose handler writes them.   *)
(*                                                                         *)
(* A job's terminal status is final (FirstTerminalStays of Downloads), so  *)
(* a version number says what a snapshot shows: the job has ended in every *)
(* version from ended[j] on.  Version 0 stands for "no record"; the n-th   *)
(* version of the code is n + 1 here.                                      *)
(*                                                                         *)
(* The reader at the other end is the one README.md:45 describes: it keeps *)
(* the newest version of each job and asks for the list after a resync.    *)
(***************************************************************************)
EXTENDS Naturals, Sequences, SequencesExt, FiniteSets

CONSTANTS
  Jobs,            \* download records
  Streams,         \* connections to /api/events, each used once
  BusCapacity,     \* buffer of a bus subscriber, 100
  FrameCapacity,   \* buffer of a connection, 100
  SeenLimit,       \* versions the gateway remembers before it forgets all, 2000
  MaxVersion       \* bound: updates of one record

ASSUME EventStreamAssumption ==
  /\ Jobs \subseteq Nat \ {0} /\ IsFiniteSet(Jobs)
  /\ {FrameCapacity, SeenLimit, MaxVersion} \subseteq Nat \ {0}
  /\ BusCapacity \in Nat \ {0, 1}

VARIABLES
  stored,      \* the records in the store
  version,     \* DownloadProgress.Version of each record
  ended,       \* the version in which the job reached a terminal status, or 0
  notifying,   \* the records updated and not yet published, notifyMu held
  unannounced, \* the records deleted, whose resync is not yet published
  bus,         \* the gateway's buffer on the bus
  listening,   \* listenLoop runs
  seen,        \* Gateway.versions
  paced,       \* the jobs in Gateway.throttle
  hand,        \* the event listenLoop is about to broadcast, if any
  registered,  \* Gateway.clients
  dropped,     \* connections out of Gateway.clients, not yet closed
  shut,        \* connections whose channel is closed
  frames,      \* the channel of each connection
  at,          \* where the handler of each connection stands
  gateway,     \* "open", then "cancelled" (Gateway.ctx), then "closed"
  view,        \* the version of each job the reader of a connection knows
  refetching   \* the connections whose reader has still to ask for the list

recordVars == <<stored, version, ended, notifying, unannounced>>
loopVars == <<listening, seen, paced, hand>>
streamVars == <<registered, dropped, shut, frames, at>>
readerVars == <<view, refetching>>
vars == <<recordVars, bus, loopVars, streamVars, gateway, readerVars>>

NoJob == 0

Resync == [job |-> NoJob, version |-> 0]

Progress(j) == [job |-> j, version |-> version[j]]

Event == [job: Jobs \cup {NoJob}, version: Nat]

TypeOK ==
  /\ stored \subseteq Jobs
  /\ version \in [Jobs -> Nat]
  /\ ended \in [Jobs -> Nat]
  /\ notifying \subseteq Jobs
  /\ unannounced \subseteq Jobs
  /\ bus \in Seq(Event) /\ Len(bus) <= BusCapacity
  /\ listening \in BOOLEAN
  /\ seen \in [Jobs -> Nat]
  /\ paced \subseteq Jobs
  /\ hand \in Seq(Event) /\ Len(hand) <= 1
  /\ registered \subseteq Streams
  /\ dropped \subseteq Streams
  /\ shut \subseteq Streams
  /\ frames \in [Streams -> Seq(Event)]
  /\ at \in [Streams -> {"absent", "opened", "streaming", "leaving", "left"}]
  /\ gateway \in {"open", "cancelled", "closed"}
  /\ view \in [Streams -> [Jobs -> Nat]]
  /\ refetching \subseteq Streams

Init ==
  /\ stored = {}
  /\ version = [j \in Jobs |-> 0]
  /\ ended = [j \in Jobs |-> 0]
  /\ notifying = {}
  /\ unannounced = {}
  /\ bus = << >>
  /\ listening = TRUE
  /\ seen = [j \in Jobs |-> 0]
  /\ paced = {}
  /\ hand = << >>
  /\ registered = {}
  /\ dropped = {}
  /\ shut = {}
  /\ frames = [s \in Streams |-> << >>]
  /\ at = [s \in Streams |-> "absent"]
  /\ gateway = "open"
  /\ view = [s \in Streams |-> [j \in Jobs |-> 0]]
  /\ refetching = {}

--------------------------------------------------------------------------------
(* Publishers *)

PublishDropping(e) ==
  bus' = IF listening /\ Len(bus) < BusCapacity THEN Append(bus, e) ELSE bus

(* Bus.Publish never blocks: a full buffer is emptied and restarted with a
   resync.  Once listenLoop has unsubscribed there is nobody to send to. *)
Publish(e) ==
  bus' = IF ~listening THEN bus
         ELSE IF Len(bus) < BusCapacity THEN Append(bus, e)
         ELSE <<Resync, e>>

(* Store.Set publishes nothing. *)
Create(j) ==
  /\ version[j] = 0
  /\ version' = [version EXCEPT ![j] = 1]
  /\ stored' = stored \cup {j}
  /\ UNCHANGED <<ended, notifying, unannounced, bus, loopVars, streamVars, gateway, readerVars>>

(* Update under notifyMu and mu; a worker may still update a removed record. *)
Update(j) ==
  /\ j \notin notifying
  /\ version[j] \in 1 .. MaxVersion - 1
  /\ version' = [version EXCEPT ![j] = @ + 1]
  /\ \/ UNCHANGED ended
     \/ ended[j] = 0 /\ ended' = [ended EXCEPT ![j] = version[j] + 1]
  /\ notifying' = notifying \cup {j}
  /\ UNCHANGED <<stored, unannounced, bus, loopVars, streamVars, gateway, readerVars>>

(* OnUpdate, with notifyMu still held: the snapshot is the newest there is. *)
Announce(j) ==
  /\ j \in notifying
  /\ Publish(Progress(j))
  /\ notifying' = notifying \ {j}
  /\ UNCHANGED <<stored, version, ended, unannounced, loopVars, streamVars, gateway, readerVars>>

Delete(j) ==
  /\ j \in stored
  /\ stored' = stored \ {j}
  /\ unannounced' = unannounced \cup {j}
  /\ UNCHANGED <<version, ended, notifying, bus, loopVars, streamVars, gateway, readerVars>>

AnnounceRemoval(j) ==
  /\ j \in unannounced
  /\ Publish(Resync)
  /\ unannounced' = unannounced \ {j}
  /\ UNCHANGED <<stored, version, ended, notifying, loopVars, streamVars, gateway, readerVars>>

(* CleanupOldDownloads removes ended records without a word on the bus. *)
Expire(j) ==
  /\ j \in stored /\ ended[j] > 0
  /\ stored' = stored \ {j}
  /\ UNCHANGED <<version, ended, notifying, unannounced, bus, loopVars, streamVars, gateway,
                 readerVars>>

--------------------------------------------------------------------------------
(* listenLoop *)

HasEnded(e) == ended[e.job] > 0 /\ e.version >= ended[e.job]

Remember(e) ==
  seen' = [j \in Jobs |-> IF j = e.job THEN e.version
                          ELSE IF Cardinality({i \in Jobs : seen[i] > 0}) > SeenLimit THEN 0
                          ELSE seen[j]]

(* An ended job is always broadcast; another only now and then, by how far it
   has come and how long ago its last broadcast was. *)
Throttle(e) ==
  \/ /\ HasEnded(e)
     /\ hand' = <<e>>
     /\ paced' = paced \ {e.job}
  \/ /\ ~HasEnded(e)
     /\ hand' = <<e>>
     /\ paced' = paced \cup {e.job}
  \/ /\ ~HasEnded(e) /\ e.job \in paced
     /\ UNCHANGED <<hand, paced>>

Receive ==
  /\ listening /\ hand = << >> /\ bus # << >>
  /\ bus' = Tail(bus)
  /\ LET e == Head(bus)
     IN  \/ e = Resync /\ hand' = <<e>> /\ UNCHANGED <<seen, paced>>
         \/ e # Resync /\ e.version <= seen[e.job] /\ UNCHANGED <<seen, paced, hand>>
         \/ e # Resync /\ e.version > seen[e.job] /\ Remember(e) /\ Throttle(e)
  /\ UNCHANGED <<recordVars, listening, streamVars, gateway, readerVars>>

HasRoom(s) == Len(frames[s]) < FrameCapacity

SendToAll ==
  frames' = [s \in Streams |-> IF s \in registered /\ HasRoom(s)
                               THEN Append(frames[s], Head(hand)) ELSE frames[s]]

BroadcastKeepingFull ==
  /\ hand # << >>
  /\ hand' = << >>
  /\ SendToAll
  /\ dropped' = dropped \cup {s \in registered : ~HasRoom(s)}
  /\ UNCHANGED <<recordVars, bus, listening, seen, paced, registered, shut, at, gateway,
                 readerVars>>

BroadcastForgettingFull ==
  /\ hand # << >>
  /\ hand' = << >>
  /\ SendToAll
  /\ registered' = {s \in registered : HasRoom(s)}
  /\ UNCHANGED <<recordVars, bus, listening, seen, paced, dropped, shut, at, gateway, readerVars>>

(* A connection that does not keep up is taken off the list and then closed. *)
Broadcast ==
  /\ hand # << >>
  /\ hand' = << >>
  /\ SendToAll
  /\ registered' = {s \in registered : HasRoom(s)}
  /\ dropped' = dropped \cup {s \in registered : ~HasRoom(s)}
  /\ UNCHANGED <<recordVars, bus, listening, seen, paced, shut, at, gateway, readerVars>>

StopListening ==
  /\ gateway # "open" /\ listening /\ hand = << >>
  /\ listening' = FALSE
  /\ bus' = << >>
  /\ UNCHANGED <<recordVars, seen, paced, hand, streamVars, gateway, readerVars>>

(* client.close, by whoever took the connection off the list; once at most. *)
CloseChannel(s) ==
  /\ s \in dropped
  /\ dropped' = dropped \ {s}
  /\ shut' = shut \cup {s}
  /\ UNCHANGED <<recordVars, bus, loopVars, registered, frames, at, gateway, readerVars>>

--------------------------------------------------------------------------------
(* ServeHTTP *)

Move(s, from, to) ==
  /\ at[s] = from
  /\ at' = [at EXCEPT ![s] = to]

ConnectAnyway(s) ==
  /\ Move(s, "absent", "opened")
  /\ registered' = registered \cup {s}
  /\ UNCHANGED <<recordVars, bus, loopVars, dropped, shut, frames, gateway, readerVars>>

Connect(s) ==
  /\ \/ gateway # "closed" /\ Move(s, "absent", "opened") /\ registered' = registered \cup {s}
     \/ gateway = "closed" /\ Move(s, "absent", "left") /\ UNCHANGED registered
  /\ UNCHANGED <<recordVars, bus, loopVars, dropped, shut, frames, gateway, readerVars>>

Listed == [j \in Jobs |-> IF j \in stored THEN version[j] ELSE 0]

(* The reconnect snapshot, taken after the connection was registered. *)
WriteSnapshot(s) ==
  /\ Move(s, "opened", "streaming")
  /\ view' = [view EXCEPT ![s] = Listed]
  /\ UNCHANGED <<recordVars, bus, loopVars, registered, dropped, shut, frames, gateway,
                 refetching>>

(* The next frame; frames sent before the channel was closed still arrive. *)
WriteFrame(s) ==
  /\ at[s] = "streaming" /\ frames[s] # << >>
  /\ frames' = [frames EXCEPT ![s] = Tail(@)]
  /\ LET e == Head(frames[s])
     IN  \/ e = Resync /\ refetching' = refetching \cup {s} /\ UNCHANGED view
         \/ e # Resync /\ e.version > view[s][e.job]
              /\ view' = [view EXCEPT ![s][e.job] = e.version] /\ UNCHANGED refetching
         \/ e # Resync /\ e.version <= view[s][e.job] /\ UNCHANGED readerVars
  /\ UNCHANGED <<recordVars, bus, loopVars, registered, dropped, shut, at, gateway>>

FindClosed(s) ==
  /\ s \in shut /\ frames[s] = << >>
  /\ Move(s, "streaming", "leaving")
  /\ UNCHANGED <<recordVars, bus, loopVars, registered, dropped, shut, frames, gateway,
                 readerVars>>

(* The reader goes away, or a write misses its deadline. *)
Disconnect(s) ==
  /\ Move(s, "opened", "leaving") \/ Move(s, "streaming", "leaving")
  /\ UNCHANGED <<recordVars, bus, loopVars, registered, dropped, shut, frames, gateway,
                 readerVars>>

Leave(s) ==
  /\ Move(s, "leaving", "left")
  /\ registered' = registered \ {s}
  /\ dropped' = IF s \in shut THEN dropped ELSE dropped \cup {s}
  /\ UNCHANGED <<recordVars, bus, loopVars, shut, frames, gateway, readerVars>>

(* The reader's GET /api/downloads after a resync. *)
Refetch(s) ==
  /\ s \in refetching /\ at[s] = "streaming"
  /\ view' = [view EXCEPT ![s] = Listed]
  /\ refetching' = refetching \ {s}
  /\ UNCHANGED <<recordVars, bus, loopVars, streamVars, gateway>>

--------------------------------------------------------------------------------
(* Gateway.Close, at the start of the server's shutdown *)

CancelGateway ==
  /\ gateway = "open"
  /\ gateway' = "cancelled"
  /\ UNCHANGED <<recordVars, bus, loopVars, streamVars, readerVars>>

CloseGateway ==
  /\ gateway = "cancelled"
  /\ gateway' = "closed"
  /\ registered' = {}
  /\ dropped' = dropped \cup registered
  /\ UNCHANGED <<recordVars, bus, loopVars, shut, frames, at, readerVars>>

--------------------------------------------------------------------------------
LoopStep == Receive \/ Broadcast \/ StopListening

StreamStep(s) == WriteSnapshot(s) \/ WriteFrame(s) \/ FindClosed(s) \/ Leave(s)

Next ==
  \/ \E j \in Jobs :
       Create(j) \/ Update(j) \/ Announce(j) \/ Delete(j) \/ AnnounceRemoval(j) \/ Expire(j)
  \/ LoopStep
  \/ \E s \in Streams :
       CloseChannel(s) \/ Connect(s) \/ StreamStep(s) \/ Disconnect(s) \/ Refetch(s)
  \/ CancelGateway \/ CloseGateway

SafeSpec == Init /\ [][Next]_vars

(* Goroutines that can run do, and a reader that has been told to ask for the
   list does.  Nobody must update, connect, disconnect or shut down. *)
Fairness ==
  /\ \A j \in Jobs : WF_vars(Announce(j)) /\ WF_vars(AnnounceRemoval(j))
  /\ WF_vars(LoopStep)
  /\ \A s \in Streams :
       WF_vars(CloseChannel(s)) /\ WF_vars(StreamStep(s)) /\ WF_vars(Refetch(s))
  /\ WF_vars(CloseGateway)

Spec == SafeSpec /\ Fairness

--------------------------------------------------------------------------------
(* Properties *)

(* broadcast never sends on a closed channel, which would panic and end
   listenLoop: whoever closes one has taken it off the list first
   (gateway.go:83-91, 178-192, 219-224). *)
NoSendOnClosed == registered \cap shut = {}

(* "... instead of silently losing a terminal update" (bus.go:74-75): once a
   connection has its snapshot, its reader knows every retained job that has
   ended, or the update, or a resync after it, is still on its way to it. *)
Carries(queue, j, above) ==
  \E e \in ToSet(queue) : e = Resync \/ (e.job = j /\ e.version > above /\ HasEnded(e))

OnItsWay(s, j) ==
  \/ j \in notifying
  \/ Carries(bus, j, seen[j])
  \/ Carries(hand, j, 0)
  \/ Carries(frames[s], j, 0)
  \/ s \in refetching

NoEndLost ==
  gateway = "open" =>
    \A s \in registered, j \in stored :
      at[s] = "streaming" /\ ended[j] > 0 => view[s][j] >= ended[j] \/ OnItsWay(s, j)

(* The same as a promise: a connection shows the end of every retained job,
   unless it is closed because it does not keep up. *)
EndShown ==
  \A s \in Streams, j \in Jobs :
    at[s] = "streaming" /\ ended[j] > 0 /\ j \in stored
      ~> view[s][j] >= ended[j] \/ at[s] = "left" \/ j \notin stored \/ gateway # "open"

(* After Gateway.Close no connection stays open, not even one whose request
   was accepted before, so that server.Shutdown need not run into its timeout
   (main.go:106-111, gateway.go:211-217). *)
StreamsEnd ==
  gateway = "closed" ~> \A s \in Streams : at[s] \in {"absent", "left"}
================================================================================
