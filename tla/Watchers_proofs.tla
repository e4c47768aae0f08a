----------------------------- MODULE Watchers_proofs ----------------------------
(***************************************************************************)
(* Proofs about the two ways to watch jobs.                                *)
(*                                                                         *)
(* Live updates, for any number of jobs, connections and updates and for    *)
(* buffers of any size: no connection is written to once it is closed, and  *)
(* the end of no job is lost.                                              *)
(*                                                                         *)
(* The page that polls, for any set of records, any limit and any number of *)
(* calls under way: what it shows and the server still runs is polled.     *)
(***************************************************************************)
EXTENDS MCWatchers, SequenceFacts

--------------------------------------------------------------------------------
(* What Publish leaves in the bus: what was there and the event, or a resync. *)
LEMMA PublishFacts ==
  ASSUME bus \in Seq(Event), Len(bus) <= BusCapacity, listening \in BOOLEAN,
         NEW e \in Event, Publish(e)
  PROVE  /\ bus' \in Seq(Event) /\ Len(bus') <= BusCapacity
         /\ ToSet(bus') \subseteq ToSet(bus) \cup {e, Resync}
         /\ listening => e \in ToSet(bus')
         /\ listening => ToSet(bus) \subseteq ToSet(bus') \/ Resync \in ToSet(bus')
<1>1. Resync \in Event
  BY DEF Resync, Event
<1>2. CASE ~listening
  BY <1>2 DEF Publish
<1>3. CASE listening /\ Len(bus) < BusCapacity
  <2>1. bus' = Append(bus, e)
    BY <1>3 DEF Publish
  <2>2. BusCapacity \in Nat /\ Len(bus) \in Nat
    BY EventStreamAssumption DEF EventStreamAssumption
  <2>3. Len(bus') <= BusCapacity
    BY <1>3, <2>1, <2>2, AppendProperties
  <2> QED
    BY <2>1, <2>3, AppendRange, AppendProperties
<1>4. CASE listening /\ ~(Len(bus) < BusCapacity)
  <2>1. bus' = <<Resync, e>>
    BY <1>4 DEF Publish
  <2>2. bus' \in Seq(Event) /\ Len(bus') = 2
    BY <1>1, <2>1
  <2>3. Len(bus') <= BusCapacity
    BY <2>2, EventStreamAssumption DEF EventStreamAssumption
  <2> QED
    BY <2>1, <2>2, <2>3, ShortRange
<1> QED
  BY <1>2, <1>3, <1>4

LEMMA ProgressIsEvent ==
  ASSUME version \in [Jobs -> Nat], NEW j \in Jobs
  PROVE  Progress(j) \in Event
BY DEF Progress, Event

LEMMA ResyncIsEvent == Resync \in Event
BY DEF Resync, Event

--------------------------------------------------------------------------------
(* No event but a resync is about no job: an invariant of its own, on which
   the types of what listenLoop and the handlers look up depend. *)
AboutJobs(queue) == \A e \in ToSet(queue) : e = Resync \/ e.job \in Jobs

Typed ==
  /\ TypeOK
  /\ AboutJobs(bus)
  /\ AboutJobs(hand)
  /\ \A s \in Streams : AboutJobs(frames[s])

LEMMA InitTyped == Init => Typed
<1> SUFFICES ASSUME Init PROVE Typed
  OBVIOUS
<1>1. TypeOK
  BY EmptySeq, EventStreamAssumption DEF Init, TypeOK, EventStreamAssumption
<1>2. ToSet(<< >>) = {}
  BY ShortRange
<1> QED
  BY <1>1, <1>2 DEF Typed, AboutJobs, Init

(* A step of a publisher keeps the types. *)
LEMMA PublisherTyped ==
  ASSUME Typed, NEW j \in Jobs,
         Create(j) \/ Update(j) \/ Announce(j) \/ Delete(j) \/ AnnounceRemoval(j) \/ Expire(j)
  PROVE  Typed'
<1> USE DEF Typed, TypeOK
<1>1. ASSUME UNCHANGED bus PROVE Typed'
  <2>1. UNCHANGED <<loopVars, streamVars, gateway, readerVars>>
    BY DEF Create, Update, Announce, Delete, AnnounceRemoval, Expire
  <2>2. stored' \subseteq Jobs /\ notifying' \subseteq Jobs /\ unannounced' \subseteq Jobs
    BY DEF Create, Update, Announce, Delete, AnnounceRemoval, Expire
  <2>3. version' \in [Jobs -> Nat]
    <3>1. \/ UNCHANGED version
          \/ version' = [version EXCEPT ![j] = 1]
          \/ version' = [version EXCEPT ![j] = @ + 1]
      BY DEF Create, Update, Announce, Delete, AnnounceRemoval, Expire
    <3>2. 1 \in Nat /\ version[j] + 1 \in Nat
      OBVIOUS
    <3> QED
      BY <3>1, <3>2, Zenon
  <2>4. ended' \in [Jobs -> Nat]
    <3>1. UNCHANGED ended \/ ended' = [ended EXCEPT ![j] = version[j] + 1]
      BY DEF Create, Update, Announce, Delete, AnnounceRemoval, Expire
    <3>2. version[j] + 1 \in Nat
      OBVIOUS
    <3> QED
      BY <3>1, <3>2, Zenon
  <2> QED
    BY <1>1, <2>1, <2>2, <2>3, <2>4 DEF loopVars, streamVars, readerVars, AboutJobs
<1>2. ASSUME NEW e \in Event, e = Resync \/ e.job \in Jobs, Publish(e),
             Announce(j) \/ AnnounceRemoval(j)
      PROVE  Typed'
  <2>1. /\ bus' \in Seq(Event) /\ Len(bus') <= BusCapacity
        /\ ToSet(bus') \subseteq ToSet(bus) \cup {e, Resync}
    BY <1>2, PublishFacts
  <2>2. UNCHANGED <<stored, version, ended, loopVars, streamVars, gateway, readerVars>>
    BY <1>2 DEF Announce, AnnounceRemoval
  <2>3. notifying' \subseteq Jobs /\ unannounced' \subseteq Jobs
    BY <1>2 DEF Announce, AnnounceRemoval
  <2>4. AboutJobs(bus')
    BY <1>2, <2>1 DEF AboutJobs
  <2> QED
    BY <2>1, <2>2, <2>3, <2>4 DEF loopVars, streamVars, readerVars, AboutJobs
<1>3. CASE Announce(j)
  BY <1>2, <1>3, ProgressIsEvent DEF Announce, Progress
<1>4. CASE AnnounceRemoval(j)
  BY <1>2, <1>4, ResyncIsEvent DEF AnnounceRemoval
<1>5. CASE Create(j) \/ Update(j) \/ Delete(j) \/ Expire(j)
  BY <1>1, <1>5 DEF Create, Update, Delete, Expire
<1> QED
  BY <1>3, <1>4, <1>5

(* A step of listenLoop keeps the types. *)
LEMMA LoopTyped ==
  ASSUME Typed, LoopStep
  PROVE  Typed'
<1> USE DEF Typed, TypeOK
<1>1. CASE Receive
  <2> DEFINE e == Head(bus)
  <2>1. e \in Event /\ Tail(bus) \in Seq(Event) /\ ToSet(bus) = {e} \cup ToSet(Tail(bus))
    BY <1>1, HeadTailRange DEF Receive
  <2>2. bus' = Tail(bus) /\ UNCHANGED <<recordVars, listening, streamVars, gateway, readerVars>>
    BY <1>1 DEF Receive
  <2>3. e = Resync \/ e.job \in Jobs
    BY <2>1 DEF AboutJobs
  <2>4. hand' = <<e>> \/ hand' = << >>
    BY <1>1 DEF Receive, Throttle
  <2>5. seen' \in [Jobs -> Nat] /\ paced' \subseteq Jobs
    <3>1. e.version \in Nat
      BY <2>1 DEF Event
    <3> HIDE DEF e
    <3>2. Remember(e) => seen' \in [Jobs -> Nat]
      BY <3>1 DEF Remember
    <3>3. \/ UNCHANGED <<seen, paced>>
          \/ e # Resync /\ Remember(e) /\ Throttle(e)
      BY <1>1 DEF Receive, e
    <3> QED
      BY <2>3, <3>2, <3>3 DEF Throttle
  <2>6. hand' \in Seq(Event) /\ Len(hand') <= 1 /\ AboutJobs(hand')
    <3> HIDE DEF e
    <3>1. <<e>> \in Seq(Event) /\ Len(<<e>>) = 1
      BY <2>1
    <3>2. << >> \in Seq(Event) /\ Len(<< >>) = 0
      BY EmptySeq
    <3>3. AboutJobs(<<e>>) /\ AboutJobs(<< >>)
      BY <2>3, ShortRange DEF AboutJobs
    <3>4. CASE hand' = <<e>>
      BY <3>1, <3>3, <3>4
    <3>5. CASE hand' = << >>
      BY <3>2, <3>3, <3>5
    <3> QED
      BY <2>4, <3>4, <3>5
  <2>7. AboutJobs(bus')
    BY <2>1, <2>2 DEF AboutJobs
  <2>8. Len(bus') <= BusCapacity
    <3>1. Len(Tail(bus)) = Len(bus) - 1 /\ Len(bus) \in Nat /\ BusCapacity \in Nat
      BY <1>1, EventStreamAssumption DEF Receive, EventStreamAssumption
    <3> QED
      BY <2>2, <3>1
  <2> HIDE DEF e
  <2> QED
    BY <2>1, <2>2, <2>5, <2>6, <2>7, <2>8 DEF recordVars, streamVars, readerVars, AboutJobs
<1>2. CASE Broadcast
  <2>1. hand # << >> /\ hand' = << >>
    BY <1>2 DEF Broadcast
  <2>2. Head(hand) \in Event /\ (Head(hand) = Resync \/ Head(hand).job \in Jobs)
    BY <2>1, HeadTailRange DEF AboutJobs
  <2>3. ASSUME NEW s \in Streams PROVE frames'[s] \in Seq(Event) /\ AboutJobs(frames'[s])
    <3>1. frames'[s] = frames[s] \/ frames'[s] = Append(frames[s], Head(hand))
      BY <1>2 DEF Broadcast, SendToAll
    <3>2. Append(frames[s], Head(hand)) \in Seq(Event)
      BY <2>2, AppendProperties
    <3>3. ToSet(Append(frames[s], Head(hand))) = ToSet(frames[s]) \cup {Head(hand)}
      BY <2>2, AppendRange
    <3> QED
      BY <2>2, <3>1, <3>2, <3>3 DEF AboutJobs
  <2>4. frames' \in [Streams -> Seq(Event)]
    <3>1. DOMAIN frames' = Streams /\ frames' = [s \in Streams |-> frames'[s]]
      BY <1>2 DEF Broadcast, SendToAll
    <3> QED
      BY <2>3, <3>1
  <2>5. registered' \subseteq Streams /\ dropped' \subseteq Streams
    BY <1>2 DEF Broadcast
  <2>6. << >> \in Seq(Event) /\ Len(<< >>) = 0 /\ AboutJobs(<< >>)
    BY EmptySeq, ShortRange DEF AboutJobs
  <2>7. UNCHANGED <<recordVars, bus, listening, seen, paced, shut, at, gateway, readerVars>>
    BY <1>2 DEF Broadcast
  <2> QED
    BY <2>1, <2>3, <2>4, <2>5, <2>6, <2>7 DEF recordVars, readerVars, AboutJobs
<1>3. CASE StopListening
  <2>1. << >> \in Seq(Event) /\ Len(<< >>) <= BusCapacity /\ AboutJobs(<< >>)
    BY EmptySeq, ShortRange, EventStreamAssumption DEF AboutJobs, EventStreamAssumption
  <2> QED
    BY <1>3, <2>1 DEF StopListening, recordVars, streamVars, readerVars, AboutJobs
<1> QED
  BY <1>1, <1>2, <1>3 DEF LoopStep

(* A step of a connection, of its reader or of Gateway.Close keeps the types. *)
LEMMA StreamTyped ==
  ASSUME Typed, NEW s \in Streams,
         CloseChannel(s) \/ Connect(s) \/ StreamStep(s) \/ Disconnect(s) \/ Refetch(s)
  PROVE  Typed'
<1> USE DEF Typed, TypeOK
<1>0. Listed \in [Jobs -> Nat]
  BY DEF Listed
<1>1. CASE WriteFrame(s)
  <2> DEFINE e == Head(frames[s])
  <2>1. /\ e \in Event /\ Tail(frames[s]) \in Seq(Event)
        /\ ToSet(frames[s]) = {e} \cup ToSet(Tail(frames[s]))
    BY <1>1, HeadTailRange DEF WriteFrame
  <2>2. /\ frames' = [frames EXCEPT ![s] = Tail(@)]
        /\ UNCHANGED <<recordVars, bus, loopVars, registered, dropped, shut, at, gateway>>
    BY <1>1 DEF WriteFrame
  <2>3. e = Resync \/ (e.job \in Jobs /\ e.version \in Nat)
    BY <2>1 DEF AboutJobs, Event
  <2>4. frames' \in [Streams -> Seq(Event)] /\ \A t \in Streams : AboutJobs(frames'[t])
    <3> HIDE DEF e
    <3> QED
      BY <2>1, <2>2 DEF AboutJobs
  <2>5. view' \in [Streams -> [Jobs -> Nat]] /\ refetching' \subseteq Streams
    <3>1. \/ UNCHANGED view
          \/ e # Resync /\ view' = [view EXCEPT ![s][e.job] = e.version]
      BY <1>1 DEF WriteFrame, readerVars
    <3>2. UNCHANGED refetching \/ refetching' = refetching \cup {s}
      BY <1>1 DEF WriteFrame, readerVars
    <3> HIDE DEF e
    <3>3. view' \in [Streams -> [Jobs -> Nat]]
      <4>1. ASSUME e # Resync, view' = [view EXCEPT ![s][e.job] = e.version]
            PROVE  view' \in [Streams -> [Jobs -> Nat]]
        <5> DEFINE v == [view[s] EXCEPT ![e.job] = e.version]
        <5>1. v \in [Jobs -> Nat]
          BY <2>3, <4>1
        <5>2. view' = [view EXCEPT ![s] = v]
          BY <4>1
        <5> HIDE DEF v
        <5> QED
          BY <5>1, <5>2
      <4> QED
        BY <3>1, <4>1
    <3> QED
      BY <3>2, <3>3
  <2> QED
    BY <2>2, <2>4, <2>5 DEF recordVars, loopVars, AboutJobs
<1>2. CASE CloseChannel(s)
  BY <1>2 DEF CloseChannel, recordVars, loopVars, readerVars, AboutJobs
<1>3. CASE Connect(s)
  BY <1>3 DEF Connect, Move, recordVars, loopVars, readerVars, AboutJobs
<1>4. CASE WriteSnapshot(s)
  BY <1>0, <1>4 DEF WriteSnapshot, Move, recordVars, loopVars, AboutJobs
<1>5. CASE FindClosed(s) \/ Disconnect(s) \/ Leave(s)
  BY <1>5 DEF FindClosed, Disconnect, Leave, Move, recordVars, loopVars, readerVars, AboutJobs
<1>6. CASE Refetch(s)
  BY <1>0, <1>6 DEF Refetch, recordVars, loopVars, streamVars, AboutJobs
<1> QED
  BY <1>1, <1>2, <1>3, <1>4, <1>5, <1>6 DEF StreamStep

LEMMA NextTyped == Typed /\ [Next]_vars => Typed'
<1> SUFFICES ASSUME Typed, [Next]_vars PROVE Typed'
  OBVIOUS
<1>1. CASE CancelGateway \/ CloseGateway
  BY <1>1 DEF CancelGateway, CloseGateway, Typed, TypeOK, AboutJobs, recordVars, loopVars,
              streamVars, readerVars
<1>2. CASE UNCHANGED vars
  BY <1>2 DEF vars, Typed, TypeOK, AboutJobs, recordVars, loopVars, streamVars, readerVars
<1> QED
  BY <1>1, <1>2, PublisherTyped, LoopTyped, StreamTyped DEF Next

LEMMA AlwaysTyped == SafeSpec => []Typed
BY InitTyped, NextTyped, PTL DEF SafeSpec

(* The variables hold values of their types in every reachable state. *)
THEOREM StreamTypeCorrect == SafeSpec => []TypeOK
<1>1. Typed => TypeOK
  BY DEF Typed
<1> QED
  BY <1>1, AlwaysTyped, PTL

--------------------------------------------------------------------------------
(* Whoever takes a connection off the list owns its closing: one that is being
   closed, or is closed, is not on the list, and never comes back to it. *)
Owned ==
  /\ registered \cap (dropped \cup shut) = {}
  /\ \A s \in Streams : at[s] = "absent" => s \notin registered \cup dropped \cup shut

LEMMA NextOwned == Typed /\ Owned /\ [Next]_vars => Owned'
<1> SUFFICES ASSUME Typed, Owned, [Next]_vars PROVE Owned'
  OBVIOUS
<1>1. /\ registered \subseteq Streams /\ dropped \subseteq Streams /\ shut \subseteq Streams
      /\ DOMAIN at = Streams
  BY DEF Typed, TypeOK
<1>2. CASE UNCHANGED streamVars
  BY <1>2 DEF Owned, streamVars
<1>3. CASE Broadcast
  BY <1>1, <1>3 DEF Owned, Broadcast
<1>4. CASE CloseGateway
  BY <1>1, <1>4 DEF Owned, CloseGateway
<1>5. ASSUME NEW s \in Streams, CloseChannel(s) PROVE Owned'
  BY <1>1, <1>5 DEF Owned, CloseChannel
<1>6. ASSUME NEW s \in Streams, NEW to, to # "absent", at[s] # "absent",
             at' = [at EXCEPT ![s] = to], UNCHANGED <<registered, dropped, shut>>
      PROVE  Owned'
  BY <1>1, <1>6 DEF Owned
<1>7. ASSUME NEW s \in Streams, Connect(s) PROVE Owned'
  <2>1. CASE gateway # "closed"
    BY <1>1, <1>7, <2>1 DEF Owned, Connect, Move
  <2>2. CASE gateway = "closed"
    BY <1>1, <1>7, <2>2 DEF Owned, Connect, Move
  <2> QED
    BY <2>1, <2>2
<1>8. ASSUME NEW s \in Streams, WriteSnapshot(s) \/ FindClosed(s) \/ Disconnect(s) PROVE Owned'
  BY <1>6, <1>8 DEF WriteSnapshot, FindClosed, Disconnect, Move
<1>9. ASSUME NEW s \in Streams, Leave(s) PROVE Owned'
  BY <1>1, <1>9 DEF Owned, Leave, Move
<1>10. ASSUME NEW s \in Streams, WriteFrame(s) PROVE Owned'
  BY <1>10 DEF Owned, WriteFrame
<1>11. ASSUME NEW s \in Streams, Refetch(s) PROVE Owned'
  BY <1>2, <1>11 DEF Refetch
<1>12. ASSUME NEW j \in Jobs,
              Create(j) \/ Update(j) \/ Announce(j) \/ Delete(j) \/ AnnounceRemoval(j) \/ Expire(j)
       PROVE  Owned'
  BY <1>2, <1>12 DEF Create, Update, Announce, Delete, AnnounceRemoval, Expire
<1>13. CASE Receive \/ StopListening \/ CancelGateway \/ UNCHANGED vars
  BY <1>2, <1>13 DEF Receive, StopListening, CancelGateway, vars
<1> QED
  BY <1>3, <1>4, <1>5, <1>7, <1>8, <1>9, <1>10, <1>11, <1>12, <1>13
  DEF Next, LoopStep, StreamStep

(* listenLoop never sends on the closed channel of a connection, whatever the
   order in which broadcast, a handler and Gateway.Close let go of it. *)
THEOREM NoSendOnClosedCorrect == SafeSpec => []NoSendOnClosed
<1>1. Init => Owned
  BY DEF Init, Owned
<1>2. Owned => NoSendOnClosed
  BY DEF Owned, NoSendOnClosed
<1> QED
  BY <1>1, <1>2, NextOwned, AlwaysTyped, PTL DEF SafeSpec

--------------------------------------------------------------------------------
(* No event, and nothing listenLoop remembers, is newer than the record; while
   a version is still to be published, they are all older than it. *)
Versions ==
  /\ gateway = "open" => listening
  /\ \A j \in Jobs :
       /\ ended[j] <= version[j]
       /\ seen[j] <= version[j]
       /\ j \in notifying => seen[j] < version[j]
       /\ \A e \in ToSet(bus) :
            e.job = j => e.version <= version[j] /\ (j \in notifying => e.version < version[j])

LEMMA JobFacts ==
  ASSUME NEW j \in Jobs
  PROVE  /\ j # NoJob /\ j \in Nat
         /\ Resync.job # j /\ Progress(j).job = j /\ Progress(j).version = version[j]
         /\ Progress(j) # Resync
BY EventStreamAssumption DEF EventStreamAssumption, NoJob, Resync, Progress

LEMMA PublisherVersions ==
  ASSUME Typed, Versions, NEW j \in Jobs,
         Create(j) \/ Update(j) \/ Announce(j) \/ Delete(j) \/ AnnounceRemoval(j) \/ Expire(j)
  PROVE  Versions'
<1>1. /\ version \in [Jobs -> Nat] /\ ended \in [Jobs -> Nat] /\ seen \in [Jobs -> Nat]
      /\ bus \in Seq(Event) /\ Len(bus) <= BusCapacity /\ listening \in BOOLEAN
      /\ \A e \in ToSet(bus) : e.version \in Nat
  <2>1. /\ version \in [Jobs -> Nat] /\ ended \in [Jobs -> Nat] /\ seen \in [Jobs -> Nat]
        /\ bus \in Seq(Event) /\ Len(bus) <= BusCapacity /\ listening \in BOOLEAN
    BY DEF Typed, TypeOK
  <2>2. ToSet(bus) \subseteq Event
    BY <2>1, RangeInSet
  <2> QED
    BY <2>1, <2>2 DEF Event
<1>2. UNCHANGED <<gateway, listening, seen>>
  BY DEF Create, Update, Announce, Delete, AnnounceRemoval, Expire, loopVars
<1>3. CASE Create(j)
  <2>1. version[j] = 0 /\ version' = [version EXCEPT ![j] = 1]
        /\ UNCHANGED <<ended, notifying, bus>>
    BY <1>3 DEF Create
  <2>2. \A i \in Jobs : version[i] <= version'[i]
    BY <1>1, <2>1
  <2> QED
    BY <1>1, <1>2, <2>1, <2>2 DEF Versions
<1>4. CASE Update(j)
  <2>1. /\ version' = [version EXCEPT ![j] = @ + 1] /\ UNCHANGED bus
        /\ ended' = ended \/ ended' = [ended EXCEPT ![j] = version[j] + 1]
        /\ notifying' = notifying \cup {j}
    BY <1>4 DEF Update
  <2>2. ASSUME NEW i \in Jobs, i # j
        PROVE  version'[i] = version[i] /\ ended'[i] = ended[i] /\ (i \in notifying' <=> i \in notifying)
    BY <1>1, <2>1, <2>2
  <2>3. version'[j] = version[j] + 1 /\ (ended'[j] = ended[j] \/ ended'[j] = version[j] + 1)
    BY <1>1, <2>1
  <2> QED
    BY <1>1, <1>2, <2>1, <2>2, <2>3 DEF Versions
<1>5. CASE Announce(j)
  <2>1. Publish(Progress(j)) /\ notifying' = notifying \ {j} /\ UNCHANGED <<version, ended>>
    BY <1>5 DEF Announce
  <2>2. ToSet(bus') \subseteq ToSet(bus) \cup {Progress(j), Resync}
    BY <1>1, <2>1, ProgressIsEvent, PublishFacts
  <2>3. ASSUME NEW i \in Jobs, NEW e \in ToSet(bus'), e.job = i
        PROVE  e.version <= version[i] /\ (i \in notifying' => e.version < version[i])
    <3>1. CASE e \in ToSet(bus)
      BY <2>1, <2>3, <3>1 DEF Versions
    <3>2. CASE e = Progress(j)
      <4>1. i = j /\ e.version = version[j]
        BY <2>3, <3>2, JobFacts
      <4> QED
        BY <1>1, <2>1, <4>1
    <3> QED
      BY <2>2, <2>3, <3>1, <3>2, JobFacts
  <2> QED
    BY <1>2, <2>1, <2>3 DEF Versions
<1>6. CASE AnnounceRemoval(j)
  <2>1. Publish(Resync) /\ UNCHANGED <<version, ended, notifying>>
    BY <1>6 DEF AnnounceRemoval
  <2>2. ToSet(bus') \subseteq ToSet(bus) \cup {Resync}
    BY <1>1, <2>1, ResyncIsEvent, PublishFacts
  <2>3. ASSUME NEW i \in Jobs, NEW e \in ToSet(bus'), e.job = i
        PROVE  e \in ToSet(bus)
    BY <2>2, <2>3, JobFacts
  <2> QED
    BY <1>2, <2>1, <2>3 DEF Versions
<1>7. CASE Delete(j) \/ Expire(j)
  BY <1>7 DEF Versions, Delete, Expire, loopVars
<1> QED
  BY <1>3, <1>4, <1>5, <1>6, <1>7

(* What a step that takes the next event from the bus does with it. *)
LEMMA ReceiveFacts ==
  ASSUME Typed, Receive, NEW e, e = Head(bus)
  PROVE  /\ e \in Event /\ hand = << >>
         /\ ToSet(bus) = {e} \cup ToSet(bus')
         /\ \/ e = Resync /\ hand' = <<e>> /\ seen' = seen
            \/ e.job \in Jobs /\ e.version <= seen[e.job] /\ seen' = seen
            \/ /\ e.job \in Jobs /\ e.version > seen[e.job]
               /\ seen'[e.job] = e.version
               /\ \A j \in Jobs \ {e.job} : seen'[j] \in {0, seen[j]}
               /\ HasEnded(e) => hand' = <<e>>
<1>1. /\ e \in Event /\ Tail(bus) \in Seq(Event) /\ ToSet(bus) = {e} \cup ToSet(Tail(bus))
  BY HeadTailRange DEF Receive, Typed, TypeOK
<1>2. e = Resync \/ e.job \in Jobs
  BY <1>1 DEF Typed, AboutJobs
<1>3. bus' = Tail(bus) /\ hand = << >>
  BY DEF Receive
<1>4. ASSUME e # Resync, e.version > seen[e.job], Remember(e), Throttle(e)
      PROVE  /\ seen'[e.job] = e.version
             /\ \A j \in Jobs \ {e.job} : seen'[j] \in {0, seen[j]}
             /\ HasEnded(e) => hand' = <<e>>
  BY <1>2, <1>4 DEF Remember, Throttle
<1>5. \/ e = Resync /\ hand' = <<e>> /\ seen' = seen
      \/ e # Resync /\ e.version <= seen[e.job] /\ seen' = seen
      \/ e # Resync /\ e.version > seen[e.job] /\ Remember(e) /\ Throttle(e)
  BY DEF Receive
<1> QED
  BY <1>1, <1>2, <1>3, <1>4, <1>5

LEMMA NextVersions == Typed /\ Versions /\ [Next]_vars => Versions'
<1> SUFFICES ASSUME Typed, Versions, [Next]_vars PROVE Versions'
  OBVIOUS
<1>1. /\ version \in [Jobs -> Nat] /\ seen \in [Jobs -> Nat]
      /\ \A e \in Event : e.version \in Nat
  BY DEF Typed, TypeOK, Event
<1>2. CASE Receive
  <2> DEFINE e == Head(bus)
  <2>1. UNCHANGED <<version, ended, notifying, listening, gateway>>
    BY <1>2 DEF Receive, recordVars
  <2>2. e \in ToSet(bus) /\ ToSet(bus') \subseteq ToSet(bus) /\ e.version \in Nat
    BY <1>1, <1>2, ReceiveFacts
  <2>3. \/ seen' = seen
        \/ /\ e.job \in Jobs /\ seen'[e.job] = e.version
           /\ \A j \in Jobs \ {e.job} : seen'[j] \in {0, seen[j]}
    BY <1>2, ReceiveFacts
  <2> HIDE DEF e
  <2>4. ASSUME NEW j \in Jobs
        PROVE  seen'[j] <= version[j] /\ (j \in notifying => seen'[j] < version[j])
    <3>1. CASE seen'[j] = seen[j]
      BY <3>1 DEF Versions
    <3>2. CASE e.job = j /\ seen'[j] = e.version
      BY <2>2, <3>2 DEF Versions
    <3>3. CASE seen'[j] = 0
      BY <1>1, <3>3 DEF Versions
    <3> QED
      BY <2>3, <3>1, <3>2, <3>3
  <2> QED
    BY <2>1, <2>2, <2>4 DEF Versions
<1>3. CASE StopListening
  <2>1. bus' = << >> /\ gateway # "open"
        /\ UNCHANGED <<version, ended, notifying, seen, gateway>>
    BY <1>3 DEF StopListening, recordVars
  <2> QED
    BY <2>1, ShortRange DEF Versions
<1>4. CASE CancelGateway \/ CloseGateway
  BY <1>4 DEF CancelGateway, CloseGateway, Versions, recordVars, loopVars
<1>5. ASSUME UNCHANGED <<recordVars, bus, listening, seen, gateway>> PROVE Versions'
  BY <1>5 DEF Versions, recordVars
<1>6. CASE Broadcast \/ UNCHANGED vars
  BY <1>5, <1>6 DEF Broadcast, vars, loopVars
<1>7. ASSUME NEW s \in Streams,
             CloseChannel(s) \/ Connect(s) \/ StreamStep(s) \/ Disconnect(s) \/ Refetch(s)
      PROVE  Versions'
  BY <1>5, <1>7 DEF CloseChannel, Connect, StreamStep, WriteSnapshot, WriteFrame, FindClosed,
                    Leave, Disconnect, Refetch, loopVars
<1> QED
  BY <1>2, <1>3, <1>4, <1>6, <1>7, PublisherVersions DEF Next, LoopStep

--------------------------------------------------------------------------------
(* NoEndLost is inductive once versions are known to grow. *)
Told(s, j) == view[s][j] >= ended[j] \/ OnItsWay(s, j)

(* Nothing is lost by a step that takes nothing off the way to a reader. *)
LEMMA TellsOn ==
  ASSUME NEW s \in Streams, NEW j \in Jobs, Told(s, j),
         ended'[j] = ended[j], view'[s][j] >= ended[j] \/ view'[s][j] = view[s][j],
         j \in notifying => j \in notifying', s \in refetching => s \in refetching',
         seen'[j] = seen[j],
         ToSet(bus) \subseteq ToSet(bus') \/ Resync \in ToSet(bus'),
         ToSet(hand) \subseteq ToSet(hand'), ToSet(frames[s]) \subseteq ToSet(frames'[s])
  PROVE  Told(s, j)'
<1>1. CASE view[s][j] >= ended[j]
  BY <1>1 DEF Told
<1>2. CASE j \in notifying \/ s \in refetching
  BY <1>2 DEF Told, OnItsWay
<1>3. CASE Carries(bus, j, seen[j])
  BY <1>3 DEF Told, OnItsWay, Carries, HasEnded
<1>4. CASE Carries(hand, j, 0)
  BY <1>4 DEF Told, OnItsWay, Carries, HasEnded
<1>5. CASE Carries(frames[s], j, 0)
  BY <1>5 DEF Told, OnItsWay, Carries, HasEnded
<1> QED
  BY <1>1, <1>2, <1>3, <1>4, <1>5 DEF Told, OnItsWay

LEMMA PublisherTells ==
  ASSUME Typed, Versions, listening, NEW i \in Jobs,
         Create(i) \/ Update(i) \/ Announce(i) \/ Delete(i) \/ AnnounceRemoval(i) \/ Expire(i),
         NEW s \in Streams, NEW j \in stored', ended'[j] > 0,
         j \in stored /\ ended[j] > 0 => Told(s, j)
  PROVE  Told(s, j)'
<1>1. /\ version \in [Jobs -> Nat] /\ ended \in [Jobs -> Nat] /\ seen \in [Jobs -> Nat]
      /\ bus \in Seq(Event) /\ Len(bus) <= BusCapacity /\ listening \in BOOLEAN /\ j \in Jobs
  BY PublisherTyped DEF Typed, TypeOK
<1>2. UNCHANGED <<seen, hand, frames, view, refetching>>
  BY DEF Create, Update, Announce, Delete, AnnounceRemoval, Expire, loopVars, streamVars, readerVars
<1>3. ASSUME j \in stored, ended'[j] = ended[j], j \in notifying => j \in notifying',
             ToSet(bus) \subseteq ToSet(bus') \/ Resync \in ToSet(bus')
      PROVE  Told(s, j)'
  BY <1>1, <1>2, <1>3, TellsOn
<1>4. CASE Create(i)
  <2>1. UNCHANGED <<ended, notifying, bus>> /\ version[i] = 0 /\ stored' = stored \cup {i}
    BY <1>4 DEF Create
  <2>2. j # i
    BY <1>1, <2>1 DEF Versions
  <2> QED
    BY <1>3, <2>1, <2>2
<1>5. CASE Update(i)
  <2>1. /\ ended' = ended \/ ended' = [ended EXCEPT ![i] = version[i] + 1]
        /\ notifying' = notifying \cup {i} /\ UNCHANGED <<stored, bus>>
    BY <1>5 DEF Update
  <2>2. CASE j = i
    BY <2>1, <2>2 DEF Told, OnItsWay
  <2>3. CASE j # i
    BY <1>1, <1>3, <2>1, <2>3
  <2> QED
    BY <2>2, <2>3
<1>6. CASE Announce(i)
  <2>1. /\ Publish(Progress(i)) /\ i \in notifying /\ notifying' = notifying \ {i}
        /\ UNCHANGED <<stored, version, ended>>
    BY <1>6 DEF Announce
  <2>2. /\ Progress(i) \in ToSet(bus')
        /\ ToSet(bus) \subseteq ToSet(bus') \/ Resync \in ToSet(bus')
    BY <1>1, <2>1, ProgressIsEvent, PublishFacts
  <2>3. CASE j = i
    <3>1. seen'[j] < version[j] /\ ended[j] <= version[j]
      BY <1>1, <1>2, <2>1, <2>3 DEF Versions
    <3>2. Progress(i).job = j /\ Progress(i).version = version[j]
      BY <2>3, JobFacts
    <3>3. Carries(bus, j, seen[j])'
      BY <1>1, <2>1, <2>2, <3>1, <3>2 DEF Carries, HasEnded
    <3> QED
      BY <3>3 DEF Told, OnItsWay
  <2>4. CASE j # i
    BY <1>3, <2>1, <2>2, <2>4
  <2> QED
    BY <2>3, <2>4
<1>7. CASE AnnounceRemoval(i)
  <2>1. Publish(Resync) /\ UNCHANGED <<stored, version, ended, notifying>>
    BY <1>7 DEF AnnounceRemoval
  <2>2. ToSet(bus) \subseteq ToSet(bus') \/ Resync \in ToSet(bus')
    BY <1>1, <2>1, ResyncIsEvent, PublishFacts
  <2> QED
    BY <1>3, <2>1, <2>2
<1>8. CASE Delete(i) \/ Expire(i)
  <2>1. UNCHANGED <<ended, notifying, bus>> /\ stored' \subseteq stored
    BY <1>8 DEF Delete, Expire
  <2> QED
    BY <1>3, <2>1
<1> QED
  BY <1>4, <1>5, <1>6, <1>7, <1>8

LEMMA ReceiveTells ==
  ASSUME Typed, Receive, NEW s \in Streams, NEW j \in Jobs, ended[j] > 0, Told(s, j)
  PROVE  Told(s, j)'
<1> DEFINE e == Head(bus)
<1>1. /\ e \in Event /\ hand = << >>
      /\ ToSet(bus) = {e} \cup ToSet(bus')
      /\ \/ e = Resync /\ hand' = <<e>> /\ seen' = seen
         \/ e.job \in Jobs /\ e.version <= seen[e.job] /\ seen' = seen
         \/ /\ e.job \in Jobs /\ e.version > seen[e.job]
            /\ seen'[e.job] = e.version
            /\ \A i \in Jobs \ {e.job} : seen'[i] \in {0, seen[i]}
            /\ HasEnded(e) => hand' = <<e>>
  BY ReceiveFacts
<1>2. UNCHANGED <<ended, notifying, frames, view, refetching>>
  BY DEF Receive, recordVars, streamVars, readerVars
<1>3. /\ seen \in [Jobs -> Nat] /\ ended \in [Jobs -> Nat] /\ e.version \in Nat
      /\ \A d \in ToSet(bus) : d.version \in Nat
  <2>1. seen \in [Jobs -> Nat] /\ ended \in [Jobs -> Nat] /\ bus \in Seq(Event)
    BY DEF Typed, TypeOK
  <2>2. ToSet(bus) \subseteq Event
    BY <2>1, RangeInSet
  <2> QED
    BY <1>1, <2>1, <2>2 DEF Event
<1> HIDE DEF e
<1>4. ASSUME ~Carries(bus, j, seen[j]) PROVE Told(s, j)'
  <2>1. \/ view[s][j] >= ended[j] \/ j \in notifying \/ s \in refetching
        \/ Carries(frames[s], j, 0) \/ Carries(hand, j, 0)
    BY <1>4 DEF Told, OnItsWay
  <2>2. ~Carries(hand, j, 0)
    BY <1>1, ShortRange DEF Carries
  <2> QED
    BY <1>2, <2>1, <2>2 DEF Told, OnItsWay, Carries, HasEnded
<1>5. ASSUME NEW d \in ToSet(bus),
             d = Resync \/ (d.job = j /\ d.version > seen[j] /\ HasEnded(d))
      PROVE  Told(s, j)'
  <2>1. ASSUME hand' = <<d>>, d = Resync \/ d.version > 0 PROVE Told(s, j)'
    <3>1. d \in ToSet(hand')
      BY <2>1, ShortRange
    <3>2. Carries(hand, j, 0)'
      BY <1>2, <1>5, <2>1, <3>1 DEF Carries, HasEnded
    <3> QED
      BY <3>2 DEF Told, OnItsWay
  <2>2. ASSUME d \in ToSet(bus'), d = Resync \/ d.version > seen'[j] PROVE Told(s, j)'
    BY <1>2, <1>5, <2>2 DEF Told, OnItsWay, Carries, HasEnded
  <2>3. CASE d = Resync
    <3>1. CASE d \in ToSet(bus')
      BY <2>2, <2>3, <3>1
    <3>2. CASE d = e
      <4>1. e.job \notin Jobs
        BY <2>3, <3>2, JobFacts
      <4> QED
        BY <1>1, <2>1, <2>3, <3>2, <4>1
    <3> QED
      BY <1>1, <3>1, <3>2
  <2>4. CASE d.job = j /\ d.version > seen[j] /\ HasEnded(d)
    <3>1. d # Resync /\ d.version > 0 /\ d.version \in Nat
      BY <1>3, <2>4, JobFacts
    <3>2. CASE d = e
      BY <1>1, <1>3, <2>1, <2>4, <3>1, <3>2
    <3>3. CASE d \in ToSet(bus') /\ e.job = j /\ e.version > seen[j]
      <4>1. CASE HasEnded(e)
        <5>1. hand' = <<e>> /\ e \in ToSet(hand') /\ e.version > 0
          BY <1>1, <1>3, <3>1, <3>3, <4>1, JobFacts, ShortRange
        <5>2. Carries(hand, j, 0)'
          BY <1>2, <3>3, <4>1, <5>1 DEF Carries, HasEnded
        <5> QED
          BY <5>2 DEF Told, OnItsWay
      <4>2. CASE ~HasEnded(e)
        <5>1. e.version < d.version
          BY <1>3, <2>4, <3>1, <3>3, <4>2 DEF HasEnded
        <5>2. seen'[j] = e.version
          BY <1>1, <1>3, <3>3, JobFacts
        <5> QED
          BY <2>2, <3>3, <5>1, <5>2
      <4> QED
        BY <4>1, <4>2
    <3>4. CASE d \in ToSet(bus') /\ ~(e.job = j /\ e.version > seen[j])
      <4>1. seen'[j] \in {0, seen[j]}
        BY <1>1, <3>4, JobFacts
      <4> QED
        BY <1>3, <2>2, <2>4, <3>1, <3>4, <4>1
    <3> QED
      BY <1>1, <3>2, <3>3, <3>4
  <2> QED
    BY <1>5, <2>3, <2>4
<1> QED
  BY <1>4, <1>5 DEF Carries

LEMMA BroadcastTells ==
  ASSUME Typed, Broadcast, NEW s \in registered', NEW j \in Jobs, Told(s, j)
  PROVE  Told(s, j)'
<1>1. /\ s \in registered /\ HasRoom(s) /\ s \in Streams /\ hand # << >>
      /\ frames[s] \in Seq(Event) /\ hand \in Seq(Event) /\ Len(hand) <= 1
  BY DEF Broadcast, Typed, TypeOK
<1>2. UNCHANGED <<ended, notifying, bus, seen, view, refetching>>
  BY DEF Broadcast, recordVars, readerVars
<1>3. Head(hand) \in Event
  BY <1>1
<1>4. frames'[s] = Append(frames[s], Head(hand))
  BY <1>1 DEF Broadcast, SendToAll
<1>5. ToSet(frames'[s]) = ToSet(frames[s]) \cup {Head(hand)}
  BY <1>1, <1>3, <1>4, AppendRange
<1>6. ToSet(hand) = {Head(hand)}
  <2>1. Tail(hand) = << >>
    BY <1>1
  <2>2. ToSet(hand) = {Head(hand)} \cup ToSet(Tail(hand))
    BY <1>1, HeadTailRange
  <2>3. ToSet(Tail(hand)) = {}
    BY <2>1, ShortRange
  <2> QED
    BY <2>2, <2>3
<1>7. Carries(frames[s], j, 0) \/ Carries(hand, j, 0) => Carries(frames[s], j, 0)'
  BY <1>2, <1>5, <1>6 DEF Carries, HasEnded
<1> QED
  BY <1>2, <1>7 DEF Told, OnItsWay, Carries, HasEnded

LEMMA WriteFrameTells ==
  ASSUME Typed, NEW t \in Streams, WriteFrame(t), NEW s \in Streams, NEW j \in Jobs,
         ended[j] > 0, Told(s, j)
  PROVE  Told(s, j)'
<1>1. UNCHANGED <<ended, notifying, bus, seen, hand>>
  BY DEF WriteFrame, recordVars, loopVars
<1>2. /\ ended \in [Jobs -> Nat] /\ view \in [Streams -> [Jobs -> Nat]]
      /\ frames \in [Streams -> Seq(Event)]
  BY DEF Typed, TypeOK
<1>3. CASE s # t
  <2>1. frames'[s] = frames[s] /\ view'[s] = view[s] /\ (s \in refetching <=> s \in refetching')
    BY <1>2, <1>3 DEF WriteFrame, readerVars
  <2> QED
    BY <1>1, <2>1, TellsOn
<1>4. CASE s = t
  <2> DEFINE e == Head(frames[s])
  <2>1. /\ e \in Event /\ frames'[s] = Tail(frames[s])
        /\ ToSet(frames[s]) = {e} \cup ToSet(frames'[s])
    BY <1>2, <1>4, HeadTailRange DEF WriteFrame
  <2>2. /\ e.version \in Nat
        /\ e = Resync \/ e.job \in Jobs
    BY <1>2, <1>4, <2>1, HeadTailRange DEF Typed, AboutJobs, Event, WriteFrame
  <2>3. \/ e = Resync /\ s \in refetching' /\ view' = view
        \/ /\ e # Resync /\ e.version > view[s][e.job]
           /\ view' = [view EXCEPT ![s][e.job] = e.version] /\ refetching' = refetching
        \/ e # Resync /\ e.version <= view[s][e.job] /\ view' = view /\ refetching' = refetching
    BY <1>4 DEF WriteFrame, readerVars
  <2> HIDE DEF e
  <2>4. s \in refetching => s \in refetching'
    BY <2>3
  <2>5. view'[s][j] \in Nat /\ view'[s][j] >= view[s][j] /\ view[s][j] \in Nat /\ ended[j] \in Nat
    <3>1. CASE view' = view
      BY <1>2, <3>1
    <3>2. CASE /\ e # Resync /\ e.version > view[s][e.job]
               /\ view' = [view EXCEPT ![s][e.job] = e.version]
      <4>1. view'[s] = [view[s] EXCEPT ![e.job] = e.version]
        BY <1>2, <3>2
      <4>2. view'[s][j] = IF j = e.job THEN e.version ELSE view[s][j]
        BY <1>2, <4>1
      <4> QED
        BY <1>2, <2>2, <3>2, <4>2
    <3> QED
      BY <2>3, <3>1, <3>2
  <2>6. CASE view[s][j] >= ended[j]
    BY <1>1, <2>5, <2>6 DEF Told
  <2>7. ASSUME NEW d \in ToSet(frames[s]), d = Resync \/ (d.job = j /\ d.version > 0 /\ HasEnded(d))
        PROVE  Told(s, j)'
    <3>1. CASE d \in ToSet(frames'[s])
      BY <1>1, <2>7, <3>1 DEF Told, OnItsWay, Carries, HasEnded
    <3>2. CASE d = e /\ e = Resync
      BY <2>3, <3>2 DEF Told, OnItsWay
    <3>3. CASE d = e /\ e # Resync
      <4>1. e.job = j /\ e.version >= ended[j]
        BY <2>7, <3>3 DEF HasEnded
      <4>2. view'[s][j] >= e.version
        <5>1. CASE view' = view /\ e.version <= view[s][j]
          BY <2>2, <2>5, <5>1
        <5>2. CASE view' = [view EXCEPT ![s][j] = e.version]
          BY <1>2, <2>2, <5>2
        <5> QED
          BY <2>3, <3>3, <4>1, <5>1, <5>2
      <4> QED
        BY <1>1, <2>2, <2>5, <4>1, <4>2 DEF Told
    <3> QED
      BY <2>1, <2>7, <3>1, <3>2, <3>3
  <2>8. CASE Carries(frames[s], j, 0)
    BY <2>7, <2>8 DEF Carries
  <2>9. CASE j \in notifying \/ s \in refetching \/ Carries(bus, j, seen[j]) \/ Carries(hand, j, 0)
    BY <1>1, <2>4, <2>9 DEF Told, OnItsWay, Carries, HasEnded
  <2> QED
    BY <2>6, <2>8, <2>9 DEF Told, OnItsWay
<1> QED
  BY <1>3, <1>4

LEMMA NextTells ==
  ASSUME Typed, Versions, NoEndLost, [Next]_vars
  PROVE  NoEndLost'
<1> SUFFICES ASSUME gateway' = "open", NEW s \in registered', NEW j \in stored',
                    at'[s] = "streaming", ended'[j] > 0
             PROVE  Told(s, j)'
  BY DEF NoEndLost, Told
<1>1. /\ s \in Streams /\ j \in Jobs
      /\ at \in [Streams -> {"absent", "opened", "streaming", "leaving", "left"}]
      /\ version \in [Jobs -> Nat] /\ ended \in [Jobs -> Nat]
      /\ view \in [Streams -> [Jobs -> Nat]]
  BY NextTyped DEF Typed, TypeOK
<1>2. ASSUME gateway = "open", s \in registered, at[s] = "streaming", j \in stored, ended[j] > 0
      PROVE  Told(s, j)
  BY <1>2 DEF NoEndLost, Told
<1>3. ASSUME NEW i \in Jobs,
             Create(i) \/ Update(i) \/ Announce(i) \/ Delete(i) \/ AnnounceRemoval(i) \/ Expire(i)
      PROVE  Told(s, j)'
  <2>1. UNCHANGED <<gateway, registered, at>>
    BY <1>3 DEF Create, Update, Announce, Delete, AnnounceRemoval, Expire, streamVars
  <2>2. listening /\ gateway = "open"
    BY <2>1 DEF Versions
  <2>3. j \in stored /\ ended[j] > 0 => Told(s, j)
    BY <1>2, <2>1
  <2> QED
    BY <1>1, <1>3, <2>2, <2>3, PublisherTells
<1>4. CASE Receive
  <2>1. UNCHANGED <<gateway, registered, at, stored, ended>>
    BY <1>4 DEF Receive, recordVars, streamVars
  <2> QED
    BY <1>1, <1>2, <1>4, <2>1, ReceiveTells
<1>5. CASE Broadcast
  <2>1. UNCHANGED <<gateway, at, stored, ended>> /\ s \in registered
    BY <1>5 DEF Broadcast, recordVars
  <2> QED
    BY <1>1, <1>2, <1>5, <2>1, BroadcastTells
<1>6. ASSUME NEW t \in Streams, WriteFrame(t) PROVE Told(s, j)'
  <2>1. UNCHANGED <<gateway, at, stored, ended, registered>>
    BY <1>6 DEF WriteFrame, recordVars
  <2> QED
    BY <1>1, <1>2, <1>6, <2>1, WriteFrameTells
<1>7. ASSUME NEW t \in Streams, WriteSnapshot(t) \/ Refetch(t) PROVE Told(s, j)'
  <2>1. /\ UNCHANGED <<stored, version, ended, notifying, bus, seen, hand, frames, gateway, registered>>
        /\ view' = [view EXCEPT ![t] = Listed]
        /\ refetching' = refetching \/ refetching' = refetching \ {t}
    BY <1>7 DEF WriteSnapshot, Refetch, recordVars, loopVars, streamVars
  <2>2. CASE s = t
    <3>1. view'[s][j] = version[j]
      BY <1>1, <2>1, <2>2 DEF Listed
    <3>2. ended[j] <= version[j]
      BY <1>1 DEF Versions
    <3> QED
      BY <1>1, <2>1, <3>1, <3>2 DEF Told
  <2>3. CASE s # t
    <3>1. at[s] = "streaming"
      BY <1>1, <1>7, <2>3 DEF WriteSnapshot, Refetch, Move, streamVars
    <3>2. Told(s, j)
      BY <1>2, <2>1, <3>1
    <3>3. view'[s][j] = view[s][j] /\ (s \in refetching => s \in refetching')
      BY <1>1, <2>1, <2>3
    <3> QED
      BY <1>1, <2>1, <3>2, <3>3, TellsOn
  <2> QED
    BY <2>2, <2>3
<1>8. ASSUME UNCHANGED <<recordVars, bus, seen, hand, frames, gateway, readerVars>>,
             s \in registered, at[s] = "streaming"
      PROVE  Told(s, j)'
  <2>1. Told(s, j)
    BY <1>2, <1>8 DEF recordVars
  <2> QED
    BY <1>1, <1>8, <2>1, TellsOn DEF recordVars, readerVars
<1>9. ASSUME NEW t \in Streams,
             CloseChannel(t) \/ Connect(t) \/ FindClosed(t) \/ Disconnect(t) \/ Leave(t)
      PROVE  Told(s, j)'
  <2>1. UNCHANGED <<recordVars, bus, seen, hand, frames, gateway, readerVars>>
    BY <1>9 DEF CloseChannel, Connect, FindClosed, Disconnect, Leave, loopVars
  <2>2. at[s] = "streaming"
    BY <1>1, <1>9 DEF CloseChannel, Connect, FindClosed, Disconnect, Leave, Move
  <2>3. s \in registered
    BY <1>1, <1>9, <2>2 DEF CloseChannel, Connect, FindClosed, Disconnect, Leave, Move
  <2> QED
    BY <1>8, <2>1, <2>2, <2>3
<1>10. CASE StopListening
  BY <1>10 DEF StopListening
<1>11. CASE CancelGateway \/ CloseGateway
  BY <1>11 DEF CancelGateway, CloseGateway
<1>12. CASE UNCHANGED vars
  BY <1>8, <1>12 DEF vars, loopVars, streamVars
<1> QED
  BY <1>3, <1>4, <1>5, <1>6, <1>7, <1>9, <1>10, <1>11, <1>12 DEF Next, LoopStep, StreamStep

(* Neither an overflow of the bus, nor the order of a connection's snapshot and
   the events sent to it, nor what listenLoop drops or forgets, makes a reader
   miss that a job has ended: it knows, or will be told. *)
THEOREM NoEndLostCorrect == SafeSpec => []NoEndLost
<1>1. Init => Versions /\ NoEndLost
  BY ShortRange DEF Init, Versions, NoEndLost
<1> QED
  BY <1>1, NextVersions, NextTells, AlwaysTyped, PTL DEF SafeSpec


--------------------------------------------------------------------------------
(* The page.  Answers overtake each other and calls get lost, but what a record
   has been it never becomes again: an answer that says it has ended is never
   about a record that runs, however late it is applied. *)
FitsServer(i, snapshot) ==
  i \in Records /\ server[i] # "none" /\ (snapshot = "ended" => server[i] # "active")

PageShapes == DOMAIN server = Records /\ DOMAIN call = Calls

AnswersFit ==
  \A c \in Calls : call[c].stage = "answered" =>
    \A i \in DOMAIN call[c].answer : FitsServer(i, call[c].answer[i])

ShownExists == \A i \in DOMAIN shown : i \in Records /\ server[i] # "none"

PageInv == PageShapes /\ AnswersFit /\ ShownExists /\ ActiveIsPolled

LEMMA PageInit == Page!Init => PageInv
BY DEF Page!Init, Page!Idle, PageInv, PageShapes, AnswersFit, ShownExists, ActiveIsPolled,
  Page!ActiveIsPolled

(* Nothing a record does makes an answer or a list that fits it fit no longer. *)
LEMMA ServerStep ==
  ASSUME PageInv, NEW i \in Records, Page!Admit(i) \/ Page!End(i) \/ Page!Forget(i)
  PROVE  PageInv'
<1> USE DEF PageInv, Page!Admit, Page!End, Page!Forget, Page!Snapshots
<1>1. PageShapes'
  BY DEF PageShapes
<1>2. \A k \in Records : /\ server[k] # "none" => server'[k] # "none"
                         /\ server'[k] = "active" => server[k] \in {"none", "active"}
  BY DEF PageShapes
<1>3. UNCHANGED <<shown, ids, call>>
  OBVIOUS
<1>4. AnswersFit'
  BY <1>2, <1>3 DEF AnswersFit, FitsServer
<1>5. ShownExists' /\ ActiveIsPolled'
  BY <1>2, <1>3 DEF ShownExists, ActiveIsPolled, Page!ActiveIsPolled
<1> QED
  BY <1>1, <1>4, <1>5

(* The answer is taken from the records as they are. *)
LEMMA AnswerStep ==
  ASSUME PageInv, NEW c \in Calls, Page!Answer(c)
  PROVE  PageInv'
<1> DEFINE S == IF call[c].asks = "list" THEN Page!Kept ELSE call[c].asked \cap Page!Kept
<1>1. UNCHANGED <<server, shown, ids>> /\ DOMAIN call' = DOMAIN call
  BY DEF Page!Answer
<1>2. call'[c].stage = "answered" /\ call'[c].answer = Page!Snapshot(S)
  BY DEF Page!Answer, PageInv, PageShapes
<1>3. S \subseteq Page!Kept
  OBVIOUS
<1> HIDE DEF S
<1>4. \A i \in DOMAIN call'[c].answer : FitsServer(i, call'[c].answer[i])
  BY <1>2, <1>3 DEF Page!Snapshot, Page!Kept, Page!Snapshots, FitsServer
<1>5. \A d \in Calls : d # c => call'[d] = call[d]
  BY DEF Page!Answer, PageInv, PageShapes
<1>6. AnswersFit'
  BY <1>1, <1>4, <1>5 DEF PageInv, AnswersFit, FitsServer
<1> QED
  BY <1>1, <1>6 DEF PageInv, PageShapes, ShownExists, ActiveIsPolled, Page!ActiveIsPolled

(* Calls that begin, or end without an answer, change nothing that is shown. *)
LEMMA CallStep ==
  ASSUME PageInv, NEW c \in Calls, Page!Fetch(c) \/ Page!Poll(c) \/ Page!Fail(c)
  PROVE  PageInv'
<1>1. UNCHANGED <<server, shown, ids>> /\ DOMAIN call' = DOMAIN call
  BY DEF Page!Fetch, Page!Poll, Page!Fail
<1>2. call'[c].stage # "answered" /\ \A d \in Calls : d # c => call'[d] = call[d]
  BY DEF Page!Fetch, Page!Poll, Page!Fail, Page!Idle, PageInv, PageShapes
<1>3. AnswersFit'
  BY <1>1, <1>2 DEF PageInv, AnswersFit, FitsServer
<1> QED
  BY <1>1, <1>3 DEF PageInv, PageShapes, ShownExists, ActiveIsPolled, Page!ActiveIsPolled

(* A list lists, and snapshots leave in the list, whatever has not ended. *)
LEMMA ReceiveStep ==
  ASSUME PageInv, NEW c \in Calls, Page!Receive(c)
  PROVE  PageInv'
<1>1. UNCHANGED server /\ DOMAIN call' = DOMAIN call
  BY DEF Page!Receive
<1>2. call'[c].stage # "answered" /\ \A d \in Calls : d # c => call'[d] = call[d]
  BY DEF Page!Receive, Page!Idle, PageInv, PageShapes
<1>3. AnswersFit'
  BY <1>1, <1>2 DEF PageInv, AnswersFit, FitsServer
<1>4. PICK answer : answer = call[c].answer
  OBVIOUS
<1>5. \A i \in DOMAIN answer : FitsServer(i, answer[i])
  BY <1>4 DEF Page!Receive, PageInv, AnswersFit
<1>6. CASE call[c].asks = "list"
  <2>1. shown' = answer /\ ids' = {i \in DOMAIN answer : answer[i] # "ended"}
    BY <1>4, <1>6 DEF Page!Receive, Page!ShowList
  <2>2. ShownExists' /\ ActiveIsPolled'
    BY <1>1, <1>5, <2>1 DEF ShownExists, ActiveIsPolled, Page!ActiveIsPolled, FitsServer
  <2> QED
    BY <1>1, <1>3, <2>2 DEF PageInv, PageShapes
<1>7. CASE call[c].asks # "list"
  <2>1. /\ DOMAIN shown' = DOMAIN shown
        /\ ids' = {i \in ids : i \notin DOMAIN answer \/ answer[i] # "ended"}
    BY <1>4, <1>7 DEF Page!Receive, Page!ShowSnapshots
  <2>2. ShownExists' /\ ActiveIsPolled'
    BY <1>1, <1>5, <2>1 DEF PageInv, ShownExists, ActiveIsPolled, Page!ActiveIsPolled, FitsServer
  <2> QED
    BY <1>1, <1>3, <2>2 DEF PageInv, PageShapes
<1> QED
  BY <1>6, <1>7

(* What the page shows and the server still runs is polled, in whatever order
   lists and snapshots were answered and applied, and whichever got lost. *)
THEOREM ActiveIsPolledCorrect == Page!SafeSpec => []ActiveIsPolled
<1>1. PageInv /\ [Page!Next]_(Page!vars) => PageInv'
  <2> SUFFICES ASSUME PageInv, [Page!Next]_(Page!vars) PROVE PageInv'
    OBVIOUS
  <2>1. CASE UNCHANGED Page!vars
    BY <2>1 DEF Page!vars, PageInv, PageShapes, AnswersFit, FitsServer, ShownExists,
      ActiveIsPolled, Page!ActiveIsPolled
  <2>2. CASE Page!Next
    BY <2>2, ServerStep, AnswerStep, CallStep, ReceiveStep DEF Page!Next
  <2> QED
    BY <2>1, <2>2
<1>2. PageInv => ActiveIsPolled
  BY DEF PageInv
<1> QED
  BY <1>1, <1>2, PageInit, PTL DEF Page!SafeSpec

--------------------------------------------------------------------------------
(* Types of the page. *)
CallOK(x) ==
  \/ x = Page!Idle
  \/ x \in [stage : {"sent"}, asks : {"list", "poll"}, asked : SUBSET Records]
  \/ x \in [stage : {"answered"}, asks : {"list", "poll"}, answer : Page!Answers]

PageTyped == Page!TypeOK /\ DOMAIN call = Calls

LEMMA CallParts ==
  ASSUME NEW x, CallOK(x)
  PROVE  /\ x.stage = "sent" => x.asks \in {"list", "poll"} /\ x.asked \subseteq Records
         /\ x.stage = "answered" => x.asks \in {"list", "poll"} /\ x.answer \in Page!Answers
BY DEF CallOK, Page!Idle

(* A step of one call, of which all else is typed. *)
LEMMA CallTyped ==
  ASSUME PageTyped, NEW c \in Calls, NEW x, CallOK(x), call' = [call EXCEPT ![c] = x],
         UNCHANGED server, shown' \in Page!Answers, ids' \subseteq Records
  PROVE  PageTyped'
<1>1. \A d \in Calls : CallOK(call'[d])
  BY DEF PageTyped, Page!TypeOK, CallOK
<1> QED
  BY <1>1 DEF PageTyped, Page!TypeOK, CallOK

LEMMA PageTypedNext == PageTyped /\ [Page!Next]_(Page!vars) => PageTyped'
<1> SUFFICES ASSUME PageTyped, [Page!Next]_(Page!vars) PROVE PageTyped'
  OBVIOUS
<1>1. /\ server \in [Records -> {"none", "active", "ended", "removed"}]
      /\ shown \in Page!Answers /\ ids \subseteq Records
  BY DEF PageTyped, Page!TypeOK
<1>2. \A c \in Calls : CallOK(call[c])
  BY DEF PageTyped, Page!TypeOK, CallOK
<1>3. CASE UNCHANGED Page!vars
  BY <1>3 DEF Page!vars, PageTyped, Page!TypeOK
<1>4. ASSUME NEW i \in Records, Page!Admit(i) \/ Page!End(i) \/ Page!Forget(i)
      PROVE  PageTyped'
  BY <1>4 DEF Page!Admit, Page!End, Page!Forget, PageTyped, Page!TypeOK
<1>5. ASSUME NEW c \in Calls, Page!Fetch(c) \/ Page!Poll(c)
      PROVE  PageTyped'
  <2>1. Page!Asked \subseteq Records /\ {} \subseteq Records
    BY <1>1 DEF Page!Asked, Page!Newest
  <2>2. PICK x \in {[stage |-> "sent", asks |-> "list", asked |-> {}],
                    [stage |-> "sent", asks |-> "poll", asked |-> Page!Asked]} :
          call' = [call EXCEPT ![c] = x]
    BY <1>5 DEF Page!Fetch, Page!Poll
  <2>3. CallOK(x)
    BY <2>1, <2>2 DEF CallOK
  <2>4. UNCHANGED <<server, shown, ids>>
    BY <1>5 DEF Page!Fetch, Page!Poll
  <2> QED
    BY <1>1, <2>2, <2>3, <2>4, CallTyped
<1>6. ASSUME NEW c \in Calls, Page!Answer(c)
      PROVE  PageTyped'
  <2> DEFINE S == IF call[c].asks = "list" THEN Page!Kept ELSE call[c].asked \cap Page!Kept
  <2>1. S \subseteq Page!Kept
    OBVIOUS
  <2>2. call' = [call EXCEPT ![c] = [stage |-> "answered", asks |-> call[c].asks,
                                     answer |-> Page!Snapshot(S)]]
    BY <1>6 DEF Page!Answer
  <2> HIDE DEF S
  <2>3. Page!Snapshot(S) \in [S -> Page!Snapshots] /\ S \in SUBSET Records
    BY <2>1 DEF Page!Snapshot, Page!Kept
  <2>4. Page!Snapshot(S) \in Page!Answers
    BY <2>3 DEF Page!Answers
  <2>5. call[c].asks \in {"list", "poll"}
    BY <1>2, <1>6, CallParts DEF Page!Answer
  <2>6. CallOK([stage |-> "answered", asks |-> call[c].asks, answer |-> Page!Snapshot(S)])
    BY <2>4, <2>5 DEF CallOK
  <2>7. UNCHANGED <<server, shown, ids>>
    BY <1>6 DEF Page!Answer
  <2> QED
    BY <1>1, <2>2, <2>6, <2>7, CallTyped
<1>7. ASSUME NEW c \in Calls, Page!Receive(c)
      PROVE  PageTyped'
  <2>1. PICK answer \in Page!Answers : answer = call[c].answer
    BY <1>2, <1>7, CallParts DEF Page!Receive
  <2>2. \A f \in Page!Answers : DOMAIN f \subseteq Records /\ \A i \in DOMAIN f : f[i] \in Page!Snapshots
    BY DEF Page!Answers
  <2>3. shown' \in Page!Answers /\ ids' \subseteq Records
    <3>1. CASE call[c].asks = "list"
      BY <1>7, <2>1, <2>2, <3>1 DEF Page!Receive, Page!ShowList
    <3>2. CASE call[c].asks # "list"
      <4>1. /\ shown' = [i \in DOMAIN shown |-> IF i \in DOMAIN answer THEN answer[i] ELSE shown[i]]
            /\ ids' \subseteq ids
        BY <1>7, <2>1, <3>2 DEF Page!Receive, Page!ShowSnapshots
      <4>2. shown' \in [DOMAIN shown -> Page!Snapshots]
        BY <1>1, <2>2, <4>1
      <4> QED
        BY <1>1, <2>2, <4>1, <4>2 DEF Page!Answers
    <3> QED
      BY <3>1, <3>2
  <2>4. call' = [call EXCEPT ![c] = Page!Idle] /\ UNCHANGED server
    BY <1>7 DEF Page!Receive
  <2>5. CallOK(Page!Idle)
    BY DEF CallOK
  <2> QED
    BY <2>3, <2>4, <2>5, CallTyped
<1>8. ASSUME NEW c \in Calls, Page!Fail(c)
      PROVE  PageTyped'
  <2>1. call' = [call EXCEPT ![c] = Page!Idle] /\ UNCHANGED <<server, shown, ids>>
    BY <1>8 DEF Page!Fail
  <2>2. CallOK(Page!Idle)
    BY DEF CallOK
  <2> QED
    BY <1>1, <2>1, <2>2, CallTyped
<1> QED
  BY <1>3, <1>4, <1>5, <1>6, <1>7, <1>8 DEF Page!Next

(* What the page shows, polls and waits for keeps its types, for any records and any
   number of calls that overlap, fail and are answered in any order. *)
THEOREM PageTypeCorrect == Page!SafeSpec => []Page!TypeOK
<1>1. Page!Init => PageTyped
  <2> SUFFICES ASSUME Page!Init PROVE PageTyped
    OBVIOUS
  <2>1. shown \in [{} -> Page!Snapshots]
    BY DEF Page!Init
  <2>2. shown \in Page!Answers
    BY <2>1 DEF Page!Answers
  <2> QED
    BY <2>2 DEF Page!Init, PageTyped, Page!TypeOK
<1>2. PageTyped => Page!TypeOK
  BY DEF PageTyped
<1> QED
  BY <1>1, <1>2, PageTypedNext, PTL DEF Page!SafeSpec

--------------------------------------------------------------------------------
(* A page that makes one call at a time: an answer is about records it still polls. *)
InOrder(c) ==
  /\ DOMAIN call = Calls
  /\ call[c].stage = "sent" => call[c].asks = "list" \/ call[c].asked \subseteq ids
  /\ call[c].stage = "answered" => call[c].asks = "list" \/ DOMAIN call[c].answer \subseteq ids
  /\ Page!RunningIsPolled

LEMMA InOrderStep ==
  ASSUME NEW c, Calls = {c}, InOrder(c), [Page!Next]_(Page!vars)
  PROVE  InOrder(c)'
<1> USE DEF InOrder
<1>1. CASE UNCHANGED Page!vars
  BY <1>1 DEF Page!vars, Page!RunningIsPolled
<1>2. ASSUME NEW i \in Records, Page!Admit(i) \/ Page!End(i) \/ Page!Forget(i)
      PROVE  InOrder(c)'
  BY <1>2 DEF Page!Admit, Page!End, Page!Forget, Page!RunningIsPolled
<1>3. CASE Page!Fetch(c) \/ Page!Fail(c)
  BY <1>3 DEF Page!Fetch, Page!Fail, Page!Idle, Page!RunningIsPolled
<1>4. CASE Page!Poll(c)
  BY <1>4 DEF Page!Poll, Page!Asked, Page!Newest, Page!RunningIsPolled
<1>5. CASE Page!Answer(c)
  BY <1>5 DEF Page!Answer, Page!Snapshot, Page!RunningIsPolled
<1>6. CASE Page!Receive(c)
  <2>1. call'[c] = Page!Idle /\ DOMAIN call' = Calls
    BY <1>6 DEF Page!Receive
  <2>2. PICK answer : answer = call[c].answer
    OBVIOUS
  <2>3. CASE call[c].asks = "list"
    <3>1. shown' = answer /\ ids' = {i \in DOMAIN answer : answer[i] # "ended"}
      BY <1>6, <2>2, <2>3 DEF Page!Receive, Page!ShowList
    <3> QED
      BY <2>1, <3>1 DEF Page!Idle, Page!RunningIsPolled
  <2>4. CASE call[c].asks # "list"
    <3>1. /\ shown' = [i \in DOMAIN shown |-> IF i \in DOMAIN answer THEN answer[i] ELSE shown[i]]
          /\ ids' = {i \in ids : i \notin DOMAIN answer \/ answer[i] # "ended"}
          /\ DOMAIN answer \subseteq ids
      BY <1>6, <2>2, <2>4 DEF Page!Receive, Page!ShowSnapshots
    <3> QED
      BY <2>1, <3>1 DEF Page!Idle, Page!RunningIsPolled
  <2> QED
    BY <2>3, <2>4
<1> QED
  BY <1>1, <1>2, <1>3, <1>4, <1>5, <1>6 DEF Page!Next

(* What a page without overlapping calls shows as running it polls, for any records and
   whatever fails: only the overlap makes it show an end as running for good
   (useDownloads.js:42-53). *)
THEOREM RunningIsPolledInOrder ==
  ASSUME NEW c, Calls = {c}
  PROVE  Page!SafeSpec => []Page!RunningIsPolled
<1>1. Page!Init => InOrder(c)
  BY DEF Page!Init, Page!Idle, InOrder, Page!RunningIsPolled
<1>2. InOrder(c) => Page!RunningIsPolled
  BY DEF InOrder
<1>3. InOrder(c) /\ [Page!Next]_(Page!vars) => InOrder(c)'
  BY InOrderStep
<1> QED
  BY <1>1, <1>2, <1>3, PTL DEF Page!SafeSpec
================================================================================
