---------------------------- MODULE Services_proofs ----------------------------
(***************************************************************************)
(* Proofs about services that every request goes through.                  *)
(*                                                                         *)
(* The network guard, for any set of tunnels: none carries data once the    *)
(* guard has closed, a handler that has left leaves nothing, and a tunnel   *)
(* between two sides that talk is not cut.                                 *)
(*                                                                         *)
(* The programs run for an answer, for any number of requests, slots and    *)
(* probes: nothing of them is alive outside the call that started them, and *)
(* there are never more than the slots and the mutex allow.                *)
(***************************************************************************)
EXTENDS MCServices, FiniteSetTheorems, TLAPS

LEMMA Pairs ==
  /\ \A e : e \in Tunnels \X Sides <=> \E u \in Tunnels : e = <<u, "client">> \/ e = <<u, "upstream">>
  /\ \A e : e \in Tunnels \X Directions <=>
              \E u \in Tunnels : e = <<u, "forward">> \/ e = <<u, "backward">>
  /\ \A t, e : e \in Both(t) <=> e = <<t, "client">> \/ e = <<t, "upstream">>
BY DEF Sides, Directions, Both

--------------------------------------------------------------------------------
(* The variables hold values of their types in every reachable state. *)
THEOREM GuardTypeCorrect == GuardSpec => []GuardTypeOK
<1>1. GuardInit => GuardTypeOK
  BY DEF GuardInit, GuardTypeOK
<1>2. GuardTypeOK /\ [GuardNext]_guardVars => GuardTypeOK'
  <2> SUFFICES ASSUME GuardTypeOK, [GuardNext]_guardVars PROVE GuardTypeOK'
    OBVIOUS
  <2> USE DEF GuardTypeOK
  <2>1. ASSUME NEW t \in Tunnels, Accept(t) \/ CloseUpstream(t) PROVE GuardTypeOK'
    BY <2>1 DEF Accept, CloseUpstream, Close
  <2>2. ASSUME NEW t \in Tunnels, Handle(t) PROVE GuardTypeOK'
    <3>1. CASE Dial(t) \/ Hijack(t)
      BY <3>1 DEF Dial, Hijack, Sides
    <3>2. CASE Register(t)
      BY <3>2 DEF Register, Both, Registered
    <3>3. CASE Unregister(t) \/ Leave(t)
      BY <3>3 DEF Unregister, Leave, Close
    <3>4. CASE Greet(t)
      <4>1. handler' \in [Tunnels -> {"none", "dialing", "dialed", "hijacked", "leaving", "left"}
                                       \cup Registered]
        BY <3>4 DEF Greet, Registered
      <4>2. copy' \in [Tunnels \X Directions -> {"none", "reading", "writing", "ended", "done"}]
        BY <3>4 DEF Greet
      <4> QED
        BY <3>4, <4>1, <4>2 DEF Greet
    <3>5. CASE CloseClient(t) \/ AwaitForward(t)
      BY <3>5 DEF CloseClient, AwaitForward, Close, Registered
    <3> QED
      BY <2>2, <3>1, <3>2, <3>3, <3>4, <3>5 DEF Handle
  <2>3. ASSUME NEW t \in Tunnels, NEW d \in Directions, Receive(t, d) \/ Send(t, d) \/ EndCopy(t, d)
        PROVE  GuardTypeOK'
    BY <2>3 DEF Receive, Send, EndCopy
  <2>4. ASSUME NEW t \in Tunnels, NEW s \in Sides, HangUp(t, s) PROVE GuardTypeOK'
    BY <2>4 DEF HangUp
  <2>5. CASE CloseTunnels \/ CloseServer
    BY <2>5 DEF CloseTunnels, CloseServer, Close
  <2>6. CASE UNCHANGED guardVars
    BY <2>6 DEF guardVars
  <2> QED
    BY <2>1, <2>2, <2>3, <2>4, <2>5, <2>6 DEF GuardNext
<1> QED
  BY <1>1, <1>2, PTL DEF GuardSpec

--------------------------------------------------------------------------------
(* The inductive invariant.  The table holds the tunnels whose handler has
   registered and not yet unregistered; where a handler stands tells which
   connections are open and how far its copies are. *)
Open(t, s) == <<t, s>> \in open
Listed(t, s) == <<t, s>> \in tunnels
Talk(t) == peer[<<t, "client">>] = "talks" /\ peer[<<t, "upstream">>] = "talks"

Table(t) ==
  /\ Listed(t, "client") <=> handler[t] \in Registered
  /\ Listed(t, "upstream") <=> handler[t] \in Registered

Quiet(t) ==
  closed => ~(Listed(t, "client") /\ Open(t, "client")) /\ ~(Listed(t, "upstream") /\ Open(t, "upstream"))

Ends(t) ==
  /\ handler[t] \in {"none", "dialing", "left"} => ~Open(t, "client") /\ ~Open(t, "upstream")
  /\ handler[t] \in {"dialed", "hijacked"} => Open(t, "upstream")
  /\ handler[t] = "hijacked" => Open(t, "client")
  /\ handler[t] = "greeting" /\ ~closed => Open(t, "client") /\ Open(t, "upstream")
  /\ handler[t] = "copying" /\ ~closed /\ Talk(t) => Open(t, "client") /\ Open(t, "upstream")

Copies(t) ==
  /\ handler[t] \in {"none", "dialing", "dialed", "hijacked", "greeting"} =>
       copy[<<t, "forward">>] = "none" /\ copy[<<t, "backward">>] = "none"
  /\ handler[t] = "copying" =>
       /\ copy[<<t, "forward">>] # "none"
       /\ copy[<<t, "backward">>] \in {"reading", "writing", "ended"}
  /\ handler[t] = "draining" => copy[<<t, "forward">>] # "none" /\ copy[<<t, "backward">>] = "done"
  /\ handler[t] \in {"closing", "leaving", "left"} =>
       \/ copy[<<t, "forward">>] = "none" /\ copy[<<t, "backward">>] = "none"
       \/ copy[<<t, "forward">>] = "done" /\ copy[<<t, "backward">>] = "done"

Alive(t) ==
  handler[t] \in {"copying", "draining"} /\ ~closed /\ Talk(t) =>
    /\ handler[t] = "copying"
    /\ copy[<<t, "forward">>] \in {"reading", "writing"}
    /\ copy[<<t, "backward">>] \in {"reading", "writing"}

Sound(t) == Table(t) /\ Quiet(t) /\ Ends(t) /\ Copies(t) /\ Alive(t)

Inv == \A t \in Tunnels : Sound(t)

LEMMA InitInv == GuardInit => Inv
  BY DEF GuardInit, Inv, Sound, Table, Quiet, Ends, Copies, Alive, Talk, Open, Listed,
         Sides, Directions, Registered

(* What is said of a tunnel depends on the tunnel alone. *)
Untouched(t) ==
  /\ closed' = closed /\ handler'[t] = handler[t]
  /\ Open(t, "client")' = Open(t, "client") /\ Open(t, "upstream")' = Open(t, "upstream")
  /\ Listed(t, "client")' = Listed(t, "client") /\ Listed(t, "upstream")' = Listed(t, "upstream")
  /\ peer'[<<t, "client">>] = peer[<<t, "client">>]
  /\ peer'[<<t, "upstream">>] = peer[<<t, "upstream">>]
  /\ copy'[<<t, "forward">>] = copy[<<t, "forward">>]
  /\ copy'[<<t, "backward">>] = copy[<<t, "backward">>]

LEMMA UntouchedSound ==
  ASSUME NEW t \in Tunnels, Sound(t), Untouched(t)
  PROVE  Sound(t)'
BY DEF Untouched, Sound, Table, Quiet, Ends, Copies, Alive, Talk

(* A step of one tunnel leaves the others alone. *)
LEMMA OthersUntouched ==
  ASSUME GuardTypeOK, NEW t \in Tunnels, NEW u \in Tunnels, u # t,
         \/ Accept(t) \/ Handle(t) \/ CloseUpstream(t)
         \/ \E d \in Directions : Receive(t, d) \/ Send(t, d) \/ EndCopy(t, d)
         \/ \E s \in Sides : HangUp(t, s)
  PROVE  Untouched(u)
<1> USE DEF GuardTypeOK, Untouched, Open, Listed
<1>0. /\ <<u, "client">> \in Tunnels \X Sides /\ <<u, "upstream">> \in Tunnels \X Sides
      /\ <<u, "forward">> \in Tunnels \X Directions /\ <<u, "backward">> \in Tunnels \X Directions
      /\ \A x, y : <<u, x>> # <<t, y>>
      /\ \A x : <<u, x>> \notin Both(t)
  BY Pairs
<1>1. CASE Accept(t) \/ CloseUpstream(t)
  BY <1>0, <1>1 DEF Accept, CloseUpstream, Close
<1>2. CASE Dial(t) \/ Hijack(t)
  BY <1>0, <1>2 DEF Dial, Hijack
<1>3. CASE Register(t)
  BY <1>0, <1>3 DEF Register
<1>4. CASE Unregister(t) \/ Leave(t)
  BY <1>0, <1>4 DEF Unregister, Leave, Close
<1>5. CASE Greet(t)
  BY <1>0, <1>5 DEF Greet
<1>6. CASE CloseClient(t) \/ AwaitForward(t)
  BY <1>0, <1>6 DEF CloseClient, AwaitForward, Close
<1>7. ASSUME NEW d \in Directions, Receive(t, d) \/ Send(t, d) \/ EndCopy(t, d) PROVE Untouched(u)
  BY <1>0, <1>7 DEF Receive, Send, EndCopy
<1>8. ASSUME NEW s \in Sides, HangUp(t, s) PROVE Untouched(u)
  BY <1>0, <1>8 DEF HangUp
<1> QED
  BY <1>1, <1>2, <1>3, <1>4, <1>5, <1>6, <1>7, <1>8 DEF Handle

(* A step of the handler of t, case by case. *)
LEMMA HandlerSound ==
  ASSUME GuardTypeOK, NEW t \in Tunnels, Sound(t), Accept(t) \/ Handle(t)
  PROVE  Sound(t)'
<1> USE DEF GuardTypeOK, Sound, Table, Quiet, Ends, Copies, Alive, Talk, Open, Listed, Registered
<1>0. /\ <<t, "client">> \in Tunnels \X Sides /\ <<t, "upstream">> \in Tunnels \X Sides
      /\ <<t, "forward">> \in Tunnels \X Directions /\ <<t, "backward">> \in Tunnels \X Directions
      /\ <<t, "client">> # <<t, "upstream">> /\ <<t, "forward">> # <<t, "backward">>
      /\ <<t, "client">> \in Both(t) /\ <<t, "upstream">> \in Both(t)
  BY Pairs
<1>1. CASE Accept(t)
  BY <1>1 DEF Accept
<1>2. CASE Dial(t)
  BY <1>0, <1>2 DEF Dial
<1>3. CASE Hijack(t)
  BY <1>0, <1>3 DEF Hijack
<1>4. CASE Register(t)
  BY <1>0, <1>4 DEF Register
<1>5. CASE Greet(t)
  BY <1>0, <1>5 DEF Greet
<1>6. CASE CloseClient(t)
  BY <1>0, <1>6 DEF CloseClient, Close
<1>7. CASE AwaitForward(t)
  BY <1>0, <1>7 DEF AwaitForward
<1>8. CASE Unregister(t)
  BY <1>0, <1>8 DEF Unregister
<1>9. CASE Leave(t)
  BY <1>0, <1>9 DEF Leave, Close
<1> QED
  BY <1>1, <1>2, <1>3, <1>4, <1>5, <1>6, <1>7, <1>8, <1>9 DEF Handle

LEMMA CopySound ==
  ASSUME GuardTypeOK, NEW t \in Tunnels, Sound(t),
         CloseUpstream(t) \/ \E d \in Directions : Receive(t, d) \/ Send(t, d) \/ EndCopy(t, d)
  PROVE  Sound(t)'
<1> USE DEF GuardTypeOK, Sound, Table, Quiet, Ends, Copies, Alive, Talk, Open, Listed, Registered
<1>0. /\ <<t, "forward">> \in Tunnels \X Directions /\ <<t, "backward">> \in Tunnels \X Directions
      /\ <<t, "client">> # <<t, "upstream">> /\ <<t, "forward">> # <<t, "backward">>
  BY Pairs
<1>1. CASE CloseUpstream(t)
  BY <1>0, <1>1 DEF CloseUpstream, Close
<1>2. ASSUME NEW d \in Directions, Receive(t, d) \/ Send(t, d) PROVE Sound(t)'
  BY <1>0, <1>2 DEF Receive, Send, Directions
<1>3. CASE EndCopy(t, "forward")
  BY <1>0, <1>3 DEF EndCopy, Source, Target
<1>4. CASE EndCopy(t, "backward")
  BY <1>0, <1>4 DEF EndCopy, Source, Target
<1> QED
  BY <1>1, <1>2, <1>3, <1>4 DEF Directions

LEMMA HangUpSound ==
  ASSUME GuardTypeOK, NEW t \in Tunnels, Sound(t), NEW s \in Sides, HangUp(t, s)
  PROVE  Sound(t)'
<1>1. Talk(t)' => Talk(t)
  <2>1. <<t, "client">> \in Tunnels \X Sides /\ <<t, "upstream">> \in Tunnels \X Sides
    BY Pairs
  <2> QED
    BY <2>1 DEF HangUp, Talk, Sides, GuardTypeOK
<1> QED
  BY <1>1 DEF HangUp, Sound, Table, Quiet, Ends, Copies, Alive, Open, Listed

(* Guard.Close closes what is in the table, which is what might carry data. *)
LEMMA CloseSound ==
  ASSUME NEW t \in Tunnels, Sound(t), CloseTunnels \/ CloseServer \/ UNCHANGED guardVars
  PROVE  Sound(t)'
<1>1. CASE CloseTunnels
  BY <1>1 DEF CloseTunnels, Close, Sound, Table, Quiet, Ends, Copies, Alive, Open, Listed, Registered
<1>2. CASE CloseServer \/ UNCHANGED guardVars
  BY <1>2 DEF CloseServer, guardVars, Sound, Table, Quiet, Ends, Copies, Alive, Talk, Open, Listed
<1> QED
  BY <1>1, <1>2

LEMMA InvCorrect == GuardSpec => [](GuardTypeOK /\ Inv)
<1>1. GuardTypeOK /\ Inv /\ [GuardNext]_guardVars => Inv'
  <2> SUFFICES ASSUME GuardTypeOK, Inv, [GuardNext]_guardVars, NEW u \in Tunnels PROVE Sound(u)'
    BY DEF Inv
  <2>0. Sound(u)
    BY DEF Inv
  <2>1. ASSUME NEW t \in Tunnels,
               \/ Accept(t) \/ Handle(t) \/ CloseUpstream(t)
               \/ \E d \in Directions : Receive(t, d) \/ Send(t, d) \/ EndCopy(t, d)
               \/ \E s \in Sides : HangUp(t, s)
        PROVE  Sound(u)'
    <3>1. CASE u = t
      BY <2>0, <2>1, <3>1, HandlerSound, CopySound, HangUpSound
    <3>2. CASE u # t
      <4>1. Untouched(u)
        BY <2>1, <3>2, OthersUntouched
      <4> QED
        BY <2>0, <4>1, UntouchedSound
    <3> QED
      BY <3>1, <3>2
  <2>2. CASE CloseTunnels \/ CloseServer \/ UNCHANGED guardVars
    BY <2>0, <2>2, CloseSound
  <2> QED
    BY <2>1, <2>2 DEF GuardNext
<1> QED
  BY <1>1, InitInv, GuardTypeCorrect, PTL DEF GuardSpec

--------------------------------------------------------------------------------
(* Once Guard.Close has released the lock no tunnel carries data, and a handler that
   has left leaves no connection, no entry of the table and no copy (guard.go:122-131,
   181-212). *)
THEOREM NothingOutlivesCorrect == GuardSpec => []NothingOutlives
<1>1. GuardTypeOK /\ Inv => ClosedCarriesNothing
  <2> SUFFICES ASSUME GuardTypeOK, Inv, closed, NEW e \in open PROVE handler[e[1]] \notin Registered
    BY DEF ClosedCarriesNothing
  <2>1. PICK u \in Tunnels : e = <<u, "client">> \/ e = <<u, "upstream">>
    BY Pairs DEF GuardTypeOK
  <2>2. Table(u) /\ Quiet(u) /\ e[1] = u
    BY <2>1 DEF Inv, Sound
  <2> QED
    BY <2>1, <2>2 DEF Table, Quiet, Open, Listed
<1>2. GuardTypeOK /\ Inv => LeftIsClean
  <2> SUFFICES ASSUME GuardTypeOK, Inv, NEW t \in Tunnels, handler[t] = "left"
               PROVE  /\ Both(t) \cap (open \cup tunnels) = {}
                      /\ \A d \in Directions : copy[<<t, d>>] \in {"none", "done"}
    BY DEF LeftIsClean
  <2>1. Table(t) /\ Ends(t) /\ Copies(t)
    BY DEF Inv, Sound
  <2>2. Both(t) \cap (open \cup tunnels) = {}
    BY <2>1, Pairs DEF Table, Ends, Open, Listed, Registered
  <2>3. \A d \in Directions : copy[<<t, d>>] \in {"none", "done"}
    BY <2>1 DEF Copies, Directions
  <2> QED
    BY <2>2, <2>3
<1> QED
  BY <1>1, <1>2, InvCorrect, PTL DEF NothingOutlives

(* While the guard is open, a tunnel between two sides that talk keeps both its
   connections, whichever goroutine runs first (guard.go:207-211). *)
THEOREM LiveTunnelsStayCorrect == GuardSpec => []LiveTunnelsStay
<1>1. GuardTypeOK /\ Inv => LiveTunnelsStay
  <2> SUFFICES ASSUME GuardTypeOK, Inv, NEW t \in Tunnels, handler[t] \in {"copying", "draining"}, ~closed,
                      \A s \in Sides : peer[<<t, s>>] = "talks"
               PROVE  handler[t] = "copying" /\ Both(t) \subseteq open
    BY DEF LiveTunnelsStay
  <2>1. Ends(t) /\ Alive(t) /\ Talk(t)
    BY DEF Inv, Sound, Talk, Sides
  <2> QED
    BY <2>1, Pairs DEF Ends, Alive, Open
<1> QED
  BY <1>1, InvCorrect, PTL

--------------------------------------------------------------------------------
(* The programs run for an answer.  A slot is held from admission to the answer
   and the mutex from the first probe to the report; a program is alive only
   inside the call of Output that runs it. *)
AnswersFor == {h \in Infos : at[h] \in {"validating", "querying", "leaving"}}

SlotsCounted ==
  /\ IsFiniteSet(AnswersFor)
  /\ slots = Cardinality(AnswersFor)

KindsApart ==
  /\ \A h \in Infos : at[h] \notin {"waiting", "probing"}
  /\ \A h \in Checks : at[h] \in {"none", "waiting", "probing", "answered"}

ProberHoldsMutex == \A h \in Checks : at[h] = "probing" => healthMu = h

AliveInOutput ==
  \A h \in Processes!Handlers : program[h] \in Processes!Live => at[h] \in Processes!InOutput

ProcessInv ==
  Processes!TypeOK /\ SlotsCounted /\ KindsApart /\ ProberHoldsMutex /\ AliveInOutput

processNames == <<at, program, ctxDone, cut, slots, healthMu, cached, left>>

LEMMA ProcessInit == Processes!Init => ProcessInv
<1> SUFFICES ASSUME Processes!Init PROVE ProcessInv
  OBVIOUS
<1> USE HandlersAssumption DEF HandlersAssumption, Processes!Init
<1>0. MaxInfo \in Nat /\ Probes \in Nat
  OBVIOUS
<1>1. Processes!TypeOK
  <2>1. slots \in 0 .. MaxInfo /\ left \in 0 .. Probes
    BY <1>0
  <2>2. healthMu \in Checks \cup {Processes!Nobody} /\ cached \in BOOLEAN
    OBVIOUS
  <2>3. ctxDone \subseteq Processes!Handlers /\ cut \subseteq Processes!Handlers
    OBVIOUS
  <2>4. /\ at \in [Processes!Handlers ->
                   {"none", "validating", "waiting", "leaving", "answered"} \cup Processes!InOutput]
        /\ program \in [Processes!Handlers -> {"none", "dead", "returned"} \cup Processes!Live]
    OBVIOUS
  <2> QED
    BY <2>1, <2>2, <2>3, <2>4 DEF Processes!TypeOK
<1>2. AnswersFor = {}
  BY DEF AnswersFor, Processes!Handlers
<1>3. SlotsCounted
  BY <1>2, FS_EmptySet DEF SlotsCounted
<1>4. KindsApart /\ ProberHoldsMutex /\ AliveInOutput
  BY DEF Processes!Handlers, KindsApart, ProberHoldsMutex, AliveInOutput, Processes!Live
<1> QED
  BY <1>1, <1>3, <1>4 DEF ProcessInv

(* A request that leaves gives back a slot that is there. *)
LEMMA SlotThere ==
  ASSUME SlotsCounted, NEW h \in AnswersFor
  PROVE  slots \in Nat \ {0}
BY FS_CardinalityType, FS_EmptySet DEF SlotsCounted

LEMMA SlotsFrame ==
  ASSUME SlotsCounted, UNCHANGED slots, UNCHANGED AnswersFor
  PROVE  SlotsCounted'
BY DEF SlotsCounted

(* What process.Output does to the group it runs. *)
LEMMA OutputStep ==
  ASSUME ProcessInv, NEW h \in Processes!Handlers, Processes!Output(h)
  PROVE  ProcessInv'
<1> USE DEF Processes!Output, Processes!Start, Processes!Exit, Processes!Overflow, Processes!Kill,
  Processes!Return, Processes!Becomes, Processes!others, ProcessInv
<1>1. UNCHANGED <<at, slots, healthMu>>
  OBVIOUS
<1>2. Processes!TypeOK'
  BY DEF Processes!TypeOK, Processes!Live
<1>3. AliveInOutput'
  BY DEF AliveInOutput, Processes!TypeOK, Processes!Live, Processes!Calling
<1>4. SlotsCounted' /\ KindsApart' /\ ProberHoldsMutex'
  BY <1>1, SlotsFrame DEF AnswersFor, KindsApart, ProberHoldsMutex
<1> QED
  BY <1>2, <1>3, <1>4

LEMMA InfoStep ==
  ASSUME ProcessInv, NEW h \in Infos, Processes!Admit(h) \/ Processes!Advance(h)
  PROVE  ProcessInv'
<1> USE HandlersAssumption DEF HandlersAssumption, ProcessInv, Processes!Handlers, Processes!Goto, Processes!others
<1>1. CASE Processes!Admit(h)
  <2>1. SlotsCounted' /\ slots' \in 0 .. MaxInfo
    <3>1. CASE slots < MaxInfo
      <4>1. AnswersFor' = AnswersFor \cup {h} /\ h \notin AnswersFor
        BY <1>1, <3>1 DEF Processes!Admit, AnswersFor, Processes!TypeOK
      <4>2. IsFiniteSet(AnswersFor') /\ Cardinality(AnswersFor') = Cardinality(AnswersFor) + 1
        BY <4>1, FS_AddElement DEF SlotsCounted
      <4> QED
        BY <1>1, <3>1, <4>2 DEF Processes!Admit, SlotsCounted, Processes!TypeOK
    <3>2. CASE ~(slots < MaxInfo)
      <4>1. AnswersFor' = AnswersFor /\ UNCHANGED slots
        BY <1>1, <3>2 DEF Processes!Admit, AnswersFor, Processes!TypeOK
      <4> QED
        BY <4>1, SlotsFrame DEF Processes!TypeOK
    <3> QED
      BY <3>1, <3>2
  <2>2. Processes!TypeOK'
    BY <1>1, <2>1 DEF Processes!Admit, Processes!TypeOK
  <2>3. KindsApart' /\ ProberHoldsMutex' /\ AliveInOutput'
    BY <1>1 DEF Processes!Admit, Processes!TypeOK, KindsApart, ProberHoldsMutex, AliveInOutput,
      Processes!InOutput
  <2> QED
    BY <2>1, <2>2, <2>3
<1>2. CASE Processes!Validate(h) \/ Processes!AnswerInfo(h)
  <2>1. AnswersFor' = AnswersFor /\ UNCHANGED slots
    BY <1>2 DEF Processes!Validate, Processes!AnswerInfo, AnswersFor, Processes!TypeOK
  <2>2. Processes!TypeOK'
    BY <1>2 DEF Processes!Validate, Processes!AnswerInfo, Processes!TypeOK, Processes!InOutput
  <2>3. KindsApart' /\ ProberHoldsMutex' /\ AliveInOutput'
    BY <1>2 DEF Processes!Validate, Processes!AnswerInfo, Processes!TypeOK, KindsApart,
      ProberHoldsMutex, AliveInOutput, Processes!InOutput, Processes!Live
  <2> QED
    BY <2>1, <2>2, <2>3, SlotsFrame
<1>3. CASE Processes!ReleaseSlot(h)
  <2>1. AnswersFor' = AnswersFor \ {h} /\ h \in AnswersFor
    BY <1>3 DEF Processes!ReleaseSlot, AnswersFor, Processes!TypeOK
  <2>2. IsFiniteSet(AnswersFor') /\ Cardinality(AnswersFor') = Cardinality(AnswersFor) - 1
    BY <2>1, FS_RemoveElement DEF SlotsCounted
  <2>3. SlotsCounted'
    BY <1>3, <2>2 DEF Processes!ReleaseSlot, SlotsCounted
  <2>4. Processes!TypeOK'
    BY <1>3, <2>1, SlotThere DEF Processes!ReleaseSlot, Processes!TypeOK
  <2>5. KindsApart' /\ ProberHoldsMutex' /\ AliveInOutput'
    BY <1>3 DEF Processes!ReleaseSlot, Processes!TypeOK, KindsApart, ProberHoldsMutex,
      AliveInOutput, Processes!InOutput
  <2> QED
    BY <2>3, <2>4, <2>5
<1> QED
  BY <1>1, <1>2, <1>3 DEF Processes!Advance

LEMMA CheckStep ==
  ASSUME ProcessInv, NEW h \in Checks,
         \/ Processes!AskHealth(h) \/ Processes!Lock(h) \/ Processes!NextProbe(h)
         \/ Processes!Report(h) \/ Processes!LeaveEarly(h) \/ Processes!ExpireProbe(h)
  PROVE  ProcessInv'
<1> USE HandlersAssumption DEF HandlersAssumption, ProcessInv, Processes!Handlers, Processes!Goto, Processes!others,
  Processes!AskHealth, Processes!Lock, Processes!NextProbe, Processes!Report,
  Processes!LeaveEarly, Processes!ExpireProbe, Processes!Becomes
<1>1. AnswersFor' = AnswersFor /\ UNCHANGED slots
  BY DEF AnswersFor, Processes!TypeOK
<1>2. Processes!TypeOK'
  <2>1. at' \in [Processes!Handlers ->
                   {"none", "validating", "waiting", "leaving", "answered"} \cup Processes!InOutput]
    BY DEF Processes!TypeOK, Processes!InOutput
  <2>2. program' \in [Processes!Handlers -> {"none", "dead", "returned"} \cup Processes!Live]
    BY DEF Processes!TypeOK
  <2>3. ctxDone' \subseteq Processes!Handlers /\ cut' \subseteq Processes!Handlers
    BY DEF Processes!TypeOK
  <2>4. healthMu' \in Checks \cup {Processes!Nobody} /\ cached' \in BOOLEAN
    BY DEF Processes!TypeOK
  <2>5. left' \in 0 .. Probes
    BY DEF Processes!TypeOK
  <2> QED
    BY <1>1, <2>1, <2>2, <2>3, <2>4, <2>5 DEF Processes!TypeOK
<1>3. KindsApart'
  BY DEF KindsApart, Processes!TypeOK
<1>4. ProberHoldsMutex'
  BY DEF ProberHoldsMutex, Processes!TypeOK, Processes!Nobody
<1>5. AliveInOutput'
  BY DEF AliveInOutput, Processes!TypeOK, Processes!InOutput, Processes!Live, KindsApart
<1> QED
  BY <1>1, <1>2, <1>3, <1>4, <1>5, SlotsFrame


LEMMA ProcessStep == ProcessInv /\ [Processes!Next]_processNames => ProcessInv'
<1> SUFFICES ASSUME ProcessInv, [Processes!Next]_processNames PROVE ProcessInv'
  OBVIOUS
<1>1. ASSUME UNCHANGED <<at, program, slots, healthMu, left>>, Processes!TypeOK' PROVE ProcessInv'
  BY <1>1 DEF ProcessInv, SlotsCounted, AnswersFor, KindsApart, ProberHoldsMutex, AliveInOutput
<1>2. ASSUME NEW h \in Processes!Handlers, Processes!Expire(h) PROVE ProcessInv'
  <2>1. Processes!TypeOK'
    BY <1>2 DEF ProcessInv, Processes!TypeOK, Processes!Expire, Processes!others
  <2> QED
    BY <1>1, <1>2, <2>1 DEF Processes!Expire, Processes!others
<1>3. ASSUME Processes!ExpireCache \/ UNCHANGED processNames PROVE ProcessInv'
  <2>1. Processes!TypeOK'
    BY <1>3 DEF ProcessInv, Processes!TypeOK, Processes!ExpireCache, processNames
  <2> QED
    BY <1>1, <1>3, <2>1 DEF Processes!ExpireCache, processNames
<1> QED
  BY <1>2, <1>3, OutputStep, InfoStep, CheckStep DEF Processes!Next

LEMMA ProcessInvCorrect ==
  Processes!Init /\ [][Processes!Next]_processNames => []ProcessInv
BY ProcessInit, ProcessStep, PTL

(* Every variable of the handlers keeps its type: no slot is given back that was
   not taken, and no report makes more probes than there are. *)
THEOREM ProcessTypeCorrect == Processes!Spec => []Processes!TypeOK
<1>1. Processes!Spec => Processes!Init /\ [][Processes!Next]_processNames
  BY DEF Processes!Spec, Processes!vars, processNames
<1>2. ProcessInv => Processes!TypeOK
  BY DEF ProcessInv
<1> QED
  BY <1>1, <1>2, ProcessInvCorrect, PTL

(* Nothing of a program is alive once the call that runs it has returned, and
   never are there more than InfoSlots for metadata and one for health, for any
   number of requests, slots and probes. *)
THEOREM TreesAreBoundedCorrect == Processes!Spec => []TreesAreBounded
<1>1. Processes!Spec => Processes!Init /\ [][Processes!Next]_processNames
  BY DEF Processes!Spec, Processes!vars, processNames
<1>2. ASSUME ProcessInv PROVE TreesAreBounded
  <2> USE <1>2, HandlersAssumption DEF HandlersAssumption, ProcessInv, Processes!Handlers
  <2>1. \A h \in Processes!Alive : Processes!Calling(h)
    BY DEF Processes!Alive, Processes!Calling, AliveInOutput, Processes!Live
  <2>2. Processes!Cardinality(Processes!Alive \cap Infos) <= MaxInfo
    <3>1. Processes!Alive \cap Infos \subseteq AnswersFor
      BY DEF Processes!Alive, AnswersFor, AliveInOutput, KindsApart, Processes!InOutput
    <3>2. Cardinality(Processes!Alive \cap Infos) <= Cardinality(AnswersFor)
      BY <3>1, FS_Subset DEF SlotsCounted
    <3>3. Cardinality(AnswersFor) <= MaxInfo /\ Cardinality(AnswersFor) \in Nat
      BY DEF SlotsCounted, Processes!TypeOK
    <3>4. Cardinality(Processes!Alive \cap Infos) \in Nat
      BY <3>1, FS_Subset, FS_CardinalityType DEF SlotsCounted
    <3> QED
      BY <3>2, <3>3, <3>4 DEF Processes!Cardinality, Cardinality
  <2>3. Processes!Cardinality(Processes!Alive \cap Checks) <= 1
    <3>1. Processes!Alive \cap Checks \subseteq {healthMu}
      BY DEF Processes!Alive, AliveInOutput, KindsApart, ProberHoldsMutex, Processes!InOutput
    <3>2. Cardinality(Processes!Alive \cap Checks) <= Cardinality({healthMu})
      BY <3>1, FS_Singleton, FS_Subset
    <3>3. Cardinality({healthMu}) = 1 /\ Cardinality(Processes!Alive \cap Checks) \in Nat
      BY <3>1, FS_Singleton, FS_Subset, FS_CardinalityType
    <3> QED
      BY <3>2, <3>3 DEF Processes!Cardinality, Cardinality
  <2> QED
    BY <2>1, <2>2, <2>3 DEF TreesAreBounded, Processes!TreesAreBounded
<1> QED
  BY <1>1, <1>2, ProcessInvCorrect, PTL
================================================================================
