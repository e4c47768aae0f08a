------------------------------ MODULE Record_proofs -----------------------------
(***************************************************************************)
(* Proofs about what the record of a job shows.                            *)
(*                                                                         *)
(* Its files, for any set of files, any number of clients and any number of *)
(* contents: the types, what a cleanup removes, that links are live, and    *)
(* that the file sent is the one that was listed.                          *)
(*                                                                         *)
(* Its figures, for any formats and any progress line: the types, that what *)
(* finished formats have received stays counted, that the bar is not full  *)
(* early, and that a job that has ended shows nothing under way.  They rest *)
(* on facts about sums over finite sets, of which the smallest set that     *)
(* would break one is shown not to exist.                                   *)
(***************************************************************************)
EXTENDS MCRecord, SequenceTheorems, FiniteSetTheorems, WellFoundedInduction, TLAPS

LEMMA SmallestIsMember ==
  ASSUME NEW S, S \subseteq Names, S # {}
  PROVE  Min(S) \in S
<1> DEFINE Less == {ss \in Nat \X Nat : ss[1] < ss[2]}
<1>1. S \subseteq Nat
  BY FilesAssumption
<1>2. IsWellFoundedOn(Less, Nat)
  BY NatLessThanWellFounded DEF OpToRel
<1>3. PICK x \in S : \A y \in S : <<y, x>> \notin Less
  <2> HIDE DEF Less
  <2> QED
    BY <1>1, <1>2, WFMin
<1>4. \A y \in S : x <= y
  <2> SUFFICES ASSUME NEW y \in S PROVE x <= y
    OBVIOUS
  <2>1. x \in Nat /\ y \in Nat
    BY <1>1
  <2>2. ~ y < x
    BY <1>3, <2>1
  <2> QED
    BY <2>1, <2>2
<1> QED
  BY <1>4, Zenon DEF Min

--------------------------------------------------------------------------------
(* The strengthening *)

Fields == {"op", "at", "left", "read", "gone", "name", "index"}

(* What the proof needs of the types. *)
Shapes ==
  /\ DOMAIN request = Clients
  /\ \A c \in Clients :
       /\ DOMAIN request[c] = Fields
       /\ request[c].left \subseteq Names /\ request[c].read \in Contents
  /\ DOMAIN preview = Clients
  /\ dir \in Contents /\ writes \in 0 .. MaxWrites

(* FilesMu: whoever holds it for writing holds it alone, after the worker. *)
Alone ==
  \A c \in Clients : Writing(c) =>
    worker = "returned" /\ \A d \in Clients : Writing(d) => d = c

(* From the comparison of the tokens to the last removal, the walk of a cleanup
   is its client's preview, and the file it is about to remove is unchanged. *)
Confirmed(c) ==
  /\ request[c].at \in {"checking", "unlinking"} =>
       request[c].op = "clean" /\ request[c].read = preview[c]
  /\ request[c].at = "unlinking" =>
       request[c].name \in Names /\ dir[request[c].name] = request[c].read[request[c].name]

IInv == Shapes /\ Alone /\ \A c \in Clients : Confirmed(c)

--------------------------------------------------------------------------------
(* The steps of a client's request, apart from the reading of the list. *)
RequestNext(c) ==
  \/ BeginPreview(c) \/ BeginClean(c) \/ BeginDelete(c)
  \/ \E i \in Indexes : BeginFetch(c, i)
  \/ RequestStep(c)

(* What a step of one client's request does to the requests. *)

LEMMA Moved ==
  ASSUME Shapes, NEW c \in Clients, NEW at, Move(c, at)
  PROVE  /\ DOMAIN request' = Clients
         /\ DOMAIN request'[c] = Fields
         /\ request'[c].at = at
         /\ \A f \in Fields \ {"at"} : request'[c][f] = request[c][f]
         /\ \A d \in Clients \ {c} : request'[d] = request[d]
BY DEF Move, Shapes, Fields

LEMMA Ended ==
  ASSUME Shapes, NEW c \in Clients, End(c)
  PROVE  /\ DOMAIN request' = Clients
         /\ request'[c] = Idle
         /\ \A d \in Clients \ {c} : request'[d] = request[d]
BY DEF End, Shapes

LEMMA IdleShape ==
  /\ DOMAIN Idle = Fields
  /\ Idle.left = {} /\ Idle.read = Unread /\ Idle.gone = {}
  /\ Idle.op = "none" /\ Idle.at = "idle" /\ Unread \in Contents
<1>1. Unread \in Contents
  BY FilesAssumption DEF Unread, Contents
<1> QED
  BY <1>1 DEF Idle, Fields

LEMMA ShapesStep ==
  ASSUME Shapes, [Next]_vars
  PROVE  Shapes'
<1> DEFINE Requested ==
      /\ DOMAIN request' = Clients
      /\ \A c \in Clients :
           /\ DOMAIN request'[c] = Fields
           /\ request'[c].left \subseteq Names /\ request'[c].read \in Contents
<1>1. CASE \E n \in Names : Write(n) \/ ChangeByHand(n)
  <2>1. writes' \in 0 .. MaxWrites /\ dir' \in Contents
    BY <1>1, FilesAssumption DEF Write, ChangeByHand, Shapes, Contents
  <2> QED
    BY <1>1, <2>1 DEF Write, ChangeByHand, Shapes, clientVars
<1>2. CASE CollectResults \/ FinalStatus \/ Return \/ EndEarly \/ TrimRecord \/ UNCHANGED vars
  BY <1>2 DEF CollectResults, FinalStatus, Return, EndEarly, TrimRecord, vars, diskVars, clientVars, Shapes
<1>3. CASE \E c \in Clients : List(c)
  BY <1>3 DEF List, diskVars, Shapes
<1>4. ASSUME NEW c \in Clients, RequestNext(c)
      PROVE  Shapes'
  <2>1. SUFFICES Requested /\ DOMAIN preview' = Clients /\ dir' \in Contents /\ writes' \in 0 .. MaxWrites
    BY DEF Shapes
  <2>2. DOMAIN preview' = Clients
    BY <1>4 DEF Shapes, RequestNext, RequestStep, BeginPreview, BeginClean, BeginDelete, Begin, BeginFetch,
       TryLock, ReadFile, CheckFile, RefuseDirectory, SendPreview, CompareToken, RemoveFile, RemoveDirectory,
       RecordCleaned, DeleteRecord, Unlock, OpenFile, EndFetch, clientVars
  <2>3. dir' \in Contents
    <3>1. CASE RemoveFile(c)
      BY <3>1, FilesAssumption DEF RemoveFile, Shapes, Contents
    <3> QED
      BY <1>4, <3>1 DEF Shapes, RequestNext, RequestStep, BeginPreview, BeginClean, BeginDelete, Begin,
       BeginFetch, TryLock, ReadFile, CheckFile, RefuseDirectory, SendPreview, CompareToken, RemoveDirectory,
       RecordCleaned, DeleteRecord, Unlock, OpenFile, EndFetch, diskVars
  <2>4. writes' = writes
    BY <1>4 DEF RequestNext, RequestStep, BeginPreview, BeginClean, BeginDelete, Begin,
       BeginFetch, TryLock, ReadFile, CheckFile, RefuseDirectory, SendPreview, CompareToken, RemoveFile,
       RemoveDirectory, RecordCleaned, DeleteRecord, Unlock, OpenFile, EndFetch, diskVars
  <2>5. Requested
    <3>1. \A at : Move(c, at) => Requested
      BY Moved DEF Shapes, Fields
    <3>2. End(c) => Requested
      BY Ended, IdleShape DEF Shapes
    <3>3. StartWalk(c) => Requested
      BY DEF StartWalk, Shapes, Fields
    <3>4. CASE \E op : Begin(c, op)
      BY <3>4, IdleShape DEF Begin, Shapes, Idle, Fields
    <3>5. CASE \E i \in Indexes : BeginFetch(c, i)
      BY <3>5, IdleShape DEF BeginFetch, Shapes, Idle, Fields
    <3>6. CASE TryLock(c)
      BY <3>6, <3>1, <3>2, <3>3 DEF TryLock
    <3>7. CASE ReadFile(c)
      <4>1. \A n : [request[c].read EXCEPT ![n] = dir[n]] \in Contents
        BY DEF Shapes, Contents
      <4> QED
        BY <3>7, <4>1 DEF ReadFile, Shapes, Fields
    <3>8. CASE CheckFile(c)
      BY <3>8, <3>1 DEF CheckFile, Shapes, Fields
    <3>9. CASE RefuseDirectory(c) \/ SendPreview(c) \/ EndFetch(c)
      BY <3>9, <3>1, <3>2 DEF RefuseDirectory, SendPreview, EndFetch
    <3>10. CASE CompareToken(c)
      BY <3>10, <3>1 DEF CompareToken, Shapes, Fields
    <3>11. CASE RemoveFile(c)
      BY <3>11, <3>1 DEF RemoveFile, Shapes, Fields
    <3>12. CASE RemoveDirectory(c) \/ RecordCleaned(c) \/ DeleteRecord(c)
      BY <3>12, <3>1 DEF RemoveDirectory, RecordCleaned, DeleteRecord
    <3>13. CASE Unlock(c)
      BY <3>13, IdleShape DEF Unlock, Shapes, Fields
    <3>14. CASE OpenFile(c)
      BY <3>14, <3>2 DEF OpenFile, Shapes, Fields
    <3> QED
      BY <1>4, <3>4, <3>5, <3>6, <3>7, <3>8, <3>9, <3>10, <3>11, <3>12, <3>13, <3>14
      DEF RequestNext, RequestStep, BeginPreview, BeginClean, BeginDelete
  <2> QED
    BY <2>2, <2>3, <2>4, <2>5 DEF Shapes
<1> QED
  BY <1>1, <1>2, <1>3, <1>4 DEF Next, WorkerStep, RequestNext

--------------------------------------------------------------------------------
(* FilesMu is taken for writing in TryLock only. *)

LEMMA AloneStep ==
  ASSUME Shapes, Alone, [Next]_vars
  PROVE  Alone'
<1>1. worker = "returned" => worker' = "returned"
  <2>1. CASE WorkerStep
    BY <2>1 DEF WorkerStep, Write, CollectResults, FinalStatus, Return
  <2>2. CASE UNCHANGED worker
    BY <2>2
  <2> QED
    BY <2>1, <2>2 DEF Next, vars, EndEarly, TrimRecord, ChangeByHand, List, BeginPreview, BeginClean,
      BeginDelete, Begin, BeginFetch, RequestStep, TryLock, ReadFile, CheckFile, RefuseDirectory,
      SendPreview, CompareToken, RemoveFile, RemoveDirectory, RecordCleaned, DeleteRecord, Unlock,
      OpenFile, EndFetch
<1> DEFINE NoneTakes == \A d \in Clients : Writing(d)' => Writing(d)
<1>2. NoneTakes => Alone'
  BY <1>1 DEF Alone
<1>3. CASE UNCHANGED request
  BY <1>2, <1>3 DEF Writing
<1>4. ASSUME NEW c \in Clients, RequestNext(c)
      PROVE  Alone'
  <2>1. ASSUME NEW at, Move(c, at), Writing(c)
        PROVE  NoneTakes
    BY <2>1, Moved DEF Writing, Fields
  <2>2. End(c) => NoneTakes
    BY Ended, IdleShape DEF Writing
  <2>3. CASE \E op : Begin(c, op)
    BY <2>3, <1>2 DEF Begin, Writing, Shapes, Idle
  <2>4. CASE \E i \in Indexes : BeginFetch(c, i)
    BY <2>4, <1>2 DEF BeginFetch, Writing, Shapes, Idle
  <2>5. CASE TryLock(c)
    <3>1. CASE FreeToWrite /\ \A d \in Clients \ {c} : request'[d] = request[d]
      BY <3>1, <1>1 DEF FreeToWrite, FreeToRead, Alone, Writing
    <3>2. CASE request[c].op = "preview" /\ StartWalk(c)
      <4>1. NoneTakes
        BY <3>2 DEF StartWalk, Writing, Shapes, Fields
      <4> QED
        BY <4>1, <1>2
    <3>3. CASE End(c)
      BY <3>3, <2>2, <1>2
    <3>4. StartWalk(c) \/ Move(c, "deleting") => \A d \in Clients \ {c} : request'[d] = request[d]
      BY DEF StartWalk, Move, Shapes
    <3> QED
      BY <2>5, <3>1, <3>2, <3>3, <3>4 DEF TryLock
  <2>6. CASE ReadFile(c) \/ CheckFile(c) \/ CompareToken(c) \/ RemoveFile(c) \/ OpenFile(c)
    <3>1. NoneTakes
      <4>1. \A d \in Clients : request'[d].op = request[d].op \/ request'[d] = Idle
        BY <2>6 DEF ReadFile, CheckFile, CompareToken, RemoveFile, OpenFile, Move, End, Shapes, Fields
      <4>2. request[c].at # "trying" /\ \A d \in Clients \ {c} : request'[d] = request[d]
        BY <2>6 DEF ReadFile, CheckFile, CompareToken, RemoveFile, OpenFile, Move, End, Shapes,
          At, Walked
      <4> QED
        BY <4>1, <4>2, IdleShape DEF Writing
    <3> QED
      BY <3>1, <1>2
  <2>7. CASE RefuseDirectory(c) \/ SendPreview(c) \/ EndFetch(c)
    <3>1. At(c, "clean", "walking") => Writing(c)
      BY DEF At, Writing
    <3> QED
      BY <2>7, <3>1, <2>1, <2>2, <1>2 DEF RefuseDirectory, SendPreview, EndFetch
  <2>8. CASE RemoveDirectory(c) \/ RecordCleaned(c) \/ DeleteRecord(c)
    <3>1. Writing(c)
      BY <2>8 DEF RemoveDirectory, RecordCleaned, DeleteRecord, At, Writing
    <3> QED
      BY <2>8, <3>1, <2>1, <1>2 DEF RemoveDirectory, RecordCleaned, DeleteRecord
  <2>9. CASE Unlock(c)
    BY <2>9, <1>2, IdleShape DEF Unlock, Writing, Shapes, Fields
  <2> QED
    BY <1>4, <2>3, <2>4, <2>5, <2>6, <2>7, <2>8, <2>9
    DEF RequestNext, RequestStep, BeginPreview, BeginClean, BeginDelete
<1> QED
  BY <1>3, <1>4 DEF Next, vars, RequestNext, WorkerStep, Write, CollectResults, FinalStatus, Return,
    EndEarly, TrimRecord, ChangeByHand, List

--------------------------------------------------------------------------------
(* The file about to be removed does not change: the worker has returned, no
   other cleanup holds FilesMu, and people keep their hands off it. *)

LEMMA ConfirmedStep ==
  ASSUME IInv, [Next]_vars, NEW c \in Clients
  PROVE  Confirmed(c)'
<1> USE DEF IInv
<1>1. ASSUME request'[c] = request[c]
      PROVE  Confirmed(c)'
  <2>1. CASE request[c].at \notin {"checking", "unlinking"}
    BY <2>1, <1>1 DEF Confirmed
  <2>2. CASE request[c].at \in {"checking", "unlinking"}
    <3>1. Writing(c) /\ worker = "returned" /\ request[c].op = "clean"
      BY <2>2 DEF Confirmed, Writing, Alone
    <3>2. preview'[c] = preview[c]
      <4>1. CASE \E d \in Clients : SendPreview(d)
        BY <4>1, <3>1 DEF SendPreview, Walked, At, Shapes
      <4>2. CASE UNCHANGED preview
        BY <4>2
      <4>3. CASE \E d \in Clients : List(d)
        BY <4>3 DEF List
      <4> QED
        BY <4>1, <4>2, <4>3 DEF Next, vars, clientVars, WorkerStep, Write, CollectResults, FinalStatus,
          Return, EndEarly, TrimRecord, ChangeByHand, RequestStep, BeginPreview, BeginClean, BeginDelete,
          Begin, BeginFetch, TryLock, ReadFile, CheckFile, RefuseDirectory, CompareToken, RemoveFile,
          RemoveDirectory, RecordCleaned, DeleteRecord, Unlock, OpenFile, EndFetch
    <3>3. request[c].at = "unlinking" => dir'[request[c].name] = dir[request[c].name]
      <4>1. CASE \E n \in Names : Write(n)
        BY <4>1, <3>1 DEF Write
      <4>2. CASE \E n \in Names : ChangeByHand(n)
        BY <4>2, <3>1 DEF ChangeByHand, At, Shapes, Contents, Confirmed
      <4>3. ASSUME NEW d \in Clients, RemoveFile(d)
            PROVE  UNCHANGED dir
        <5>1. Writing(d)
          BY <4>3 DEF RemoveFile, At, Writing
        <5>2. d = c
          BY <5>1, <3>1 DEF Alone
        <5>3. request[c].at = "unlinking" /\ request'[c].at = "unlinking"
          BY <4>3, <5>2, <1>1 DEF RemoveFile, At
        <5> QED
          BY <4>3, <5>2, <5>3 DEF RemoveFile, Shapes, Fields
      <4>4. CASE UNCHANGED dir
        BY <4>4
      <4> QED
        BY <4>1, <4>2, <4>3, <4>4 DEF Next, vars, diskVars, WorkerStep, CollectResults, FinalStatus,
          Return, EndEarly, TrimRecord, List, RequestStep, BeginPreview, BeginClean, BeginDelete,
          Begin, BeginFetch, TryLock, ReadFile, CheckFile, RefuseDirectory, SendPreview, CompareToken,
          RemoveDirectory, RecordCleaned, DeleteRecord, Unlock, OpenFile, EndFetch
    <3> QED
      BY <2>2, <1>1, <3>1, <3>2, <3>3 DEF Confirmed
  <2> QED
    BY <2>1, <2>2
<1>2. ASSUME request'[c].at \notin {"checking", "unlinking"}
      PROVE  Confirmed(c)'
  BY <1>2 DEF Confirmed
<1>3. CASE CompareToken(c)
  <2>1. request'[c].at = "checking" =>
          /\ request[c].op = "clean" /\ request[c].read = preview[c] /\ UNCHANGED preview
          /\ request'[c].op = request[c].op /\ request'[c].read = request[c].read
    BY <1>3, Moved DEF CompareToken, Walked, At, Shapes, Fields, clientVars
  <2>2. request'[c].at # "unlinking"
    BY <1>3, Moved DEF CompareToken, Shapes, Fields
  <2> QED
    BY <2>1, <2>2 DEF Confirmed
<1>4. CASE CheckFile(c)
  <2> DEFINE n == Min(request[c].left)
  <2>1. n \in Names /\ request[c].op = "clean" /\ request[c].read = preview[c]
    BY <1>4, SmallestIsMember DEF CheckFile, At, Confirmed, Shapes
  <2>2. CASE dir[n] = request[c].read[n]
    <3>1. /\ request'[c].name = n /\ request'[c].op = "clean" /\ request'[c].read = request[c].read
          /\ UNCHANGED <<dir, preview>>
      BY <1>4, <2>1, <2>2 DEF CheckFile, Shapes, Fields, diskVars, clientVars
    <3> QED
      BY <2>1, <2>2, <3>1 DEF Confirmed
  <2>3. CASE dir[n] # request[c].read[n]
    BY <1>4, <2>3, <1>2, Moved DEF CheckFile
  <2> QED
    BY <2>2, <2>3
<1>5. CASE RemoveFile(c)
  <2>1. CASE Move(c, "recording")
    BY <2>1, <1>2, Moved
  <2>2. CASE ~Move(c, "recording")
    <3>1. /\ request'[c].at = "checking" /\ request'[c].op = request[c].op
          /\ request'[c].read = request[c].read /\ UNCHANGED preview
      BY <1>5, <2>2 DEF RemoveFile, Shapes, Fields, clientVars
    <3>2. request[c].at = "unlinking"
      BY <1>5 DEF RemoveFile, At
    <3> QED
      BY <3>1, <3>2 DEF Confirmed
  <2> QED
    BY <2>1, <2>2
<1>6. CASE \E d \in Clients : RequestNext(d)
  <2>1. PICK d \in Clients : RequestNext(d)
    BY <1>6
  <2>2. CASE d # c
    <3>1. CASE Unlock(d)
      BY <3>1, <2>2, <1>1, <1>2 DEF Unlock, Shapes, Fields
    <3> QED
      BY <2>1, <2>2, <3>1, <1>1 DEF RequestNext, BeginPreview, BeginClean, BeginDelete, Begin, BeginFetch,
        RequestStep, Move, StartWalk, End, TryLock, ReadFile, CheckFile, RefuseDirectory, SendPreview,
        CompareToken, RemoveFile, RemoveDirectory, RecordCleaned, DeleteRecord, OpenFile, EndFetch, Shapes
  <2>3. CASE d = c
    <3>1. End(c) => Confirmed(c)'
      BY Ended, IdleShape, <1>2
    <3>2. \A at : Move(c, at) /\ at \notin {"checking", "unlinking"} => Confirmed(c)'
      BY Moved, <1>2
    <3>3. StartWalk(c) => Confirmed(c)'
      BY <1>2 DEF StartWalk, Shapes, Fields
    <3>4. CASE \E op : Begin(c, op)
      BY <3>4, <1>2 DEF Begin, Shapes, Idle
    <3>5. CASE \E i \in Indexes : BeginFetch(c, i)
      BY <3>5, <1>2 DEF BeginFetch, Shapes, Idle
    <3>6. CASE TryLock(c)
      BY <3>6, <3>1, <3>2, <3>3 DEF TryLock
    <3>7. CASE ReadFile(c)
      BY <3>7, <1>2 DEF ReadFile, Shapes, Fields
    <3>8. CASE RefuseDirectory(c) \/ SendPreview(c) \/ EndFetch(c)
      BY <3>8, <3>1, <3>2 DEF RefuseDirectory, SendPreview, EndFetch
    <3>9. CASE RemoveDirectory(c) \/ RecordCleaned(c) \/ DeleteRecord(c)
      BY <3>9, <3>2 DEF RemoveDirectory, RecordCleaned, DeleteRecord
    <3>10. CASE Unlock(c)
      BY <3>10, <1>2, IdleShape DEF Unlock, Shapes
    <3>11. CASE OpenFile(c)
      BY <3>11, <3>1, <1>2 DEF OpenFile, Shapes, Fields
    <3> QED
      BY <2>1, <2>3, <1>3, <1>4, <1>5, <3>4, <3>5, <3>6, <3>7, <3>8, <3>9, <3>10, <3>11
      DEF RequestNext, RequestStep, BeginPreview, BeginClean, BeginDelete
  <2> QED
    BY <2>2, <2>3
<1>7. CASE UNCHANGED request
  BY <1>7, <1>1
<1> QED
  BY <1>6, <1>7 DEF Next, vars, RequestNext, WorkerStep, Write, CollectResults, FinalStatus, Return,
    EndEarly, TrimRecord, ChangeByHand, List

--------------------------------------------------------------------------------
LEMMA OnlyRemovals ==
  ASSUME Shapes, [Next]_vars, NEW c \in Clients, ~RemoveFile(c)
  PROVE  request'[c].gone \subseteq request[c].gone
<1>1. CASE UNCHANGED request
  BY <1>1
<1>2. ASSUME NEW d \in Clients, RequestNext(d)
      PROVE  request'[c].gone \subseteq request[c].gone
  <2>1. \A at : Move(d, at) => request'[c].gone = request[c].gone
    BY Moved DEF Fields
  <2>2. End(d) => request'[c].gone \subseteq request[c].gone
    BY Ended, IdleShape
  <2>3. StartWalk(d) => request'[c].gone = request[c].gone
    BY DEF StartWalk, Shapes, Fields
  <2>4. CASE \E op : Begin(d, op)
    BY <2>4 DEF Begin, Shapes, Idle
  <2>5. CASE \E i \in Indexes : BeginFetch(d, i)
    BY <2>5 DEF BeginFetch, Shapes, Idle
  <2>6. CASE TryLock(d)
    BY <2>6, <2>1, <2>2, <2>3 DEF TryLock
  <2>7. CASE ReadFile(d)
    BY <2>7 DEF ReadFile, Shapes, Fields
  <2>8. CASE CheckFile(d)
    BY <2>8, <2>1 DEF CheckFile, Shapes, Fields
  <2>9. CASE RefuseDirectory(d) \/ SendPreview(d) \/ EndFetch(d)
    BY <2>9, <2>1, <2>2 DEF RefuseDirectory, SendPreview, EndFetch
  <2>10. CASE CompareToken(d)
    BY <2>10, <2>1 DEF CompareToken, Shapes, Fields
  <2>11. CASE RemoveFile(d)
    BY <2>11 DEF RemoveFile, Move, Shapes, Fields
  <2>12. CASE RemoveDirectory(d) \/ RecordCleaned(d) \/ DeleteRecord(d)
    BY <2>12, <2>1 DEF RemoveDirectory, RecordCleaned, DeleteRecord
  <2>13. CASE Unlock(d)
    BY <2>13, IdleShape DEF Unlock, Shapes, Fields
  <2>14. CASE OpenFile(d)
    BY <2>14, <2>2 DEF OpenFile, Shapes, Fields
  <2> QED
    BY <1>2, <2>4, <2>5, <2>6, <2>7, <2>8, <2>9, <2>10, <2>11, <2>12, <2>13, <2>14
    DEF RequestNext, RequestStep, BeginPreview, BeginClean, BeginDelete
<1> QED
  BY <1>1, <1>2 DEF Next, vars, RequestNext, WorkerStep, Write, CollectResults, FinalStatus, Return,
    EndEarly, TrimRecord, ChangeByHand, List

(* A cleanup removes only what its client has been shown, with the content it
   had then (HandleCleanupFiles, handler_files.go), whatever the worker, the
   other clients and people do meanwhile. *)
THEOREM PreviewedOnlyCorrect == SafeSpec => PreviewedOnly
<1>1. Init => IInv
  BY IdleShape, FilesAssumption DEF Init, IInv, Shapes, Alone, Confirmed, Writing
<1>2. IInv /\ [Next]_vars => IInv'
  BY ShapesStep, AloneStep, ConfirmedStep DEF IInv
<1> DEFINE Shown == \A c \in Clients : \A n \in request'[c].gone \ request[c].gone :
                      n \in DOMAIN preview[c] /\ dir[n] = preview[c][n]
<1>3. ASSUME IInv, [Next]_vars
      PROVE  Shown
  <2> SUFFICES ASSUME NEW c \in Clients, NEW n \in request'[c].gone \ request[c].gone
               PROVE  n \in DOMAIN preview[c] /\ dir[n] = preview[c][n]
    OBVIOUS
  <2>1. CASE RemoveFile(c)
    <3>1. n = request[c].name
      BY <1>3, <2>1, Moved DEF RemoveFile, IInv, Shapes, Fields
    <3>2. /\ request[c].read = preview[c] /\ n \in Names /\ dir[n] = request[c].read[n]
          /\ request[c].read \in Contents
      BY <1>3, <2>1, <3>1 DEF RemoveFile, At, IInv, Confirmed, Shapes
    <3> QED
      BY <3>2 DEF Contents
  <2>2. CASE ~RemoveFile(c)
    <3>1. FALSE
      BY <1>3, <2>2, OnlyRemovals DEF IInv
    <3> QED
      BY <3>1
  <2> QED
    BY <2>1, <2>2
<1>4. IInv /\ [Next]_vars => [Shown]_vars
  BY <1>3
<1> QED
  <2> HIDE DEF Shown
  <2>1. [][Shown]_vars <=> PreviewedOnly
    BY DEF Shown, PreviewedOnly
  <2> QED
    BY <1>1, <1>2, <1>4, <2>1, PTL DEF SafeSpec

--------------------------------------------------------------------------------
(* The list of results: made once, of files that exist; later its places are
   only emptied. *)

LEMMA SortingTypes ==
  ASSUME NEW found, found \subseteq Results, NEW s \in Sortings(found)
  PROVE  /\ s \in Seq(Names \cup {NoFile})
         /\ Len(s) \in Nat /\ Len(s) <= Cardinality(Results)
         /\ \A i \in 1 .. Len(s) : s[i] \in found
<1>1. IsFiniteSet(Results)
  BY FilesAssumption, FS_Subset
<1>2. /\ Cardinality(found) \in Nat /\ Cardinality(Results) \in Nat
      /\ Cardinality(found) <= Cardinality(Results)
  BY <1>1, FS_Subset, FS_CardinalityType
<1>3. s \in [1 .. Cardinality(found) -> found]
  BY DEF Sortings, SetToSeqs
<1>4. s \in Seq(found) /\ Len(s) = Cardinality(found)
  BY <1>2, <1>3
<1>5. found \subseteq Names \cup {NoFile}
  BY FilesAssumption
<1> QED
  BY <1>2, <1>3, <1>4, <1>5

LEMMA BlankedTypes ==
  ASSUME paths \in Seq(Names \cup {NoFile}), NEW gone
  PROVE  /\ Blanked(gone) \in Seq(Names \cup {NoFile})
         /\ Len(Blanked(gone)) = Len(paths)
         /\ \A i \in 1 .. Len(paths) :
              Blanked(gone)[i] = IF paths[i] \in gone THEN NoFile ELSE paths[i]
<1>1. Len(paths) \in Nat /\ \A i \in 1 .. Len(paths) : paths[i] \in Names \cup {NoFile}
  OBVIOUS
<1>2. Blanked(gone) \in [1 .. Len(paths) -> Names \cup {NoFile}]
  BY <1>1 DEF Blanked
<1> QED
  BY <1>1, <1>2 DEF Blanked

(* The worker collects once, before anything is listed; a client that fetches a
   file does so by a link it shows. *)
Listed ==
  /\ Len(paths) <= Cardinality(Results)
  /\ worker = "writing" => paths = << >> /\ \A c \in Clients : DOMAIN links[c] = {}
  /\ status = "completed" => worker \in {"ended", "returned"}
  /\ \A c \in Clients : request[c].op = "fetch" => request[c].index \in DOMAIN links[c]

Places ==
  {"idle", "trying", "waiting", "walking", "checking", "unlinking", "recording",
   "emptied", "opening", "sending", "deleting", "unlocking"}

LEMMA FieldTypes ==
  ASSUME NEW r \in [Clients -> Requests], NEW c \in Clients
  PROVE  /\ \A at \in Places : [r EXCEPT ![c].at = at] \in [Clients -> Requests]
         /\ \A left \in SUBSET Names : [r EXCEPT ![c].left = left] \in [Clients -> Requests]
         /\ \A read \in Contents : [r EXCEPT ![c].read = read] \in [Clients -> Requests]
         /\ \A gone \in SUBSET Names : [r EXCEPT ![c].gone = gone] \in [Clients -> Requests]
         /\ \A name \in Names \cup {NoFile} : [r EXCEPT ![c].name = name] \in [Clients -> Requests]
<1>1. \A at \in Places : [r EXCEPT ![c].at = at] \in [Clients -> Requests]
  BY DEF Requests, Places
<1>2. \A left \in SUBSET Names : [r EXCEPT ![c].left = left] \in [Clients -> Requests]
  BY DEF Requests
<1>3. \A read \in Contents : [r EXCEPT ![c].read = read] \in [Clients -> Requests]
  BY DEF Requests
<1>4. \A gone \in SUBSET Names : [r EXCEPT ![c].gone = gone] \in [Clients -> Requests]
  BY DEF Requests
<1>5. \A name \in Names \cup {NoFile} : [r EXCEPT ![c].name = name] \in [Clients -> Requests]
  BY DEF Requests
<1> QED
  BY <1>1, <1>2, <1>3, <1>4, <1>5

LEMMA RequestTypes ==
  ASSUME TypeOK, IInv, Listed, NEW c \in Clients, RequestNext(c)
  PROVE  request' \in [Clients -> Requests]
<1> USE DEF TypeOK
<1>1. \A at \in Places : Move(c, at) => request' \in [Clients -> Requests]
  BY FieldTypes DEF Move
<1>2. Idle \in Requests
  BY IdleShape DEF Idle, Requests
<1>3. End(c) => request' \in [Clients -> Requests]
  BY <1>2 DEF End
<1>4. ASSUME NEW at \in Places, NEW left \in SUBSET Names,
             request' = [request EXCEPT ![c].at = at, ![c].left = left]
      PROVE  request' \in [Clients -> Requests]
  <2>1. request' = [[request EXCEPT ![c].at = at] EXCEPT ![c].left = left]
    BY <1>4
  <2> QED
    BY <2>1, FieldTypes
<1>5. ASSUME NEW at \in Places, NEW name \in Names \cup {NoFile},
             request' = [request EXCEPT ![c].at = at, ![c].name = name]
      PROVE  request' \in [Clients -> Requests]
  <2> DEFINE r1 == [request EXCEPT ![c].at = at]
  <2>1. request' = [r1 EXCEPT ![c].name = name]
    BY <1>5
  <2>2. r1 \in [Clients -> Requests]
    BY FieldTypes
  <2> HIDE DEF r1
  <2>3. [r1 EXCEPT ![c].name = name] \in [Clients -> Requests]
    BY <2>2, FieldTypes
  <2> QED
    BY <2>1, <2>3
<1>6. CASE \E op \in {"preview", "clean", "delete"} : Begin(c, op)
  <2>1. \A op \in {"preview", "clean", "delete"} : [Idle EXCEPT !.op = op, !.at = "trying"] \in Requests
    BY IdleShape DEF Idle, Requests
  <2> QED
    BY <1>6, <2>1 DEF Begin
<1>7. CASE \E i \in Indexes : BeginFetch(c, i)
  <2>1. \A i \in Indexes : \A at \in {"opening", "waiting"} :
          [Idle EXCEPT !.op = "fetch", !.index = i, !.at = at] \in Requests
    BY IdleShape DEF Idle, Requests
  <2> QED
    BY <1>7, <2>1 DEF BeginFetch
<1>8. CASE TryLock(c)
  <2>1. StartWalk(c) => request' \in [Clients -> Requests]
    BY <1>4 DEF StartWalk, Places
  <2> QED
    BY <1>8, <1>1, <1>3, <2>1 DEF TryLock, Places
<1>9. CASE ReadFile(c)
  <2> DEFINE n == Min(request[c].left)
             first == [request EXCEPT ![c].left = @ \ {n}]
  <2>1. request[c].left \ {n} \in SUBSET Names /\ [request[c].read EXCEPT ![n] = dir[n]] \in Contents
    BY DEF IInv, Shapes, Contents
  <2>2. first \in [Clients -> Requests]
    BY <2>1, FieldTypes
  <2>3. first[c].read = request[c].read
    BY DEF Requests
  <2>4. request' = [first EXCEPT ![c].read = [request[c].read EXCEPT ![n] = dir[n]]]
    BY <1>9, <2>3 DEF ReadFile
  <2> QED
    <3> HIDE DEF first, n
    <3> QED
      BY <2>1, <2>2, <2>4, FieldTypes
<1>10. CASE CheckFile(c)
  <2>1. Min(request[c].left) \in Names
    BY <1>10, SmallestIsMember DEF CheckFile, IInv, Shapes
  <2> QED
    BY <1>10, <2>1, <1>1, <1>5 DEF CheckFile, Places
<1>11. CASE RefuseDirectory(c) \/ SendPreview(c) \/ EndFetch(c)
  BY <1>11, <1>1, <1>3 DEF RefuseDirectory, SendPreview, EndFetch, Places
<1>12. CASE CompareToken(c)
  <2>1. {n \in Names : request[c].read[n] > 0} \in SUBSET Names
    OBVIOUS
  <2>2. CASE Move(c, "unlocking")
    BY <2>2, <1>1 DEF Places
  <2>3. CASE ~Move(c, "unlocking")
    BY <1>12, <2>1, <2>3, <1>4 DEF CompareToken, Places
  <2> QED
    BY <2>2, <2>3
<1>13. CASE RemoveFile(c)
  <2> DEFINE n == request[c].name
             r1 == [request EXCEPT ![c].at = "checking"]
             r2 == [r1 EXCEPT ![c].name = NoFile]
             r3 == [r2 EXCEPT ![c].left = request[c].left \ {n}]
             r4 == [r3 EXCEPT ![c].gone = request[c].gone \cup {n}]
  <2>1. n \in Names /\ request[c].left \in SUBSET Names /\ request[c].gone \in SUBSET Names
    BY <1>13 DEF RemoveFile, At, IInv, Shapes, Confirmed, Requests
  <2>2. r1 \in [Clients -> Requests]
    BY FieldTypes DEF Places
  <2>3. r2 \in [Clients -> Requests]
    <3> HIDE DEF r1
    <3> QED
      BY <2>2, FieldTypes
  <2>4. r3 \in [Clients -> Requests]
    <3>1. request[c].left \ {n} \in SUBSET Names
      BY <2>1
    <3> HIDE DEF r2, n
    <3> QED
      BY <2>3, <3>1, FieldTypes
  <2>5. r4 \in [Clients -> Requests]
    <3>1. request[c].gone \cup {n} \in SUBSET Names
      BY <2>1
    <3> HIDE DEF r3, n
    <3> QED
      BY <2>4, <3>1, FieldTypes
  <2>6. request' = r4 \/ Move(c, "recording")
    BY <1>13 DEF RemoveFile, Requests
  <2> QED
    <3> HIDE DEF r4
    <3> QED
      BY <2>5, <2>6, <1>1 DEF Places
<1>14. CASE RemoveDirectory(c) \/ RecordCleaned(c) \/ DeleteRecord(c)
  BY <1>14, <1>1 DEF RemoveDirectory, RecordCleaned, DeleteRecord, Places
<1>15. CASE Unlock(c)
  <2>1. \A r \in Requests : [r EXCEPT !.at = "opening"] \in Requests
    BY DEF Requests
  <2> QED
    BY <1>15, <1>2, <2>1 DEF Unlock
<1>16. CASE OpenFile(c)
  <2>1. CASE End(c)
    BY <2>1, <1>3
  <2>2. CASE ~End(c)
    <3> DEFINE i == request[c].index
    <3>1. /\ i \in DOMAIN links[c] /\ i <= Len(paths)
          /\ request' = [request EXCEPT ![c].at = "sending", ![c].name = paths[i]]
      BY <1>16, <2>2 DEF OpenFile, Servable, At, Listed
    <3>2. i \in 1 .. Len(paths)
      BY <3>1, FilesAssumption DEF Indexes
    <3>3. paths[i] \in Names \cup {NoFile}
      BY <3>2
    <3> QED
      BY <3>1, <3>3, <1>5 DEF Places
  <2> QED
    BY <2>1, <2>2
<1> QED
  BY <1>6, <1>7, <1>8, <1>9, <1>10, <1>11, <1>12, <1>13, <1>14, <1>15, <1>16
  DEF RequestNext, RequestStep, BeginPreview, BeginClean, BeginDelete, RequestNext

--------------------------------------------------------------------------------
(* Who changes what. *)

LEMMA Frames ==
  ASSUME [Next]_vars
  PROVE  /\ \/ UNCHANGED <<paths, files>> \/ CollectResults
            \/ \E c \in Clients : RecordCleaned(c)
         /\ \/ UNCHANGED <<dir, byHand>>
            \/ \E n \in Names : Write(n) \/ ChangeByHand(n)
            \/ \E c \in Clients : RemoveFile(c)
         /\ UNCHANGED links \/ \E c \in Clients : List(c)
         /\ \/ UNCHANGED <<worker, status>>
            \/ CollectResults \/ FinalStatus \/ Return \/ EndEarly
         /\ UNCHANGED request \/ \E c \in Clients : RequestNext(c)
<1> USE DEF vars, recordVars, diskVars, clientVars, Next, WorkerStep, RequestNext
<1>1. \/ UNCHANGED <<paths, files>> \/ CollectResults
      \/ \E c \in Clients : RecordCleaned(c)
  BY DEF RequestStep, Write, FinalStatus, Return, EndEarly, TrimRecord, ChangeByHand, List, BeginPreview,
    BeginClean, BeginDelete, Begin, BeginFetch, TryLock, ReadFile, CheckFile, RefuseDirectory, SendPreview,
    CompareToken, RemoveFile, RemoveDirectory, DeleteRecord, Unlock, OpenFile, EndFetch
<1>2. \/ UNCHANGED <<dir, byHand>>
      \/ \E n \in Names : Write(n) \/ ChangeByHand(n)
      \/ \E c \in Clients : RemoveFile(c)
  BY DEF RequestStep, CollectResults, FinalStatus, Return, EndEarly, TrimRecord, List, BeginPreview,
    BeginClean, BeginDelete, Begin, BeginFetch, TryLock, ReadFile, CheckFile, RefuseDirectory, SendPreview,
    CompareToken, RemoveDirectory, RecordCleaned, DeleteRecord, Unlock, OpenFile, EndFetch
<1>3. UNCHANGED links \/ \E c \in Clients : List(c)
  BY DEF RequestStep, Write, CollectResults, FinalStatus, Return, EndEarly, TrimRecord, ChangeByHand,
    BeginPreview, BeginClean, BeginDelete, Begin, BeginFetch, TryLock, ReadFile, CheckFile,
    RefuseDirectory, SendPreview, CompareToken, RemoveFile, RemoveDirectory, RecordCleaned, DeleteRecord,
    Unlock, OpenFile, EndFetch
<1>4. \/ UNCHANGED <<worker, status>>
      \/ CollectResults \/ FinalStatus \/ Return \/ EndEarly
  BY DEF RequestStep, Write, TrimRecord, ChangeByHand, List, BeginPreview, BeginClean, BeginDelete,
    Begin, BeginFetch, TryLock, ReadFile, CheckFile, RefuseDirectory, SendPreview, CompareToken, RemoveFile,
    RemoveDirectory, RecordCleaned, DeleteRecord, Unlock, OpenFile, EndFetch
<1>5. UNCHANGED request \/ \E c \in Clients : RequestNext(c)
  BY DEF Write, CollectResults, FinalStatus, Return, EndEarly, TrimRecord, ChangeByHand, List
<1> QED
  BY <1>1, <1>2, <1>3, <1>4, <1>5

LEMMA CollectTypes ==
  ASSUME CollectResults
  PROVE  /\ paths' \in Seq(Names \cup {NoFile}) /\ files' = 1 .. Len(paths')
         /\ Len(paths') <= Cardinality(Results)
         /\ \A i \in 1 .. Len(paths') : paths'[i] \in Names /\ dir[paths'[i]] > 0
<1> DEFINE found == {n \in Results : dir[n] > 0}
<1>1. found \subseteq Results /\ paths' \in Sortings(found) /\ files' = 1 .. Len(paths')
  BY DEF CollectResults
<1>2. \A n \in found : n \in Names /\ dir[n] > 0
  BY FilesAssumption
<1> HIDE DEF found
<1> QED
  BY <1>1, <1>2, SortingTypes

LEMMA RecordTypes ==
  ASSUME TypeOK, Listed, NEW c \in Clients, RecordCleaned(c)
  PROVE  /\ paths' \in Seq(Names \cup {NoFile}) /\ files' \subseteq 1 .. Len(paths')
         /\ Len(paths') <= Cardinality(Results)
<1>1. CASE ForgetAll
  <2>1. Cardinality(Results) \in Nat
    BY FilesAssumption, FS_Subset, FS_CardinalityType
  <2> QED
    BY <1>1, <2>1 DEF ForgetAll
<1>2. CASE ForgetRemoved(c)
  BY <1>2, BlankedTypes DEF ForgetRemoved, TypeOK, Listed
<1> QED
  BY <1>1, <1>2 DEF RecordCleaned

LEMMA TypeStep ==
  ASSUME TypeOK, IInv, Listed, [Next]_vars
  PROVE  TypeOK'
<1> USE DEF TypeOK
<1>1. paths' \in Seq(Names \cup {NoFile}) /\ files' \subseteq 1 .. Len(paths')
  BY Frames, CollectTypes, RecordTypes
<1>2. request' \in [Clients -> Requests]
  BY Frames, RequestTypes
<1>3. dir' \in Contents /\ writes' \in 0 .. MaxWrites
  BY ShapesStep DEF IInv, Shapes
<1>4. byHand' \subseteq Names
  BY Frames DEF Write, ChangeByHand, RemoveFile
<1>5. worker' \in {"writing", "collected", "ended", "returned"} /\ status' \in Terminal \cup {"active"}
  <2>1. CASE FinalStatus
    BY <2>1 DEF FinalStatus, Terminal
  <2>2. CASE CollectResults
    BY <2>2 DEF CollectResults
  <2>3. CASE Return
    BY <2>3 DEF Return, recordVars
  <2>4. CASE EndEarly
    BY <2>4 DEF EndEarly, Terminal
  <2>5. CASE UNCHANGED <<worker, status>>
    BY <2>5
  <2> QED
    BY <2>1, <2>2, <2>3, <2>4, <2>5, Frames
<1>6. stored' \in BOOLEAN
  <2>1. UNCHANGED stored \/ stored' = FALSE
    BY DEF vars, recordVars, Next, WorkerStep, Write, CollectResults, FinalStatus, Return, EndEarly,
      TrimRecord, ChangeByHand, List, RequestStep, BeginPreview, BeginClean, BeginDelete, Begin, BeginFetch,
      TryLock, ReadFile, CheckFile, RefuseDirectory, SendPreview, CompareToken, RemoveFile,
      RemoveDirectory, RecordCleaned, DeleteRecord, Unlock, OpenFile, EndFetch
  <2> QED
    BY <2>1
<1>7. preview' \in [Clients -> Contents \cup {Nothing}]
  <2>1. CASE \E c \in Clients : SendPreview(c)
    BY <2>1 DEF SendPreview, Requests
  <2>2. CASE ~ \E c \in Clients : SendPreview(c)
    <3>1. UNCHANGED preview
      BY <2>2 DEF vars, clientVars, Next, WorkerStep, Write, CollectResults, FinalStatus, Return, EndEarly,
        TrimRecord, ChangeByHand, List, RequestStep, BeginPreview, BeginClean, BeginDelete, Begin,
        BeginFetch, TryLock, ReadFile, CheckFile, RefuseDirectory, CompareToken, RemoveFile,
        RemoveDirectory, RecordCleaned, DeleteRecord, Unlock, OpenFile, EndFetch
    <3> QED
      BY <3>1
  <2> QED
    BY <2>1, <2>2
<1>8. DOMAIN links' = Clients /\ \A c \in Clients : DOMAIN links'[c] \subseteq Indexes
  <2>1. files \subseteq Indexes
    <3>1. Len(paths) \in Nat
      OBVIOUS
    <3>2. Cardinality(Results) \in Nat
      BY FilesAssumption, FS_Subset, FS_CardinalityType
    <3> QED
      BY <3>1, <3>2 DEF Indexes, Listed
  <2>2. CASE \E c \in Clients : List(c)
    BY <2>1, <2>2 DEF List
  <2>3. CASE UNCHANGED links
    BY <2>3
  <2> QED
    BY <2>2, <2>3, Frames
<1> QED
  BY <1>1, <1>2, <1>3, <1>4, <1>5, <1>6, <1>7, <1>8

LEMMA ListedStep ==
  ASSUME TypeOK, IInv, Listed, [Next]_vars
  PROVE  Listed'
<1>1. Len(paths') <= Cardinality(Results)
  BY Frames, CollectTypes, RecordTypes DEF Listed
<1>2. ASSUME worker' = "writing"
      PROVE  paths' = << >> /\ \A c \in Clients : DOMAIN links'[c] = {}
  <2>1. worker = "writing"
    BY <1>2, Frames DEF CollectResults, FinalStatus, Return, EndEarly
  <2>2. paths = << >> /\ files = {} /\ \A c \in Clients : DOMAIN links[c] = {}
    BY <2>1 DEF Listed, TypeOK
  <2>3. \A c \in Clients : ~RecordCleaned(c)
    BY <2>1 DEF RecordCleaned, At, IInv, Alone, Writing
  <2>4. UNCHANGED paths
    BY <1>2, <2>3, Frames DEF CollectResults
  <2>5. \A c \in Clients : DOMAIN links'[c] = {}
    BY <2>2, Frames DEF List, TypeOK
  <2> QED
    BY <2>2, <2>4, <2>5
<1>3. status' = "completed" => worker' \in {"ended", "returned"}
  BY Frames DEF Listed, CollectResults, FinalStatus, Return, EndEarly
<1>4. ASSUME NEW c \in Clients, request'[c].op = "fetch"
      PROVE  request'[c].index \in DOMAIN links'[c]
  <2>1. CASE request[c].op = "fetch" /\ request'[c].index = request[c].index
    <3>1. request[c] # Idle
      BY <2>1, IdleShape
    <3>2. links'[c] = links[c]
      BY <3>1, Frames DEF List, TypeOK
    <3> QED
      BY <2>1, <3>2 DEF Listed
  <2>2. CASE \E i \in Indexes : BeginFetch(c, i)
    BY <2>2 DEF BeginFetch, clientVars, IInv, Shapes, Idle
  <2>3. ASSUME NEW d \in Clients, RequestNext(d), d # c \/ ~ \E i \in Indexes : BeginFetch(c, i)
        PROVE  request[c].op = "fetch" /\ request'[c].index = request[c].index
    <3> USE DEF IInv
    <3>1. \A at : Move(d, at) => request'[c].op = request[c].op /\ request'[c].index = request[c].index
      BY Moved DEF Fields
    <3>2. End(d) => d # c /\ request'[c] = request[c]
      BY <1>4, Ended, IdleShape
    <3>3. StartWalk(d) => request'[c].op = request[c].op /\ request'[c].index = request[c].index
      BY DEF StartWalk, Shapes, Fields
    <3>4. CASE \E op \in {"preview", "clean", "delete"} : Begin(d, op)
      BY <3>4, <1>4 DEF Begin, Shapes, Idle
    <3>5. CASE \E i \in Indexes : BeginFetch(d, i)
      BY <3>5, <2>3, <1>4 DEF BeginFetch, Shapes
    <3>6. CASE TryLock(d)
      BY <3>6, <3>1, <3>2, <3>3, <1>4 DEF TryLock
    <3>7. CASE ReadFile(d) \/ CheckFile(d) \/ CompareToken(d) \/ RemoveFile(d)
      BY <3>7, <1>4 DEF ReadFile, CheckFile, CompareToken, RemoveFile, Move, Shapes, Fields
    <3>8. CASE RefuseDirectory(d) \/ SendPreview(d) \/ EndFetch(d)
      BY <3>8, <3>1, <3>2, <1>4 DEF RefuseDirectory, SendPreview, EndFetch
    <3>9. CASE RemoveDirectory(d) \/ RecordCleaned(d) \/ DeleteRecord(d)
      BY <3>9, <3>1, <1>4 DEF RemoveDirectory, RecordCleaned, DeleteRecord
    <3>10. CASE Unlock(d)
      BY <3>10, <1>4, IdleShape DEF Unlock, Shapes, Fields
    <3>11. CASE OpenFile(d)
      BY <3>11, <3>2, <1>4 DEF OpenFile, Shapes, Fields
    <3> QED
      BY <2>3, <3>4, <3>5, <3>6, <3>7, <3>8, <3>9, <3>10, <3>11
      DEF RequestNext, RequestStep, BeginPreview, BeginClean, BeginDelete
  <2> QED
    BY <1>4, <2>1, <2>2, <2>3, Frames
<1> QED
  BY <1>1, <1>2, <1>3, <1>4 DEF Listed

(* Types, IInv and Listed are inductive together. *)
Typed == TypeOK /\ IInv /\ Listed

LEMMA TypedInit == Init => Typed
<1> SUFFICES ASSUME Init PROVE Typed
  OBVIOUS
<1>1. IInv
  BY IdleShape, FilesAssumption DEF Init, IInv, Shapes, Alone, Confirmed, Writing
<1>2. Idle \in Requests
  BY IdleShape DEF Idle, Requests
<1>3. TypeOK
  BY <1>2, IdleShape, FilesAssumption DEF Init, TypeOK, Terminal, Nothing
<1>4. Listed
  <2>1. Cardinality(Results) \in Nat
    BY FilesAssumption, FS_Subset, FS_CardinalityType
  <2> QED
    BY <2>1, IdleShape DEF Init, Listed, Nothing
<1> QED
  BY <1>1, <1>3, <1>4 DEF Typed

LEMMA TypedStep == Typed /\ [Next]_vars => Typed'
BY TypeStep, ListedStep, ShapesStep, AloneStep, ConfirmedStep DEF Typed, IInv

(* Requests, previews, links and the record keep their types. *)
THEOREM FilesTypeCorrect == SafeSpec => []TypeOK
<1>1. Typed => TypeOK
  BY DEF Typed
<1> QED
  BY <1>1, TypedInit, TypedStep, PTL DEF SafeSpec

--------------------------------------------------------------------------------
(* The files a cleanup has removed, and the results they were. *)

Removing == {"checking", "unlinking", "recording", "emptied", "unlocking"}

(* Only a cleanup removes files, while it holds FilesMu; at its end none of them
   is among the results. *)
GoneIn(c) ==
  /\ request[c].gone # {} => request[c].op = "clean" /\ request[c].at \in Removing
  /\ request[c].at = "unlocking" => \A i \in 1 .. Len(paths) : paths[i] \notin request[c].gone

(* What LinksAreLive says, while a cleanup is under way too. *)
Live ==
  \A i \in 1 .. Len(paths) :
    IF paths[i] = NoFile THEN i \notin files
    ELSE \/ dir[paths[i]] > 0 \/ paths[i] \in byHand
         \/ \E c \in Clients : paths[i] \in request[c].gone

Accounted == Live /\ \A c \in Clients : GoneIn(c)

(* Requests of others leave the files alone that this one has removed. *)
LEMMA GoneStep ==
  ASSUME Typed, NEW c \in Clients, GoneIn(c), [Next]_vars
  PROVE  GoneIn(c)'
<1> USE DEF Typed, IInv
<1>1. ASSUME request'[c] = request[c]
      PROVE  GoneIn(c)'
  <2>1. CASE request[c].gone = {}
    BY <2>1, <1>1 DEF GoneIn
  <2>2. CASE request[c].gone # {}
    <3>1. Writing(c) /\ worker = "returned"
      BY <2>2 DEF GoneIn, Writing, Removing, Alone
    <3>2. ASSUME NEW d \in Clients, RecordCleaned(d)
          PROVE  request[c].at # "unlocking"
      BY <3>1, <3>2 DEF RecordCleaned, At, Writing, Alone
    <3>3. request[c].at = "unlocking" => UNCHANGED paths
      BY <3>1, <3>2, Frames DEF CollectResults
    <3> QED
      BY <1>1, <3>3 DEF GoneIn
  <2> QED
    BY <2>1, <2>2
<1>2. ASSUME request'[c].gone = {}
      PROVE  GoneIn(c)'
  BY <1>2 DEF GoneIn
<1>3. CASE \E d \in Clients \ {c} : RequestNext(d)
  <2>1. PICK d \in Clients \ {c} : RequestNext(d)
    BY <1>3
  <2>2. CASE Unlock(d)
    <3>1. request[c].at = "waiting" => request[c].gone = {}
      BY DEF GoneIn, Removing
    <3> QED
      BY <2>1, <2>2, <3>1, <1>1, <1>2 DEF Unlock, Shapes, Fields
  <2> QED
    BY <2>1, <2>2, <1>1 DEF RequestNext, BeginPreview, BeginClean, BeginDelete, Begin, BeginFetch,
      RequestStep, Move, StartWalk, End, TryLock, ReadFile, CheckFile, RefuseDirectory, SendPreview,
      CompareToken, RemoveFile, RemoveDirectory, RecordCleaned, DeleteRecord, OpenFile, EndFetch, Shapes
<1>4. CASE RequestNext(c)
  <2>1. End(c) => GoneIn(c)'
    BY Ended, IdleShape, <1>2
  <2>2. ASSUME request[c].at \notin Removing, request'[c].gone = request[c].gone
        PROVE  GoneIn(c)'
    BY <2>2, <1>2 DEF GoneIn
  <2>3. \A at : Move(c, at) => request'[c].gone = request[c].gone
    BY Moved DEF Fields
  <2>4. CASE \E op : Begin(c, op)
    BY <2>4, <1>2, IdleShape DEF Begin, Shapes, Idle
  <2>5. CASE \E i \in Indexes : BeginFetch(c, i)
    BY <2>5, <1>2, IdleShape DEF BeginFetch, Shapes, Idle
  <2>6. CASE TryLock(c) \/ ReadFile(c) \/ RefuseDirectory(c) \/ CompareToken(c)
             \/ DeleteRecord(c) \/ OpenFile(c)
    <3>1. request[c].at \notin Removing
      BY <2>6 DEF TryLock, ReadFile, RefuseDirectory, CompareToken, Walked, At, DeleteRecord, OpenFile, Removing
    <3>2. request'[c].gone = request[c].gone \/ End(c)
      BY <2>6, <2>3 DEF TryLock, StartWalk, ReadFile, RefuseDirectory, CompareToken, DeleteRecord, OpenFile,
        Shapes, Fields
    <3> QED
      BY <3>1, <3>2, <2>1, <2>2
  <2>7. CASE SendPreview(c) \/ EndFetch(c)
    BY <2>7, <2>1 DEF SendPreview, EndFetch
  <2>8. CASE CheckFile(c) \/ RemoveFile(c) \/ RemoveDirectory(c)
    <3>1. request'[c].op = "clean" /\ request'[c].at \in Removing \ {"unlocking"}
      BY <2>8, Moved DEF CheckFile, RemoveFile, RemoveDirectory, At, Removing, Shapes, Fields
    <3> QED
      BY <3>1 DEF GoneIn, Removing
  <2>9. CASE RecordCleaned(c)
    <3>1. request'[c].op = "clean" /\ request'[c].at = "unlocking" /\ request'[c].gone = request[c].gone
      BY <2>9, Moved DEF RecordCleaned, At, Fields
    <3>2. request[c].gone \subseteq Names /\ NoFile \notin request[c].gone
      BY FilesAssumption DEF TypeOK, Requests, NoFile
    <3>3. \A i \in 1 .. Len(paths') : paths'[i] \notin request[c].gone
      <4>1. CASE ForgetAll
        BY <4>1 DEF ForgetAll
      <4>2. CASE ForgetRemoved(c)
        BY <4>2, <3>2, BlankedTypes DEF ForgetRemoved, TypeOK
      <4> QED
        BY <2>9, <4>1, <4>2 DEF RecordCleaned
    <3> QED
      BY <3>1, <3>3 DEF GoneIn, Removing
  <2>10. CASE Unlock(c)
    BY <2>10, <1>2, IdleShape DEF Unlock, Shapes
  <2> QED
    BY <1>4, <2>4, <2>5, <2>6, <2>7, <2>8, <2>9, <2>10
    DEF RequestNext, RequestStep, BeginPreview, BeginClean, BeginDelete
<1>5. CASE UNCHANGED request
  BY <1>1, <1>5
<1> QED
  BY <1>3, <1>4, <1>5, Frames

(* A file removed stays in the account of its cleanup until no result is it. *)
LEMMA GoneKept ==
  ASSUME Typed, NEW c \in Clients, GoneIn(c), [Next]_vars,
         NEW i \in 1 .. Len(paths), paths[i] \in request[c].gone
  PROVE  paths[i] \in request'[c].gone
<1> USE DEF Typed, IInv
<1>1. request[c].gone # {} /\ request[c].at \in Removing \ {"unlocking"}
  BY DEF GoneIn
<1>2. ASSUME NEW d \in Clients, RequestNext(d)
      PROVE  request[c].gone \subseteq request'[c].gone
  <2>1. CASE d # c
    BY <1>1, <1>2, <2>1 DEF RequestNext, BeginPreview, BeginClean, BeginDelete, Begin, BeginFetch,
      RequestStep, Move, StartWalk, End, TryLock, ReadFile, CheckFile, RefuseDirectory, SendPreview,
      CompareToken, RemoveFile, RemoveDirectory, RecordCleaned, DeleteRecord, Unlock, OpenFile, EndFetch,
      Shapes, Removing
  <2>2. CASE d = c
    <3>1. CheckFile(c) \/ RemoveFile(c) \/ RemoveDirectory(c) \/ RecordCleaned(c)
      BY <1>1, <1>2, <2>2, IdleShape DEF RequestNext, BeginPreview, BeginClean, BeginDelete, Begin,
        BeginFetch, RequestStep, TryLock, ReadFile, RefuseDirectory, SendPreview, CompareToken, Walked, At,
        DeleteRecord, Unlock, OpenFile, EndFetch, Removing
    <3>2. \A at : Move(c, at) => request'[c].gone = request[c].gone
      BY Moved DEF Fields
    <3> QED
      BY <2>2, <3>1, <3>2 DEF CheckFile, RemoveFile, RemoveDirectory, RecordCleaned, Shapes, Fields
  <2> QED
    BY <2>1, <2>2
<1> QED
  BY <1>2, Frames

LEMMA LiveStep ==
  ASSUME Typed, Accounted, [Next]_vars
  PROVE  Live'
<1> USE DEF Typed
<1>1. CASE CollectResults
  <2>1. \A i \in 1 .. Len(paths') : paths'[i] # NoFile /\ dir'[paths'[i]] > 0
    BY <1>1, CollectTypes, FilesAssumption DEF CollectResults, diskVars, NoFile
  <2> QED
    BY <2>1 DEF Live
<1>2. ASSUME NEW c \in Clients, RecordCleaned(c)
      PROVE  Live'
  <2>1. CASE ForgetAll
    BY <2>1 DEF ForgetAll, Live
  <2>2. CASE ForgetRemoved(c)
    <3> SUFFICES ASSUME NEW i \in 1 .. Len(paths')
                 PROVE  IF paths'[i] = NoFile THEN i \notin files'
                        ELSE \/ dir'[paths'[i]] > 0 \/ paths'[i] \in byHand'
                             \/ \E d \in Clients : paths'[i] \in request'[d].gone
      BY DEF Live
    <3>1. /\ i \in 1 .. Len(paths) /\ UNCHANGED <<dir, byHand>>
          /\ paths'[i] = IF paths[i] \in request[c].gone THEN NoFile ELSE paths[i]
          /\ files' = {k \in files : paths[k] \notin request[c].gone}
      BY <1>2, <2>2, BlankedTypes DEF ForgetRemoved, TypeOK, RecordCleaned, diskVars
    <3>2. IF paths[i] = NoFile THEN i \notin files
          ELSE \/ dir[paths[i]] > 0 \/ paths[i] \in byHand
               \/ \E d \in Clients : paths[i] \in request[d].gone
      BY <3>1 DEF Accounted, Live
    <3>3. \A d \in Clients : paths[i] \in request[d].gone => paths[i] \in request'[d].gone
      BY <3>1, GoneKept DEF Accounted
    <3> QED
      BY <3>1, <3>2, <3>3
  <2> QED
    BY <1>2, <2>1, <2>2 DEF RecordCleaned
<1>3. CASE UNCHANGED <<paths, files>>
  <2> SUFFICES ASSUME NEW i \in 1 .. Len(paths), paths[i] # NoFile
               PROVE  \/ dir'[paths[i]] > 0 \/ paths[i] \in byHand'
                      \/ \E c \in Clients : paths[i] \in request'[c].gone
    BY <1>3 DEF Accounted, Live
  <2>1. \/ dir[paths[i]] > 0 \/ paths[i] \in byHand
        \/ \E c \in Clients : paths[i] \in request[c].gone
    BY DEF Accounted, Live
  <2>2. \A c \in Clients : paths[i] \in request[c].gone => paths[i] \in request'[c].gone
    BY GoneKept DEF Accounted
  <2>3. paths[i] \in Names
    BY DEF TypeOK
  <2>4. CASE UNCHANGED <<dir, byHand>>
    BY <2>1, <2>2, <2>4
  <2>5. CASE \E n \in Names : Write(n)
    BY <2>5 DEF Write, Listed
  <2>6. ASSUME NEW n \in Names, ChangeByHand(n)
        PROVE  /\ byHand \subseteq byHand' /\ n \in byHand'
               /\ paths[i] # n => dir'[paths[i]] = dir[paths[i]]
    BY <2>3, <2>6 DEF ChangeByHand, TypeOK, Contents
  <2>7. ASSUME NEW c \in Clients, RemoveFile(c)
        PROVE  /\ UNCHANGED byHand
               /\ paths[i] \in request'[c].gone \/ dir'[paths[i]] = dir[paths[i]]
    <3>1. UNCHANGED byHand
      BY <2>7 DEF RemoveFile
    <3>2. CASE UNCHANGED dir
      BY <3>1, <3>2
    <3>3. CASE ~UNCHANGED dir
      <4>1. /\ dir' = [dir EXCEPT ![request[c].name] = 0]
            /\ request'[c].gone = request[c].gone \cup {request[c].name}
        BY <2>7, <3>3 DEF RemoveFile, IInv, Shapes, Fields
      <4> QED
        BY <3>1, <4>1, <2>3 DEF TypeOK, Contents
    <3> QED
      BY <3>2, <3>3
  <2> QED
    BY <2>1, <2>2, <2>4, <2>5, <2>6, <2>7, Frames
<1> QED
  BY <1>1, <1>2, <1>3, Frames

(* Once a cleanup has let go of the files, a result that is listed or that a link
   can still reach is there, unless people have meddled with it
   (recordCleanedFiles, handler_files.go). *)
THEOREM LinksAreLiveCorrect == SafeSpec => []LinksAreLive
<1>1. Init => Accounted
  BY IdleShape DEF Init, Accounted, Live, GoneIn, Idle
<1>2. Typed /\ Accounted /\ [Next]_vars => Accounted'
  BY LiveStep, GoneStep DEF Accounted
<1>3. Typed /\ Accounted => LinksAreLive
  <2> SUFFICES ASSUME Typed, Accounted, ~Cleaning PROVE LinksAreLive
    BY DEF LinksAreLive
  <2>1. \A c \in Clients : request[c].gone = {}
    BY DEF Cleaning, Writing, Accounted, GoneIn, Removing
  <2> QED
    BY <2>1 DEF Accounted, Live, LinksAreLive
<1> QED
  BY <1>1, <1>2, <1>3, TypedInit, TypedStep, PTL DEF SafeSpec

--------------------------------------------------------------------------------
(* What is sent *)

(* FilesMu keeps writers and readers apart. *)
Apart ==
  \A c \in Clients :
    /\ Writing(c) => \A d \in Clients : ~Reading(d)
    /\ request[c].at = "unlocking" => request[c].op \in {"clean", "delete"}

(* A place of the list holds what a link to it was made of, or nothing. *)
LinksAgree ==
  \A c \in Clients : \A i \in DOMAIN links[c] :
    i \in 1 .. Len(paths) => paths[i] \in {links[c][i], NoFile}

Sending(c) ==
  request[c].at = "sending" =>
    /\ request[c].op = "fetch" /\ request[c].name \in Names
    /\ worker \in {"ended", "returned"}
    /\ request[c].name = links[c][request[c].index]
    /\ dir[request[c].name] > 0 \/ request[c].name \in byHand

LEMMA ApartStep ==
  ASSUME Typed, Apart, [Next]_vars
  PROVE  Apart'
<1> USE DEF Typed, IInv
<1> DEFINE NoneTakes == \A d \in Clients : (Writing(d)' => Writing(d)) /\ (Reading(d)' => Reading(d))
           Unlocks(d) == request'[d].at = "unlocking" => request'[d].op \in {"clean", "delete"}
<1>1. NoneTakes /\ (\A d \in Clients : Unlocks(d)) => Apart'
  BY DEF Apart
<1>2. CASE UNCHANGED request
  BY <1>2 DEF Apart, Writing, Reading
<1>3. ASSUME NEW c \in Clients, RequestNext(c)
      PROVE  Apart'
  <2>1. ASSUME NEW at, Move(c, at), Writing(c)
        PROVE  NoneTakes /\ \A d \in Clients : Unlocks(d)
    BY <2>1, Moved DEF Writing, Reading, Fields, Apart
  <2>2. End(c) => NoneTakes /\ \A d \in Clients : Unlocks(d)
    BY Ended, IdleShape DEF Writing, Reading, Apart
  <2>3. CASE \E op \in {"preview", "clean", "delete"} : Begin(c, op)
    BY <2>3, <1>1 DEF Begin, Writing, Reading, Shapes, Idle, Apart
  <2>4. CASE \E i \in Indexes : BeginFetch(c, i)
    <3>1. /\ ~Writing(c)' /\ (FreeToRead \/ ~Reading(c)') /\ Unlocks(c)
          /\ \A d \in Clients \ {c} : request'[d] = request[d]
      BY <2>4 DEF BeginFetch, Writing, Reading, Shapes, Idle
    <3> QED
      BY <3>1 DEF Apart, Writing, Reading, FreeToRead
  <2>5. CASE TryLock(c)
    <3>1. StartWalk(c) \/ Move(c, "deleting") =>
            /\ request'[c].op = request[c].op /\ request'[c].at \in {"walking", "deleting"}
            /\ \A d \in Clients \ {c} : request'[d] = request[d]
      BY DEF StartWalk, Move, Shapes, Fields
    <3>2. CASE request[c].op = "preview" /\ FreeToRead /\ StartWalk(c)
      BY <3>1, <3>2 DEF Apart, Writing, Reading, FreeToRead
    <3>3. CASE request[c].op \in {"clean", "delete"} /\ FreeToWrite /\ (StartWalk(c) \/ Move(c, "deleting"))
      BY <3>1, <3>3 DEF Apart, Writing, Reading, FreeToWrite, FreeToRead
    <3>4. CASE End(c)
      BY <3>4, <2>2, <1>1
    <3> QED
      BY <2>5, <3>2, <3>3, <3>4 DEF TryLock
  <2>6. CASE ReadFile(c) \/ CheckFile(c) \/ CompareToken(c) \/ RemoveFile(c) \/ OpenFile(c)
    <3>1. \A d \in Clients \ {c} : request'[d] = request[d]
      BY <2>6 DEF ReadFile, CheckFile, CompareToken, RemoveFile, OpenFile, Move, End, Shapes
    <3>2. CASE ReadFile(c)
      <4>1. request'[c].at = "walking" /\ request[c].at = "walking" /\ request'[c].op = request[c].op
        BY <3>2 DEF ReadFile, Shapes, Fields
      <4> QED
        BY <3>1, <4>1, <1>1 DEF Writing, Reading, Apart
    <3>3. CASE CheckFile(c) \/ CompareToken(c) \/ RemoveFile(c)
      <4>1. request[c].op = "clean" /\ request[c].at # "trying" /\ request'[c].op = "clean"
        BY <3>3, Moved DEF CheckFile, CompareToken, RemoveFile, Walked, At, Shapes, Fields
      <4> QED
        BY <3>1, <4>1, <1>1 DEF Writing, Reading, Apart
    <3>4. CASE OpenFile(c)
      <4>1. CASE End(c)
        BY <4>1, <2>2, <1>1
      <4>2. CASE ~End(c)
        <5>1. /\ request[c].op = "fetch" /\ request[c].at = "opening"
              /\ request'[c].op = "fetch" /\ request'[c].at = "sending"
          BY <3>4, <4>2 DEF OpenFile, At, Shapes, Fields
        <5> QED
          BY <3>1, <5>1, <1>1 DEF Writing, Reading, Apart
      <4> QED
        BY <4>1, <4>2
    <3> QED
      BY <2>6, <3>2, <3>3, <3>4
  <2>7. CASE RefuseDirectory(c) \/ SendPreview(c) \/ EndFetch(c)
    <3>1. At(c, "clean", "walking") => Writing(c)
      BY DEF At, Writing
    <3> QED
      BY <2>7, <3>1, <2>1, <2>2, <1>1 DEF RefuseDirectory, SendPreview, EndFetch
  <2>8. CASE RemoveDirectory(c) \/ RecordCleaned(c) \/ DeleteRecord(c)
    <3>1. Writing(c)
      BY <2>8 DEF RemoveDirectory, RecordCleaned, DeleteRecord, At, Writing
    <3> QED
      BY <2>8, <3>1, <2>1, <1>1 DEF RemoveDirectory, RecordCleaned, DeleteRecord
  <2>9. CASE Unlock(c)
    <3>1. Writing(c)
      BY <2>9 DEF Unlock, Apart, Writing
    <3>2. \A d \in Clients : ~Writing(d)' /\ Unlocks(d)
      BY <2>9, <3>1, IdleShape DEF Unlock, Shapes, Fields, Alone, Writing, Apart
    <3> QED
      BY <3>2 DEF Apart
  <2> QED
    BY <1>3, <2>3, <2>4, <2>5, <2>6, <2>7, <2>8, <2>9
    DEF RequestNext, RequestStep, BeginPreview, BeginClean, BeginDelete
<1> QED
  BY <1>2, <1>3, Frames

LEMMA AgreeStep ==
  ASSUME Typed, LinksAgree, [Next]_vars
  PROVE  LinksAgree'
<1> USE DEF Typed
<1>1. CASE CollectResults
  BY <1>1 DEF CollectResults, Listed, LinksAgree, clientVars
<1>2. ASSUME NEW c \in Clients, RecordCleaned(c)
      PROVE  LinksAgree'
  <2>1. UNCHANGED links
    BY <1>2 DEF RecordCleaned, clientVars
  <2>2. CASE ForgetAll
    BY <2>2 DEF ForgetAll, LinksAgree
  <2>3. CASE ForgetRemoved(c)
    BY <2>1, <2>3, BlankedTypes DEF ForgetRemoved, LinksAgree, TypeOK
  <2> QED
    BY <1>2, <2>2, <2>3 DEF RecordCleaned
<1>3. CASE UNCHANGED paths
  <2>1. CASE \E c \in Clients : List(c)
    BY <1>3, <2>1 DEF List, LinksAgree, TypeOK
  <2>2. CASE UNCHANGED links
    BY <1>3, <2>2 DEF LinksAgree
  <2> QED
    BY <2>1, <2>2, Frames
<1> QED
  BY <1>1, <1>2, <1>3, Frames

LEMMA SendingStep ==
  ASSUME Typed, Apart, LinksAgree, NEW c \in Clients, Sending(c), [Next]_vars
  PROVE  Sending(c)'
<1> USE DEF Typed, IInv
<1>1. ASSUME request[c].at = "sending", request'[c] = request[c]
      PROVE  Sending(c)'
  <2> DEFINE n == request[c].name
  <2>1. /\ n \in Names /\ worker \in {"ended", "returned"} /\ request[c].op = "fetch"
        /\ n = links[c][request[c].index] /\ (dir[n] > 0 \/ n \in byHand)
    BY <1>1 DEF Sending
  <2>2. links'[c] = links[c]
    BY <1>1, <2>1, IdleShape, Frames DEF List, TypeOK
  <2>3. worker' \in {"ended", "returned"}
    BY <2>1, Frames DEF CollectResults, FinalStatus, Return, EndEarly
  <2>4. dir'[n] > 0 \/ n \in byHand'
    <3>1. CASE \E k \in Names : Write(k)
      BY <3>1, <2>1 DEF Write
    <3>2. CASE \E k \in Names : ChangeByHand(k)
      BY <3>2, <2>1 DEF ChangeByHand, TypeOK, Contents
    <3>3. ASSUME NEW d \in Clients PROVE ~RemoveFile(d)
      BY <1>1, <2>1 DEF RemoveFile, At, Apart, Writing, Reading
    <3>4. CASE UNCHANGED <<dir, byHand>>
      BY <3>4, <2>1
    <3> QED
      BY <3>1, <3>2, <3>3, <3>4, Frames
  <2> QED
    BY <1>1, <2>1, <2>2, <2>3, <2>4 DEF Sending
<1>2. ASSUME request'[c].at # "sending"
      PROVE  Sending(c)'
  BY <1>2 DEF Sending
<1>3. CASE OpenFile(c)
  <2> DEFINE i == request[c].index
  <2>1. CASE End(c)
    BY <2>1, <1>2, Ended, IdleShape
  <2>2. CASE ~End(c)
    <3>1. /\ status = "completed" /\ i <= Len(paths) /\ paths[i] # NoFile /\ dir[paths[i]] > 0
          /\ i \in DOMAIN links[c] /\ request[c].op = "fetch"
          /\ request' = [request EXCEPT ![c].at = "sending", ![c].name = paths[i]]
          /\ UNCHANGED <<dir, links, worker>>
      BY <1>3, <2>2 DEF OpenFile, Servable, At, Listed, diskVars, clientVars
    <3>2. i \in 1 .. Len(paths)
      BY <3>1, FilesAssumption DEF TypeOK, Indexes
    <3>3. paths[i] = links[c][i] /\ paths[i] \in Names
      BY <3>1, <3>2 DEF LinksAgree, TypeOK
    <3>4. request'[c].name = paths[i] /\ request'[c].op = "fetch" /\ request'[c].index = i
      BY <3>1 DEF Shapes, Fields
    <3>5. worker \in {"ended", "returned"}
      BY <3>1 DEF Listed
    <3> QED
      BY <3>1, <3>3, <3>4, <3>5 DEF Sending
  <2> QED
    BY <2>1, <2>2
<1>4. ASSUME request'[c].at = "sending", ~OpenFile(c)
      PROVE  request[c].at = "sending" /\ request'[c] = request[c]
  <2>1. ASSUME NEW d \in Clients, RequestNext(d)
        PROVE  request[c].at = "sending" /\ request'[c] = request[c]
    <3>1. CASE d # c
      BY <1>4, <2>1, <3>1 DEF RequestNext, BeginPreview, BeginClean, BeginDelete, Begin, BeginFetch,
        RequestStep, Move, StartWalk, End, TryLock, ReadFile, CheckFile, RefuseDirectory, SendPreview,
        CompareToken, RemoveFile, RemoveDirectory, RecordCleaned, DeleteRecord, Unlock, OpenFile, EndFetch,
        Shapes, Fields
    <3>2. CASE d = c
      <4>1. \A at : Move(c, at) => request'[c].at = at
        BY Moved
      <4>2. ~End(c) /\ ~StartWalk(c)
        BY <1>4, Ended, IdleShape DEF StartWalk, Shapes, Fields
      <4>3. request'[c].at # "sending"
        <5>1. CASE \E op \in {"preview", "clean", "delete"} : Begin(c, op)
          BY <5>1 DEF Begin, Shapes, Idle
        <5>2. CASE \E i \in Indexes : BeginFetch(c, i)
          BY <5>2 DEF BeginFetch, Shapes, Idle
        <5>3. CASE TryLock(c) \/ RefuseDirectory(c) \/ SendPreview(c) \/ EndFetch(c)
          BY <5>3, <4>1, <4>2 DEF TryLock, RefuseDirectory, SendPreview, EndFetch
        <5>4. CASE ReadFile(c) \/ CheckFile(c) \/ CompareToken(c) \/ RemoveFile(c)
          BY <5>4, <4>1 DEF ReadFile, CheckFile, CompareToken, RemoveFile, Shapes, Fields
        <5>5. CASE RemoveDirectory(c) \/ RecordCleaned(c) \/ DeleteRecord(c)
          BY <5>5, <4>1 DEF RemoveDirectory, RecordCleaned, DeleteRecord
        <5>6. CASE Unlock(c)
          BY <5>6, IdleShape DEF Unlock, Shapes
        <5> QED
          BY <1>4, <2>1, <3>2, <5>1, <5>2, <5>3, <5>4, <5>5, <5>6
          DEF RequestNext, RequestStep, BeginPreview, BeginClean, BeginDelete
      <4> QED
        BY <1>4, <4>3
    <3> QED
      BY <3>1, <3>2
  <2> QED
    BY <1>4, <2>1, Frames
<1> QED
  BY <1>1, <1>2, <1>3, <1>4

(* The file sent is the one the client chose in its list, however old, and no
   cleanup removes it meanwhile (HandleResultFile, DownloadProgress.File). *)
THEOREM SentIsListedCorrect == SafeSpec => []SentIsListed
<1> DEFINE Sound == Apart /\ LinksAgree /\ \A c \in Clients : Sending(c)
<1>1. Init => Sound
  BY IdleShape DEF Init, Apart, Writing, LinksAgree, Nothing, Sending
<1>2. Typed /\ Sound /\ [Next]_vars => Sound'
  BY ApartStep, AgreeStep, SendingStep
<1>3. Sound => SentIsListed
  BY DEF Sending, SentIsListed
<1> QED
  <2> HIDE DEF Sound
  <2> QED
    BY <1>1, <1>2, <1>3, TypedInit, TypedStep, PTL DEF SafeSpec

--------------------------------------------------------------------------------
(* Sums over finite sets.  A sum is one recursive function on the subsets of S, which
   takes out the element that Choice names; what it yields is shown by looking at a
   smallest subset for which it would not. *)
Choice(s) == CHOOSE x \in s : TRUE

Adds(h, f, S) ==
  h = [s \in SUBSET S |-> IF s = {} THEN 0 ELSE f[Choice(s)] + h[s \ {Choice(s)}]]

LEMMA SmallestSet ==
  ASSUME NEW S, IsFiniteSet(S), NEW T, T \subseteq SUBSET S, T # {}
  PROVE  \E x \in T : \A y \in T : ~ (y \subseteq x /\ y # x)
<1>1. IsWellFoundedOn(StrictSubsetOrdering(S), SUBSET S)
  BY FS_StrictSubsetOrderingWellFounded, FS_FiniteSubsetsOfFinite
<1>2. PICK x \in T : \A y \in T : <<y, x>> \notin StrictSubsetOrdering(S)
  BY <1>1, WFMin
<1> QED
  BY <1>2 DEF StrictSubsetOrdering

LEMMA ChoiceIsMember ==
  ASSUME NEW s, s # {}
  PROVE  Choice(s) \in s
BY DEF Choice

LEMMA AddsAgree ==
  ASSUME NEW S, IsFiniteSet(S), NEW V \in SUBSET S, NEW W \in SUBSET S,
         NEW f, NEW g, NEW h, Adds(g, f, V), Adds(h, f, W), NEW s \in SUBSET (V \cap W)
  PROVE  g[s] = h[s]
<1> DEFINE Bad == {t \in SUBSET (V \cap W) : g[t] # h[t]}
<1> SUFFICES ASSUME Bad # {} PROVE FALSE
  OBVIOUS
<1>1. PICK t \in Bad : \A u \in Bad : ~ (u \subseteq t /\ u # t)
  <2>1. Bad \subseteq SUBSET S /\ Bad # {}
    OBVIOUS
  <2> HIDE DEF Bad
  <2> QED
    BY <2>1, SmallestSet
<1>2. t # {}
  BY DEF Adds
<1>3. Choice(t) \in t
  BY <1>2, ChoiceIsMember
<1>4. t \ {Choice(t)} \in SUBSET (V \cap W) /\ g[t \ {Choice(t)}] = h[t \ {Choice(t)}]
  BY <1>1, <1>3
<1>5. /\ g[t] = f[Choice(t)] + g[t \ {Choice(t)}]
      /\ h[t] = f[Choice(t)] + h[t \ {Choice(t)}]
  BY <1>2 DEF Adds
<1> QED
  BY <1>4, <1>5

LEMMA AddsExists ==
  ASSUME NEW S, IsFiniteSet(S), NEW f
  PROVE  \E h : Adds(h, f, S)
<1> DEFINE Bad == {V \in SUBSET S : ~ \E h : Adds(h, f, V)}
           k(U) == CHOOSE h : Adds(h, f, U)
<1> SUFFICES ASSUME Bad # {} PROVE FALSE
  OBVIOUS
<1>1. PICK V \in Bad : \A U \in Bad : ~ (U \subseteq V /\ U # V)
  <2>1. Bad \subseteq SUBSET S /\ Bad # {}
    OBVIOUS
  <2> HIDE DEF Bad
  <2> QED
    BY <2>1, SmallestSet
<1>2. ASSUME NEW U \in SUBSET V, U # V PROVE Adds(k(U), f, U)
  <2>1. \E h : Adds(h, f, U)
    BY <1>1, <1>2
  <2> QED
    BY <2>1
<1> DEFINE g == [s \in SUBSET V |-> IF s = {} THEN 0
                   ELSE f[Choice(s)] + k(s \ {Choice(s)})[s \ {Choice(s)}]]
<1>3. ASSUME NEW s \in SUBSET V, s # {} PROVE g[s \ {Choice(s)}] = k(s \ {Choice(s)})[s \ {Choice(s)}]
  <2> DEFINE U == s \ {Choice(s)}
  <2>1. U \in SUBSET V /\ U # V
    BY <1>3, ChoiceIsMember
  <2>2. Adds(k(U), f, U)
    BY <1>2, <2>1
  <2> SUFFICES g[U] = k(U)[U]
    OBVIOUS
  <2> HIDE DEF k, U
  <2>3. CASE U = {}
    <3>1. g[U] = 0
      BY <2>1, <2>3
    <3> QED
      BY <2>2, <2>3, <3>1 DEF Adds
  <2>4. CASE U # {}
    <3> DEFINE W == U \ {Choice(U)}
    <3>1. W \in SUBSET V /\ W # V /\ W \in SUBSET U
      BY <2>1, <2>4
    <3>2. Adds(k(W), f, W)
      BY <1>2, <3>1 DEF k
    <3>3. g[U] = f[Choice(U)] + k(W)[W]
      BY <2>1, <2>4
    <3>4. k(U)[U] = f[Choice(U)] + k(U)[W]
      BY <2>2, <2>4 DEF Adds
    <3>5. k(U)[W] = k(W)[W]
      <4> HIDE DEF W
      <4>1. U \in SUBSET S /\ W \in SUBSET S /\ W \in SUBSET (U \cap W)
        BY <2>1, <3>1
      <4> QED
        BY <2>2, <3>2, <4>1, AddsAgree
    <3> QED
      BY <3>3, <3>4, <3>5
  <2> QED
    BY <2>3, <2>4
<1>4. Adds(g, f, V)
  <2> HIDE DEF k
  <2> QED
    BY <1>3 DEF Adds
<1> QED
  BY <1>1, <1>4

(* What a sum is: the function that Adds, at the set itself. *)
LEMMA SumAdds ==
  ASSUME NEW S, IsFiniteSet(S), NEW f
  PROVE  \E h : Adds(h, f, S) /\ SumFunctionOnSet(f, S) = h[S]
<1>1. SumFunctionOnSet(f, S) = (CHOOSE h : Adds(h, f, S))[S]
  BY DEF SumFunctionOnSet, FoldFunctionOnSet, MapThenFoldSet, Adds, Choice
<1> QED
  BY <1>1, AddsExists

LEMMA SumOfNone ==
  ASSUME NEW f
  PROVE  SumFunctionOnSet(f, {}) = 0
BY SumAdds, FS_EmptySet DEF Adds

LEMMA SumOfPart ==
  ASSUME NEW S, IsFiniteSet(S), NEW f, NEW h, Adds(h, f, S), NEW T \in SUBSET S
  PROVE  SumFunctionOnSet(f, T) = h[T]
<1>1. IsFiniteSet(T)
  BY FS_Subset
<1>2. PICK g : Adds(g, f, T) /\ SumFunctionOnSet(f, T) = g[T]
  BY <1>1, SumAdds
<1>3. S \in SUBSET S /\ T \in SUBSET (T \cap S)
  OBVIOUS
<1>4. Adds(g, f, T) /\ T \in SUBSET S
  BY <1>2
<1>5. g[T] = h[T]
  BY <1>3, <1>4, AddsAgree
<1> QED
  BY <1>2, <1>5

(* Whichever element is taken out, its value is what goes. *)
LEMMA SumTakesOut ==
  ASSUME NEW S, IsFiniteSet(S), NEW f, \A i \in S : f[i] \in Int, NEW x \in S
  PROVE  /\ SumFunctionOnSet(f, S) \in Int
         /\ SumFunctionOnSet(f, S) = f[x] + SumFunctionOnSet(f, S \ {x})
<1>1. PICK h : Adds(h, f, S) /\ SumFunctionOnSet(f, S) = h[S]
  BY SumAdds
<1> DEFINE Ints == \A t \in SUBSET S : h[t] \in Int
           Bad1 == {t \in SUBSET S : h[t] \notin Int}
           Bad2 == {t \in SUBSET S : \E y \in t : h[t] # f[y] + h[t \ {y}]}
<1>2. Bad1 = {}
  <2> SUFFICES ASSUME Bad1 # {} PROVE FALSE
    OBVIOUS
  <2>1. PICK t \in Bad1 : \A u \in Bad1 : ~ (u \subseteq t /\ u # t)
    <3>1. Bad1 \subseteq SUBSET S /\ Bad1 # {}
      OBVIOUS
    <3> HIDE DEF Bad1
    <3> QED
      BY <3>1, SmallestSet
  <2>2. t # {}
    BY <1>1 DEF Adds
  <2>3. Choice(t) \in t
    BY <2>2, ChoiceIsMember
  <2>4. h[t \ {Choice(t)}] \in Int /\ f[Choice(t)] \in Int
    BY <2>1, <2>3
  <2>5. h[t] = f[Choice(t)] + h[t \ {Choice(t)}]
    BY <1>1, <2>2 DEF Adds
  <2> QED
    BY <2>4, <2>5
<1>3. Bad2 = {}
  <2> SUFFICES ASSUME Bad2 # {} PROVE FALSE
    OBVIOUS
  <2>1. PICK t \in Bad2 : \A u \in Bad2 : ~ (u \subseteq t /\ u # t)
    <3>1. Bad2 \subseteq SUBSET S /\ Bad2 # {}
      OBVIOUS
    <3> HIDE DEF Bad2
    <3> QED
      BY <3>1, SmallestSet
  <2>2. PICK y \in t : h[t] # f[y] + h[t \ {y}]
    OBVIOUS
  <2> DEFINE c == Choice(t)
  <2>3. c \in t /\ h[t] = f[c] + h[t \ {c}]
    BY <1>1, ChoiceIsMember DEF Adds
  <2> HIDE DEF c
  <2>4. y # c
    BY <2>2, <2>3
  <2>5. t \ {c} \notin Bad2 /\ t \ {y} \notin Bad2 /\ t \ {c} \in SUBSET S /\ t \ {y} \in SUBSET S
    BY <2>1, <2>2, <2>3
  <2>6. /\ h[t \ {c}] = f[y] + h[(t \ {c}) \ {y}]
        /\ h[t \ {y}] = f[c] + h[(t \ {y}) \ {c}]
    BY <2>2, <2>3, <2>4, <2>5
  <2>7. (t \ {c}) \ {y} = (t \ {y}) \ {c}
    OBVIOUS
  <2>8. f[c] \in Int /\ f[y] \in Int /\ h[(t \ {y}) \ {c}] \in Int
    BY <1>2, <2>2, <2>3
  <2>9. f[c] + (f[y] + h[(t \ {y}) \ {c}]) = f[y] + (f[c] + h[(t \ {y}) \ {c}])
    BY <2>8
  <2> QED
    BY <2>2, <2>3, <2>6, <2>7, <2>9
<1>4. SumFunctionOnSet(f, S \ {x}) = h[S \ {x}]
  BY <1>1, SumOfPart
<1> QED
  BY <1>1, <1>2, <1>3, <1>4
(* A part of a sum of natural numbers is no larger than the sum. *)
LEMMA SumOfPartBelow ==
  ASSUME NEW S, IsFiniteSet(S), NEW f, \A i \in S : f[i] \in Nat, NEW T \in SUBSET S
  PROVE  /\ SumFunctionOnSet(f, S) \in Nat
         /\ SumFunctionOnSet(f, T) \in Nat
         /\ SumFunctionOnSet(f, T) <= SumFunctionOnSet(f, S)
<1> DEFINE Below(u) == /\ SumFunctionOnSet(f, u) \in Nat
                       /\ SumFunctionOnSet(f, u \cap T) \in Nat
                       /\ SumFunctionOnSet(f, u \cap T) <= SumFunctionOnSet(f, u)
           Bad == {u \in SUBSET S : ~ Below(u)}
<1>1. CASE Bad # {}
  <2>1. PICK u \in Bad : \A v \in Bad : ~ (v \subseteq u /\ v # u)
    <3>1. Bad \subseteq SUBSET S
      OBVIOUS
    <3> HIDE DEF Bad
    <3> QED
      BY <1>1, <3>1, SmallestSet
  <2>2. u \in SUBSET S /\ ~ Below(u)
    BY <2>1
  <2>3. CASE u = {}
    <3>1. u \cap T = {}
      BY <2>3
    <3> QED
      BY <2>2, <2>3, <3>1, SumOfNone
  <2>4. CASE u # {}
    <3>1. PICK x : x \in u
      BY <2>4
    <3>2. u \ {x} \in SUBSET S /\ Below(u \ {x})
      BY <2>1, <3>1
    <3>3. /\ IsFiniteSet(u) /\ IsFiniteSet(u \cap T)
          /\ \A i \in u : f[i] \in Int
      BY <2>2, FS_Subset
    <3>4. SumFunctionOnSet(f, u) = f[x] + SumFunctionOnSet(f, u \ {x})
      BY <3>1, <3>3, SumTakesOut
    <3>5. CASE x \in T
      <4>1. (u \cap T) \ {x} = (u \ {x}) \cap T
        OBVIOUS
      <4>2. SumFunctionOnSet(f, u \cap T) = f[x] + SumFunctionOnSet(f, (u \cap T) \ {x})
        BY <3>1, <3>3, <3>5, SumTakesOut
      <4>3. f[x] \in Nat
        BY <2>2, <3>1
      <4>4. \A a, b, d \in Nat : a <= b => d + a \in Nat /\ d + b \in Nat /\ d + a <= d + b
        OBVIOUS
      <4>5. Below(u)
        BY <3>2, <3>4, <4>1, <4>2, <4>3, <4>4
      <4> QED
        BY <2>2, <4>5
    <3>6. CASE x \notin T
      <4>1. u \cap T = (u \ {x}) \cap T
        BY <3>6
      <4>2. f[x] \in Nat
        BY <2>2, <3>1
      <4> QED
        BY <2>2, <3>2, <3>4, <4>1, <4>2
    <3> QED
      BY <3>5, <3>6
  <2> QED
    BY <2>3, <2>4
<1>2. CASE Bad = {}
  <2>1. Below(S)
    BY <1>2
  <2>2. S \cap T = T
    OBVIOUS
  <2> QED
    BY <2>1, <2>2
<1> QED
  BY <1>1, <1>2

(* A sum of percentages; it is below its maximum if one of them is. *)
LEMMA SumOfPercents ==
  ASSUME NEW S, IsFiniteSet(S), NEW f, \A i \in S : f[i] \in 0 .. 100
  PROVE  SumFunctionOnSet(f, S) \in 0 .. 100 * Cardinality(S)
<1> DEFINE Fit(u) == SumFunctionOnSet(f, u) \in 0 .. 100 * Cardinality(u)
           Bad == {u \in SUBSET S : ~ Fit(u)}
<1>1. CASE Bad # {}
  <2>1. PICK u \in Bad : \A v \in Bad : ~ (v \subseteq u /\ v # u)
    <3>1. Bad \subseteq SUBSET S
      OBVIOUS
    <3> HIDE DEF Bad
    <3> QED
      BY <1>1, <3>1, SmallestSet
  <2>2. u \in SUBSET S /\ ~ Fit(u) /\ IsFiniteSet(u)
    BY <2>1, FS_Subset
  <2>3. CASE u = {}
    BY <2>2, <2>3, SumOfNone, FS_EmptySet
  <2>4. CASE u # {}
    <3>1. PICK x : x \in u
      BY <2>4
    <3>2. Fit(u \ {x})
      BY <2>1, <3>1
    <3>3. SumFunctionOnSet(f, u) = f[x] + SumFunctionOnSet(f, u \ {x})
      BY <2>2, <3>1, SumTakesOut
    <3>4. Cardinality(u) \in Nat /\ Cardinality(u \ {x}) = Cardinality(u) - 1
      BY <2>2, <3>1, FS_RemoveElement, FS_CardinalityType
    <3>5. f[x] \in 0 .. 100
      BY <2>2, <3>1
    <3> QED
      BY <2>2, <3>2, <3>3, <3>4, <3>5
  <2> QED
    BY <2>3, <2>4
<1> QED
  BY <1>1

LEMMA SumBelowHundreds ==
  ASSUME NEW S, IsFiniteSet(S), NEW f, \A i \in S : f[i] \in 0 .. 100, NEW x \in S, f[x] < 100
  PROVE  SumFunctionOnSet(f, S) < 100 * Cardinality(S)
<1>1. SumFunctionOnSet(f, S) = f[x] + SumFunctionOnSet(f, S \ {x})
  BY SumTakesOut
<1>2. SumFunctionOnSet(f, S \ {x}) \in 0 .. 100 * Cardinality(S \ {x})
  BY SumOfPercents, FS_Subset
<1>3. Cardinality(S) \in Nat /\ Cardinality(S \ {x}) = Cardinality(S) - 1
  BY FS_RemoveElement, FS_CardinalityType
<1> QED
  BY <1>1, <1>2, <1>3

--------------------------------------------------------------------------------
(* The figures.  The run explores the Lines of MCRecord; here a line is any there can
   be, and those are some of them. *)
FiguresNext ==
  \/ \E l \in Figures!Line : Figures!HandleProgress(l)
  \/ \E s \in {"failed", "cancelled"} : Figures!End(s) \/ Figures!Unwind(s)
  \/ Figures!Complete
  \/ Figures!Restart

FiguresSpec == Figures!Init /\ [][FiguresNext]_figuresVars

LEMMA LinesAreLine == Lines \subseteq Figures!Line
<1> DEFINE Measure == [total : 0 .. MaxInt, done : 0 .. MaxInt \cup {-1}, part : 0 .. 100 \cup {-1}]
           Ending == {"downloading", "finished"}
           Named == {"video", "audio", "other"}
<1>1. Sizes \subseteq 0 .. MaxInt /\ Codecs \subseteq SUBSET Figures!Kinds
  BY FiguresAssumption DEF Sizes, Codecs, Figures!Kinds
<1>2. ASSUME NEW f \in Formats \cup {"none"}, NEW c \in SUBSET Figures!Kinds, NEW n \in Named,
             NEW s \in Ending \cup {"error", "other"}, NEW m \in Measure
      PROVE  Line(f, c, n, s, m) \in Figures!Line
  BY DEF Line, Figures!Line, Figures!Kinds, Figures!NoFormat, Figures!Missing
<1> DEFINE under == [total: Sizes, done: Sizes, part: {-1}] \cup [total: {0}, done: Sizes, part: {50}]
           over == [total: Sizes, done: Sizes, part: {-1}]
           uncounted == Ending \X [total: Sizes, done: {-1}, part: {-1}]
           measured == ({"downloading"} \X under) \cup ({"finished"} \X over)
           assigned == ({{}} \X Named) \cup ({{"video"}, {"audio"}} \X {"other"})
           nothing == [total |-> 0, done |-> 0, part |-> -1]
<1>3. under \cup over \cup [total: Sizes, done: {-1}, part: {-1}] \subseteq Measure /\ nothing \in Measure
  <2>1. {0} \cup Sizes \subseteq 0 .. MaxInt /\ {-1, 50} \subseteq 0 .. 100 \cup {-1}
    BY <1>1, FiguresAssumption
  <2>2. under \subseteq Measure
    BY <2>1
  <2>3. over \subseteq Measure
    BY <2>1
  <2>4. [total: Sizes, done: {-1}, part: {-1}] \subseteq Measure
    BY <2>1
  <2>5. nothing \in Measure
    BY <2>1
  <2> QED
    BY <2>2, <2>3, <2>4, <2>5
<1>4. measured \cup uncounted \subseteq Ending \X Measure
  <2> HIDE DEF under, over, Measure
  <2> QED
    BY <1>3
<1>5. assigned \subseteq (SUBSET Figures!Kinds) \X Named
  BY DEF Figures!Kinds
<1> HIDE DEF Measure, under, over, uncounted, measured, assigned, nothing
<1>6. \A f \in Formats, c \in Codecs, m \in measured \cup uncounted :
        Line(f, c, "other", m[1], m[2]) \in Figures!Line
  BY <1>1, <1>2, <1>4
<1>7. \A a \in assigned, m \in measured : Line("none", a[1], a[2], m[1], m[2]) \in Figures!Line
  BY <1>2, <1>4, <1>5
<1>8. \A a \in assigned, s \in {"error", "other"} :
        Line("none", a[1], a[2], s, nothing) \in Figures!Line
  BY <1>2, <1>3, <1>5
<1> QED
  BY <1>6, <1>7, <1>8 DEF Lines, measured, uncounted, assigned, nothing, under, over

LEMMA ExploredAreFigures == Figures!Spec => FiguresSpec
<1>1. [Figures!Next]_(Figures!vars) => [FiguresNext]_figuresVars
  BY LinesAreLine DEF Figures!Next, FiguresNext, Figures!vars, figuresVars
<1> QED
  BY <1>1, PTL DEF Figures!Spec, FiguresSpec

(* What the proof needs of the types. *)
GroupFields == {"status", "total", "done", "percent"}

FigureShapes ==
  /\ expected \subseteq Figures!Kinds
  /\ DOMAIN group = Figures!Kinds /\ \A k \in Figures!Kinds : DOMAIN group[k] = GroupFields
  /\ \A i \in DOMAIN streams : DOMAIN streams[i] = GroupFields \cup {"kind"}
  /\ DOMAIN figures = {"total", "done", "percent"}

FiguresInv == FigureShapes /\ Figures!EndedShowsEnd

(* The aggregate is a record of figures, whichever way it was reckoned. *)
LEMMA AggregateShape ==
  ASSUME NEW ss, NEW gs, NEW comb
  PROVE  DOMAIN Figures!Aggregate(ss, gs, comb) = {"total", "done", "percent"}
<1>1. DOMAIN Figures!OfStreams(ss) = {"total", "done", "percent"}
  BY DEF Figures!OfStreams
<1>2. DOMAIN Figures!OfGroups(gs, comb) = {"total", "done", "percent"}
  BY DEF Figures!OfGroups
<1> QED
  BY <1>1, <1>2 DEF Figures!Aggregate

(* Marking leaves every expected group, and every stream, in a terminal state. *)
LEMMA MarkedGroups ==
  ASSUME FigureShapes, NEW s \in {"failed", "cancelled"}, NEW gs,
         DOMAIN gs = Figures!Kinds, \A k \in Figures!Kinds : DOMAIN gs[k] = GroupFields
  PROVE  /\ DOMAIN Figures!GroupsMarked(gs, s) = Figures!Kinds
         /\ \A k \in Figures!Kinds : DOMAIN Figures!GroupsMarked(gs, s)[k] = GroupFields
         /\ \A k \in expected : Figures!GroupsMarked(gs, s)[k].status \in Figures!Terminal
<1> DEFINE m == Figures!GroupsMarked(gs, s)
<1>1. DOMAIN m = Figures!Kinds
  BY DEF Figures!GroupsMarked
<1>2. ASSUME NEW k \in Figures!Kinds
      PROVE  m[k] = IF k \in expected /\ gs[k].status # "completed"
                      THEN [gs[k] EXCEPT !.status = s] ELSE gs[k]
  BY DEF Figures!GroupsMarked
<1> HIDE DEF m
<1>3. \A k \in Figures!Kinds : DOMAIN m[k] = GroupFields
  BY <1>2 DEF GroupFields
<1>4. \A k \in expected : m[k].status \in Figures!Terminal
  BY <1>2 DEF GroupFields, FigureShapes, Figures!Terminal
<1> QED
  BY <1>1, <1>3, <1>4 DEF m

LEMMA MarkedStreams ==
  ASSUME FigureShapes, NEW s \in {"failed", "cancelled"}
  PROVE  /\ DOMAIN Figures!StreamsMarked(s) = DOMAIN streams
         /\ \A i \in DOMAIN streams :
              /\ DOMAIN Figures!StreamsMarked(s)[i] = GroupFields \cup {"kind"}
              /\ Figures!StreamsMarked(s)[i].status \in Figures!Terminal
<1> DEFINE m == Figures!StreamsMarked(s)
<1>1. DOMAIN m = DOMAIN streams
  BY DEF Figures!StreamsMarked
<1>2. ASSUME NEW i \in DOMAIN streams
      PROVE  m[i] = IF streams[i].status = "completed" THEN streams[i]
                      ELSE [streams[i] EXCEPT !.status = s]
  BY DEF Figures!StreamsMarked
<1> HIDE DEF m
<1>3. ASSUME NEW i \in DOMAIN streams
      PROVE  DOMAIN m[i] = GroupFields \cup {"kind"} /\ m[i].status \in Figures!Terminal
  BY <1>2 DEF FigureShapes, GroupFields, Figures!Terminal
<1> QED
  BY <1>1, <1>3 DEF m

(* A line that is not an error leaves the record running, and its parts in shape. *)
LEMMA LineStep ==
  ASSUME FiguresInv, NEW l, Figures!Identified(l) \/ Figures!Legacy(l) \/ Figures!OtherLine(l)
  PROVE  FiguresInv'
<1> USE DEF FiguresInv
<1>1. shownStatus' \notin Figures!Terminal => Figures!EndedShowsEnd'
  BY DEF Figures!EndedShowsEnd, Figures!Terminal
<1>2. CASE Figures!Identified(l)
  <2>1. DOMAIN Figures!StreamAfter(l) = GroupFields \cup {"kind"}
    BY DEF Figures!StreamAfter, GroupFields
  <2>2. \A i \in DOMAIN streams' : DOMAIN streams'[i] = GroupFields \cup {"kind"}
    BY <1>2, <2>1 DEF Figures!Identified, FigureShapes
  <2>3. \A ss, k : DOMAIN Figures!GroupOf(ss, k) = GroupFields
    BY DEF Figures!GroupOf, GroupFields
  <2>4. DOMAIN group' = Figures!Kinds /\ \A k \in Figures!Kinds : DOMAIN group'[k] = GroupFields
    BY <1>2, <2>3 DEF Figures!Identified
  <2>5. DOMAIN figures' = {"total", "done", "percent"}
    BY <1>2, AggregateShape DEF Figures!Identified
  <2>6. FigureShapes'
    BY <1>2, <2>2, <2>4, <2>5 DEF Figures!Identified, FigureShapes
  <2>7. shownStatus' \notin Figures!Terminal
    BY <1>2 DEF Figures!Identified, Figures!Terminal
  <2> QED
    BY <1>1, <2>6, <2>7
<1>3. CASE Figures!Legacy(l)
  <2>1. \A g : DOMAIN g = GroupFields =>
          /\ DOMAIN Figures!LegacyFinished(g, l) = GroupFields
          /\ DOMAIN Figures!LegacyDownloading(g, l) = GroupFields
    BY DEF Figures!LegacyFinished, Figures!LegacyDownloading
  <2>2. DOMAIN group' = Figures!Kinds /\ \A k \in Figures!Kinds : DOMAIN group'[k] = GroupFields
    BY <1>3, <2>1 DEF Figures!Legacy, FigureShapes
  <2>3. DOMAIN figures' = {"total", "done", "percent"}
    BY <1>3, AggregateShape DEF Figures!Legacy
  <2>4. FigureShapes'
    BY <1>3, <2>2, <2>3 DEF Figures!Legacy, FigureShapes
  <2>5. shownStatus' \notin Figures!Terminal
    BY <1>3 DEF Figures!Legacy, Figures!Terminal
  <2> QED
    BY <1>1, <2>4, <2>5
<1>4. CASE Figures!OtherLine(l)
  BY <1>1, <1>4 DEF Figures!OtherLine, FigureShapes
<1> QED
  BY <1>2, <1>3, <1>4


(* Whatever ends a job marks its parts in the same update. *)
LEMMA MarkedEnds ==
  ASSUME FigureShapes, NEW s \in {"failed", "cancelled"}, NEW gs,
         DOMAIN gs = Figures!Kinds, \A k \in Figures!Kinds : DOMAIN gs[k] = GroupFields,
         group' = Figures!GroupsMarked(gs, s), streams' = Figures!StreamsMarked(s),
         shownStatus' = s, UNCHANGED expected, DOMAIN figures' = {"total", "done", "percent"}
  PROVE  FiguresInv'
<1>1. FigureShapes'
  <2>1. DOMAIN group' = Figures!Kinds /\ \A k \in Figures!Kinds : DOMAIN group'[k] = GroupFields
    BY MarkedGroups
  <2>2. \A i \in DOMAIN streams' : DOMAIN streams'[i] = GroupFields \cup {"kind"}
    BY MarkedStreams
  <2> QED
    BY <2>1, <2>2 DEF FigureShapes
<1>2. \A k \in expected' : group'[k].status \in Figures!Terminal
  BY MarkedGroups
<1>3. \A i \in DOMAIN streams' : streams'[i].status \in Figures!Terminal
  BY MarkedStreams
<1>4. Figures!EndedShowsEnd'
  BY <1>2, <1>3 DEF Figures!EndedShowsEnd
<1> QED
  BY <1>1, <1>4 DEF FiguresInv

LEMMA ErrorStep ==
  ASSUME FiguresInv, NEW l, Figures!ErrorLine(l)
  PROVE  FiguresInv'
<1> DEFINE gs == [k \in Figures!Kinds |-> IF k \in Figures!Targets(l)
                                            THEN [group[k] EXCEPT !.status = "failed"]
                                            ELSE group[k]]
<1>1. DOMAIN gs = Figures!Kinds /\ \A k \in Figures!Kinds : DOMAIN gs[k] = GroupFields
  BY DEF FiguresInv, FigureShapes
<1>2. /\ group' = Figures!GroupsMarked(gs, "failed") /\ streams' = Figures!StreamsMarked("failed")
      /\ shownStatus' = "failed" /\ UNCHANGED <<expected, figures>>
  BY DEF Figures!ErrorLine
<1>3. FigureShapes
  BY DEF FiguresInv
<1> HIDE DEF gs
<1> QED
  BY <1>1, <1>2, <1>3, MarkedEnds DEF FigureShapes

LEMMA EndStep ==
  ASSUME FiguresInv, NEW s \in {"failed", "cancelled"}, Figures!End(s) \/ Figures!Unwind(s)
  PROVE  FiguresInv'
<1>1. /\ group' = Figures!GroupsMarked(group, s) /\ streams' = Figures!StreamsMarked(s)
      /\ shownStatus' = s /\ UNCHANGED <<expected, figures>>
  BY DEF Figures!End, Figures!Unwind, Figures!Mark
<1> QED
  BY <1>1, MarkedEnds DEF FiguresInv, FigureShapes

(* A clean exit shows every expected part as complete. *)
LEMMA CompleteStep ==
  ASSUME FiguresInv, Figures!Complete
  PROVE  FiguresInv'
<1> USE DEF FiguresInv
<1>1. \A g : DOMAIN g = GroupFields =>
        /\ DOMAIN Figures!Completed(g) = GroupFields
        /\ Figures!Completed(g).status = "completed" /\ Figures!Completed(g).percent = 100
  BY DEF Figures!Completed, GroupFields
<1>2. /\ DOMAIN group' = Figures!Kinds /\ \A k \in Figures!Kinds : DOMAIN group'[k] = GroupFields
      /\ \A k \in expected : group'[k].status = "completed" /\ group'[k].percent = 100
  BY <1>1 DEF Figures!Complete, FigureShapes
<1>3. DOMAIN figures' = {"total", "done", "percent"} /\ figures'.percent = 100
  BY AggregateShape DEF Figures!Complete
<1>4. UNCHANGED <<expected, streams>> /\ shownStatus' = "completed"
  BY DEF Figures!Complete
<1>5. FigureShapes'
  BY <1>2, <1>3, <1>4 DEF FigureShapes
<1>6. Figures!EndedShowsEnd'
  BY <1>2, <1>3, <1>4 DEF Figures!EndedShowsEnd, Figures!Terminal
<1> QED
  BY <1>5, <1>6

(* A restart keeps what has ended, and fails what has not. *)
LEMMA RestartStep ==
  ASSUME FiguresInv, Figures!Restart
  PROVE  FiguresInv'
<1> DEFINE saved == [k \in Figures!Kinds |-> [group[k] EXCEPT !.percent = Figures!Clamp(@)]]
<1>1. /\ DOMAIN saved = Figures!Kinds /\ \A k \in Figures!Kinds : DOMAIN saved[k] = GroupFields
      /\ \A k \in Figures!Kinds : saved[k].status = group[k].status
                                   /\ saved[k].percent = Figures!Clamp(group[k].percent)
  BY DEF FiguresInv, FigureShapes, GroupFields
<1>2. /\ UNCHANGED expected /\ DOMAIN figures' = {"total", "done", "percent"}
      /\ figures'.percent = Figures!Clamp(figures.percent)
  BY DEF Figures!Restart, FiguresInv, FigureShapes
<1>3. Figures!Clamp(100) = 100
  BY DEF Figures!Clamp, Figures!AtMost100
<1>4. CASE shownStatus \in Figures!Terminal
  <2>1. group' = saved /\ UNCHANGED <<shownStatus, streams>>
    BY <1>4 DEF Figures!Restart
  <2> HIDE DEF saved
  <2>2. FigureShapes'
    BY <1>1, <1>2, <2>1 DEF FiguresInv, FigureShapes
  <2>3. expected \subseteq Figures!Kinds /\ Figures!EndedShowsEnd
    BY DEF FiguresInv, FigureShapes
  <2>4. Figures!EndedShowsEnd'
    BY <1>1, <1>2, <1>3, <2>1, <2>3 DEF Figures!EndedShowsEnd
  <2> QED
    BY <2>2, <2>4 DEF FiguresInv
<1>5. CASE shownStatus \notin Figures!Terminal
  <2>1. /\ group' = Figures!GroupsMarked(saved, "failed") /\ shownStatus' = "failed"
        /\ streams' = Figures!StreamsMarked("failed")
    BY <1>5 DEF Figures!Restart
  <2> HIDE DEF saved
  <2> QED
    BY <1>1, <1>2, <2>1, MarkedEnds DEF FiguresInv
<1> QED
  BY <1>4, <1>5

(* A job that has ended shows nothing under way, for any formats and any lines,
   whoever ended it first and whatever came after. *)
THEOREM EndedShowsEndCorrect == FiguresSpec => []EndedShowsEnd
<1>1. Figures!Init => FiguresInv
  BY DEF Figures!Init, FiguresInv, FigureShapes, Figures!EndedShowsEnd, Figures!Terminal,
    GroupFields
<1>2. FiguresInv /\ [FiguresNext]_figuresVars => FiguresInv'
  <2> SUFFICES ASSUME FiguresInv, [FiguresNext]_figuresVars PROVE FiguresInv'
    OBVIOUS
  <2>1. CASE UNCHANGED figuresVars
    BY <2>1 DEF figuresVars, FiguresInv, FigureShapes, Figures!EndedShowsEnd
  <2>2. CASE FiguresNext
    BY <2>2, LineStep, ErrorStep, EndStep, CompleteStep, RestartStep
    DEF FiguresNext, Figures!HandleProgress
  <2> QED
    BY <2>1, <2>2
<1>3. FiguresInv => EndedShowsEnd
  BY DEF FiguresInv, EndedShowsEnd
<1> QED
  BY <1>1, <1>2, <1>3, PTL DEF FiguresSpec


--------------------------------------------------------------------------------
(* The figures add up.  Streams always, and groups until there are streams, are
   within the width of a byte count and between nought and a hundred percent. *)
Measured(f) ==
  /\ IsFiniteSet(DOMAIN f)
  /\ \A i \in DOMAIN f : /\ f[i].total \in 0 .. MaxInt /\ f[i].done \in 0 .. MaxInt
                         /\ f[i].percent \in 0 .. 100

LEMMA SameSum ==
  \A f, S : Figures!SumFunctionOnSet(f, S) = SumFunctionOnSet(f, S)
BY DEF Figures!SumFunctionOnSet, Figures!FoldFunctionOnSet, Figures!MapThenFoldSet,
  SumFunctionOnSet, FoldFunctionOnSet, MapThenFoldSet

LEMMA SameCardinality ==
  \A S : Figures!Cardinality(S) = Cardinality(S)
BY DEF Figures!Cardinality, Cardinality

(* Division and remainder, for divisors that are no numerals. *)
LEMMA QuotientIsNat ==
  ASSUME NEW n \in Nat, NEW c \in Nat \ {0}
  PROVE  n \div c \in Nat
OBVIOUS

LEMMA QuotientIsInt ==
  ASSUME NEW n \in Int, NEW c \in Nat \ {0}
  PROVE  n \div c \in Int
OBVIOUS

LEMMA MeanBelow ==
  ASSUME NEW n \in Nat, NEW c \in Nat \ {0}, n < 100 * c
  PROVE  n \div c \in Nat /\ n \div c < 100
OBVIOUS

(* A number that fits stays as it is; any other becomes one that fits. *)
LEMMA WrapFits ==
  ASSUME NEW n \in Int
  PROVE  /\ Figures!Wrap(n) \in Figures!Bytes
         /\ n \in 0 .. MaxInt => Figures!Wrap(n) = n
<1> DEFINE w == 2 * (MaxInt + 1)
<1>1. w \in Nat \ {0} /\ n + MaxInt + 1 \in Int
  BY FiguresAssumption
<1>2. (n + MaxInt + 1) % w \in 0 .. w - 1
  <2> HIDE DEF w
  <2> QED
    BY <1>1
<1>3. n \in 0 .. MaxInt => (n + MaxInt + 1) % w = n + MaxInt + 1
  <2>1. \A a, b \in Nat : a < b => a % b = a
    OBVIOUS
  <2>2. n \in 0 .. MaxInt => n + MaxInt + 1 \in Nat /\ n + MaxInt + 1 < w
    BY FiguresAssumption
  <2> HIDE DEF w
  <2> QED
    BY <1>1, <2>1, <2>2
<1> QED
  BY <1>1, <1>2, <1>3, FiguresAssumption DEF Figures!Wrap, Figures!Bytes

LEMMA SharesFit ==
  ASSUME NEW done \in Int, NEW total \in Nat \ {0}
  PROVE  /\ Figures!Share(done, total) \in Int
         /\ done >= 0 => Figures!Share(done, total) \in 0 .. 100
<1>1. 100 * done \in Int /\ (done >= 0 => 100 * done \in Nat)
  OBVIOUS
<1>2. (100 * done) \div total \in Int /\ (done >= 0 => (100 * done) \div total \in Nat)
  BY <1>1, QuotientIsInt, QuotientIsNat
<1> QED
  BY <1>2 DEF Figures!Share, Figures!AtMost100

LEMMA SumsFit ==
  ASSUME NEW f, Measured(f), NEW T \in SUBSET DOMAIN f
  PROVE  /\ Figures!Total(f, T) \in Figures!Bytes
         /\ Figures!Received(f, T) \in Figures!Bytes
         /\ Figures!Percents(f, T) \in 0 .. 100 * Cardinality(T)
         /\ IsFiniteSet(T) /\ Cardinality(T) \in Nat
         /\ T # {} => Cardinality(T) \in Nat \ {0}
<1> DEFINE totals == [i \in DOMAIN f |-> f[i].total]
           dones == [i \in DOMAIN f |-> f[i].done]
           percents == [i \in DOMAIN f |-> f[i].percent]
<1>1. IsFiniteSet(T) /\ Cardinality(T) \in Nat /\ (T # {} => Cardinality(T) # 0)
  BY FS_Subset, FS_CardinalityType, FS_EmptySet DEF Measured
<1>2. \A i \in T : totals[i] \in Nat /\ dones[i] \in Nat /\ percents[i] \in 0 .. 100
  BY FiguresAssumption DEF Measured
<1> HIDE DEF totals, dones, percents
<1>3. SumFunctionOnSet(totals, T) \in Int /\ SumFunctionOnSet(dones, T) \in Int
  BY <1>1, <1>2, SumOfPartBelow
<1>4. SumFunctionOnSet(percents, T) \in 0 .. 100 * Cardinality(T)
  BY <1>1, <1>2, SumOfPercents
<1> QED
  BY <1>1, <1>3, <1>4, WrapFits, SameSum
  DEF Figures!Total, Figures!Received, Figures!Percents, totals, dones, percents

(* The mean of percentages, of which some are not there and count as nought. *)
LEMMA MeansFit ==
  ASSUME NEW f, Measured(f), NEW T \in SUBSET DOMAIN f, NEW n \in Nat, Cardinality(T) + n # 0
  PROVE  /\ Figures!Percents(f, T) \div (Cardinality(T) + n) \in Nat
         /\ n # 0 \/ (\E x \in T : f[x].percent < 100) =>
              Figures!Percents(f, T) \div (Cardinality(T) + n) < 100
<1> DEFINE percents == [i \in DOMAIN f |-> f[i].percent]
           sum == Figures!Percents(f, T)
<1>1. sum \in 0 .. 100 * Cardinality(T) /\ Cardinality(T) \in Nat /\ IsFiniteSet(T)
  BY SumsFit
<1>2. ASSUME NEW x \in T, f[x].percent < 100 PROVE sum < 100 * Cardinality(T)
  <2>1. \A i \in T : percents[i] \in 0 .. 100 /\ percents[x] < 100
    BY <1>2 DEF Measured
  <2>2. SumFunctionOnSet(percents, T) < 100 * Cardinality(T)
    <3> HIDE DEF percents
    <3> QED
      BY <1>1, <2>1, SumBelowHundreds
  <2> QED
    BY <2>2, SameSum DEF Figures!Percents
<1> DEFINE c == Cardinality(T) + n
<1>3. c \in Nat \ {0} /\ (n # 0 \/ (\E x \in T : f[x].percent < 100) => sum < 100 * c)
  BY <1>1, <1>2
<1>4. sum \in Nat
  BY <1>1
<1> HIDE DEF c, sum
<1>5. sum \div c \in Nat /\ (sum < 100 * c => sum \div c < 100)
  BY <1>3, <1>4, QuotientIsNat, MeanBelow
<1> QED
  BY <1>3, <1>5 DEF c, sum

LEMMA PartsAddUp ==
  ASSUME NEW f, Measured(f), NEW T \in SUBSET DOMAIN f, NEW U \in SUBSET T,
         SumFunctionOnSet([i \in DOMAIN f |-> f[i].done], DOMAIN f) <= MaxInt
  PROVE  Figures!Received(f, U) <= Figures!Received(f, T)
<1> DEFINE dones == [i \in DOMAIN f |-> f[i].done]
<1>1. IsFiniteSet(DOMAIN f) /\ IsFiniteSet(T) /\ \A i \in DOMAIN f : dones[i] \in Nat
  BY FS_Subset, FiguresAssumption DEF Measured
<1> HIDE DEF dones
<1>2. /\ SumFunctionOnSet(dones, T) \in Nat /\ SumFunctionOnSet(dones, DOMAIN f) \in Nat
      /\ SumFunctionOnSet(dones, T) <= SumFunctionOnSet(dones, DOMAIN f)
  BY <1>1, SumOfPartBelow
<1>3. /\ SumFunctionOnSet(dones, U) \in Nat
      /\ SumFunctionOnSet(dones, U) <= SumFunctionOnSet(dones, T)
  BY <1>1, SumOfPartBelow
<1>4. SumFunctionOnSet(dones, DOMAIN f) <= MaxInt
  BY DEF dones
<1>5. SumFunctionOnSet(dones, T) \in 0 .. MaxInt /\ SumFunctionOnSet(dones, U) \in 0 .. MaxInt
  BY <1>2, <1>3, <1>4, FiguresAssumption
<1> QED
  BY <1>3, <1>5, WrapFits, SameSum DEF Figures!Received, dones


LEMMA KindsAreFinite == IsFiniteSet(Figures!Kinds) /\ Figures!Kinds # {}
<1>1. Figures!Kinds = {"video"} \cup {"audio"}
  BY DEF Figures!Kinds
<1>2. IsFiniteSet({"video"} \cup {"audio"})
  BY FS_Singleton, FS_AddElement
<1> QED
  BY <1>1, <1>2

(* RecalculateAggregate, whichever way it goes: what it makes fits, and it is not a hundred
   percent while a part has not begun. *)
LEMMA StreamsAddUp ==
  ASSUME expected \in (SUBSET Figures!Kinds) \ {{}}, NEW ss, Measured(ss), DOMAIN ss # {}
  PROVE  /\ Figures!OfStreams(ss) \in [total: Figures!Bytes, done: Figures!Bytes, percent: 0 .. 100]
         /\ Figures!OfStreams(ss).done = Figures!Received(ss, DOMAIN ss)
         /\ (\E k \in expected : Figures!Members(ss, k) = {}) => Figures!OfStreams(ss).percent < 100
<1> DEFINE all == DOMAIN ss
           unseen == {k \in expected : Figures!Members(ss, k) = {}}
           total == Figures!Total(ss, all)
           done == Figures!Received(ss, all)
           mean == Figures!Percents(ss, all) \div (Cardinality(all) + Cardinality(unseen))
<1>1. /\ total \in Figures!Bytes /\ done \in Figures!Bytes
      /\ Cardinality(all) \in Nat \ {0}
  BY SumsFit
<1>2. /\ IsFiniteSet(unseen) /\ Cardinality(unseen) \in Nat
      /\ unseen # {} => Cardinality(unseen) # 0
  BY KindsAreFinite, FS_Subset, FS_CardinalityType, FS_EmptySet
<1>3. mean \in Nat /\ (unseen # {} => mean < 100)
  <2> HIDE DEF unseen
  <2>1. Cardinality(all) + Cardinality(unseen) # 0
    BY <1>1, <1>2
  <2> QED
    BY <1>2, <2>1, MeansFit
<1>4. total > 0 => Figures!Share(done, total) \in Int
  <2>1. total \in Int /\ done \in Int
    BY <1>1, FiguresAssumption DEF Figures!Bytes
  <2> HIDE DEF total, done
  <2> QED
    BY <2>1, SharesFit
<1> DEFINE p == IF unseen = {} /\ Figures!Known(ss, all) /\ total > 0
                THEN Figures!Share(done, total) ELSE mean
<1>5. Figures!OfStreams(ss) = [total |-> total, done |-> done, percent |-> Figures!Clamp(p)]
  BY SameCardinality DEF Figures!OfStreams
<1>6. p \in Int /\ (unseen # {} => p < 100)
  BY <1>3, <1>4
<1>7. Figures!Clamp(p) \in 0 .. 100 /\ (unseen # {} => Figures!Clamp(p) < 100)
  <2> HIDE DEF p
  <2> QED
    BY <1>6 DEF Figures!Clamp, Figures!AtMost100
<1> HIDE DEF p, total, done, mean
<1>8. (\E k \in expected : Figures!Members(ss, k) = {}) => unseen # {}
  OBVIOUS
<1> QED
  BY <1>1, <1>5, <1>7, <1>8 DEF done

LEMMA GroupsAddUp ==
  ASSUME expected \in (SUBSET Figures!Kinds) \ {{}}, NEW gs, Measured(gs), DOMAIN gs = Figures!Kinds,
         NEW comb \in BOOLEAN
  PROVE  /\ Figures!OfGroups(gs, comb) \in [total: Figures!Bytes, done: Figures!Bytes, percent: Int]
         /\ \A k \in expected : ~comb /\ gs[k].total = 0 /\ gs[k].percent = 0 =>
              Figures!Clamp(Figures!OfGroups(gs, comb).percent) < 100
<1> DEFINE parts == IF expected = Figures!Kinds /\ comb THEN {"video"} ELSE expected
           total == Figures!Total(gs, parts)
           done == Figures!Received(gs, parts)
           mean == Figures!Percents(gs, parts) \div Cardinality(parts)
<1>1. parts \in SUBSET DOMAIN gs /\ parts # {} /\ (~comb => parts = expected)
  <2>1. expected \in SUBSET Figures!Kinds /\ expected # {} /\ "video" \in Figures!Kinds
    BY DEF Figures!Kinds
  <2> QED
    BY <2>1
<1> HIDE DEF parts
<1>2. /\ total \in Figures!Bytes /\ done \in Figures!Bytes
      /\ Cardinality(parts) \in Nat \ {0}
  BY <1>1, SumsFit
<1>3. mean \in Nat /\ ((\E k \in parts : gs[k].percent < 100) => mean < 100)
  <2>1. Cardinality(parts) + 0 # 0 /\ Cardinality(parts) + 0 = Cardinality(parts)
    BY <1>2
  <2> QED
    BY <1>1, <2>1, MeansFit
<1>4. total > 0 => Figures!Share(done, total) \in Int
  <2>1. total \in Int /\ done \in Int
    BY <1>2, FiguresAssumption DEF Figures!Bytes
  <2> HIDE DEF total, done
  <2> QED
    BY <2>1, SharesFit
<1> DEFINE p == IF Figures!Known(gs, parts) /\ total > 0 THEN Figures!Share(done, total) ELSE mean
<1>5. Figures!OfGroups(gs, comb) = [total |-> total, done |-> done, percent |-> p]
  BY SameCardinality DEF Figures!OfGroups, parts
<1>6. p \in Int
  BY <1>3, <1>4
<1>7. ASSUME NEW k \in expected, ~comb, gs[k].total = 0, gs[k].percent = 0
      PROVE  Figures!Clamp(p) < 100
  <2>1. ~ Figures!Known(gs, parts)
    BY <1>1, <1>7 DEF Figures!Known
  <2>2. p = mean /\ mean < 100
    BY <1>1, <1>3, <1>7, <2>1
  <2> HIDE DEF p, mean
  <2> QED
    BY <1>6, <2>2 DEF Figures!Clamp, Figures!AtMost100
<1> HIDE DEF p, total, done, mean
<1> QED
  BY <1>2, <1>5, <1>6, <1>7

LEMMA GroupFits ==
  ASSUME NEW ss, Measured(ss), NEW k \in Figures!Kinds
  PROVE  Figures!GroupOf(ss, k) \in Figures!Figures
<1> DEFINE ms == Figures!Members(ss, k)
           total == Figures!Total(ss, ms)
           done == Figures!Received(ss, ms)
           mean == Figures!Percents(ss, ms) \div Cardinality(ms)
<1>1. ms \in SUBSET DOMAIN ss
  BY DEF Figures!Members
<1> HIDE DEF ms
<1>2. /\ total \in Figures!Bytes /\ done \in Figures!Bytes
      /\ ms # {} => Cardinality(ms) \in Nat \ {0}
  BY <1>1, SumsFit
<1>3. ms # {} => mean \in Int
  <2>1. ms # {} => Cardinality(ms) + 0 # 0 /\ Cardinality(ms) + 0 = Cardinality(ms)
    BY <1>2
  <2> QED
    BY <1>1, <2>1, MeansFit
<1>4. total > 0 => Figures!Share(done, total) \in Int
  <2>1. total \in Int /\ done \in Int
    BY <1>2, FiguresAssumption DEF Figures!Bytes
  <2> HIDE DEF total, done
  <2> QED
    BY <2>1, SharesFit
<1> DEFINE p == IF Figures!Known(ss, ms) /\ total > 0 THEN Figures!Share(done, total) ELSE mean
           s == IF k \notin expected THEN "not_requested" ELSE IF ms = {} THEN "waiting"
                ELSE IF \A i \in ms : ss[i].status = "completed" THEN "completed" ELSE "downloading"
           q == IF k \notin expected THEN 0 ELSE IF ms = {} THEN 0
                ELSE IF \A i \in ms : ss[i].status = "completed" THEN 100 ELSE p
<1>5. Figures!GroupOf(ss, k) = [status |-> s, total |-> total, done |-> done, percent |-> q]
  BY SameCardinality DEF Figures!GroupOf, ms
<1>6. q \in Int
  BY <1>3, <1>4
<1>7. s \in {"not_requested", "waiting", "downloading"} \cup Figures!Terminal
  BY DEF Figures!Terminal
<1> HIDE DEF q, s, total, done
<1> QED
  BY <1>2, <1>5, <1>6, <1>7 DEF Figures!Figures

--------------------------------------------------------------------------------
(* The strengthening: only lines that name their format make streams; until there are
   any, the groups add up, and those that wait are at nought; from then on the record
   and its groups count the bytes of all the streams. *)
Plain == ~named => DOMAIN streams = {}

Untouched ==
  DOMAIN streams = {} =>
    /\ Measured(group)
    /\ \A k \in Figures!Kinds : group[k].status = "waiting" =>
         group[k].total = 0 /\ group[k].percent = 0

Counted ==
  shownStatus \notin Figures!Terminal =>
    /\ DOMAIN streams = {} => streams = << >>
    /\ DOMAIN streams # {} =>
         /\ figures.done = Figures!Received(streams, DOMAIN streams)
         /\ \A k \in expected :
              group[k].done = Figures!Received(streams, Figures!Members(streams, k))

SumInv == Figures!TypeOK /\ Plain /\ Untouched /\ Counted /\ Figures!NoEarlyHundred

(* Streams are of finitely many formats, and their figures are in range. *)
LEMMA StreamsAreMeasured ==
  ASSUME NEW ss, DOMAIN ss \subseteq Formats, \A i \in DOMAIN ss : ss[i] \in Figures!Stream
  PROVE  Measured(ss)
BY FS_Subset, FiguresAssumption DEF Measured, Figures!Stream

LEMMA KindIsKind ==
  ASSUME NEW l \in Figures!Line
  PROVE  Figures!Kind(l) \in Figures!Kinds \cup {"combined"}
<1>1. CASE Figures!Cardinality(l.codecs) = 1
  <2>1. Cardinality(l.codecs) = 1
    BY <1>1, SameCardinality
  <2>2. l.codecs # {} /\ l.codecs \subseteq Figures!Kinds
    BY <2>1, FS_EmptySet DEF Figures!Line
  <2> QED
    BY <1>1, <2>2 DEF Figures!Kind
<1>2. CASE Figures!Cardinality(l.codecs) # 1
  BY <1>2 DEF Figures!Kind, Figures!Kinds
<1> QED
  BY <1>1, <1>2

LEMMA LineFits ==
  ASSUME NEW l \in Figures!Line
  PROVE  /\ l.total \in 0 .. MaxInt /\ l.done \in 0 .. MaxInt \cup {Figures!Missing}
         /\ l.part \in 0 .. 100 \cup {Figures!Missing}
         /\ l.format # Figures!NoFormat => l.format \in Formats
BY DEF Figures!Line

LEMMA StreamAfterFits ==
  ASSUME Figures!TypeOK, NEW l \in Figures!Line
  PROVE  Figures!StreamAfter(l) \in Figures!Stream
<1> DEFINE old == IF l.format \in DOMAIN streams THEN streams[l.format]
                  ELSE [total |-> 0, done |-> 0, percent |-> 0]
           total == IF l.total > 0 THEN l.total ELSE old.total
           done == IF l.done # Figures!Missing THEN l.done ELSE old.done
           percent == IF total > 0 THEN Figures!Share(done, total)
                      ELSE IF l.part # Figures!Missing THEN l.part ELSE old.percent
<1>1. old.total \in 0 .. MaxInt /\ old.done \in 0 .. MaxInt /\ old.percent \in 0 .. 100
  BY FiguresAssumption DEF Figures!TypeOK, Figures!Stream
<1> HIDE DEF old
<1>2. total \in 0 .. MaxInt /\ done \in 0 .. MaxInt
  BY <1>1, LineFits
<1>3. percent \in 0 .. 100
  <2>1. total > 0 => Figures!Share(done, total) \in 0 .. 100
    <3>1. total \in Int /\ done \in Nat
      BY <1>2, FiguresAssumption
    <3> HIDE DEF total, done
    <3> QED
      BY <3>1, SharesFit
  <2> QED
    BY <1>1, <2>1, LineFits
<1>4. (IF total = 0 THEN done ELSE total) \in 0 .. MaxInt
  BY <1>2
<1>5. (IF l.done > 0 THEN done ELSE IF total = 0 THEN done ELSE total) \in 0 .. MaxInt
  BY <1>2
<1> DEFINE sized == [kind |-> Figures!Kind(l), status |-> "downloading", total |-> total,
                     done |-> done, percent |-> percent]
           over == [sized EXCEPT !.status = "completed", !.percent = 100,
                      !.total = IF total = 0 THEN done ELSE total,
                      !.done = IF l.done > 0 THEN done ELSE IF total = 0 THEN done ELSE total]
<1>6. Figures!StreamAfter(l) = IF l.status = "downloading" THEN sized ELSE over
  BY Zenon DEF Figures!StreamAfter, old
<1>7. sized \in Figures!Stream
  <2> HIDE DEF total, done, percent
  <2> QED
    BY <1>2, <1>3, KindIsKind DEF Figures!Stream
<1>8. over \in Figures!Stream
  <2>1. "completed" \in {"downloading"} \cup Figures!Terminal /\ 100 \in 0 .. 100
    BY DEF Figures!Terminal
  <2>2. ASSUME NEW s \in Figures!Stream, NEW t \in 0 .. MaxInt, NEW d \in 0 .. MaxInt
        PROVE  [s EXCEPT !.status = "completed", !.percent = 100, !.total = t, !.done = d]
                 \in Figures!Stream
    BY <2>1 DEF Figures!Stream
  <2> HIDE DEF total, done, percent, sized
  <2> QED
    BY <1>4, <1>5, <1>7, <2>2
<1> QED
  BY <1>6, <1>7, <1>8

(* What the groups are until there are streams. *)
Settled(gs) ==
  /\ gs \in [Figures!Kinds -> Figures!Figures]
  /\ DOMAIN streams = {} =>
       /\ Measured(gs)
       /\ \A k \in Figures!Kinds : gs[k].status = "waiting" => gs[k].total = 0 /\ gs[k].percent = 0

LEMMA SettledGroup == Figures!TypeOK /\ Untouched => Settled(group)
BY DEF Figures!TypeOK, Untouched, Settled

LEMMA GroupsOfKindsAreMeasured ==
  ASSUME NEW gs \in [Figures!Kinds -> Figures!Figures],
         \A k \in Figures!Kinds : /\ gs[k].total \in 0 .. MaxInt /\ gs[k].done \in 0 .. MaxInt
                                  /\ gs[k].percent \in 0 .. 100
  PROVE  Measured(gs)
BY KindsAreFinite DEF Measured

(* Marking changes nothing but the states of what is not complete. *)
LEMMA MarkingFits ==
  ASSUME Figures!TypeOK, NEW s \in {"failed", "cancelled"}, NEW gs, Settled(gs)
  PROVE  /\ Settled(Figures!GroupsMarked(gs, s))
         /\ DOMAIN Figures!StreamsMarked(s) = DOMAIN streams
         /\ \A i \in DOMAIN streams : Figures!StreamsMarked(s)[i] \in Figures!Stream
<1> DEFINE m == Figures!GroupsMarked(gs, s)
<1>1. s \in Figures!Terminal /\ s # "waiting"
  BY DEF Figures!Terminal
<1>2. DOMAIN m = Figures!Kinds
  BY DEF Figures!GroupsMarked
<1>3. ASSUME NEW k \in Figures!Kinds
      PROVE  /\ m[k] \in Figures!Figures
             /\ m[k].total = gs[k].total /\ m[k].done = gs[k].done /\ m[k].percent = gs[k].percent
             /\ m[k].status = "waiting" => gs[k].status = "waiting"
  <2>1. m[k] = IF k \in expected /\ gs[k].status # "completed"
               THEN [gs[k] EXCEPT !.status = s] ELSE gs[k]
    BY DEF Figures!GroupsMarked
  <2>2. gs[k] \in Figures!Figures
    BY DEF Settled
  <2> QED
    BY <1>1, <2>1, <2>2 DEF Figures!Figures
<1>4. m \in [Figures!Kinds -> Figures!Figures]
  <2>1. m = [k \in Figures!Kinds |-> m[k]]
    BY DEF Figures!GroupsMarked
  <2> HIDE DEF m
  <2> QED
    BY <1>3, <2>1
<1>5. Settled(m)
  <2> HIDE DEF m
  <2>1. DOMAIN gs = Figures!Kinds
    BY DEF Settled
  <2> QED
    BY <1>2, <1>3, <1>4, <2>1 DEF Settled, Measured
<1>6. DOMAIN Figures!StreamsMarked(s) = DOMAIN streams
  BY DEF Figures!StreamsMarked
<1>7. ASSUME NEW i \in DOMAIN streams
      PROVE  Figures!StreamsMarked(s)[i] \in Figures!Stream
  <2>1. Figures!StreamsMarked(s)[i] = IF streams[i].status = "completed" THEN streams[i]
                                      ELSE [streams[i] EXCEPT !.status = s]
    BY DEF Figures!StreamsMarked
  <2>2. streams[i] \in Figures!Stream
    BY DEF Figures!TypeOK
  <2> QED
    BY <1>1, <2>1, <2>2 DEF Figures!Stream
<1> QED
  BY <1>5, <1>6, <1>7

LEMMA AggregateFits ==
  ASSUME Figures!TypeOK, NEW gs, Settled(gs), NEW comb \in BOOLEAN
  PROVE  Figures!Aggregate(streams, gs, comb)
           \in [total: Figures!Bytes, done: Figures!Bytes, percent: Int]
<1>1. expected \in (SUBSET Figures!Kinds) \ {{}} /\ Measured(streams)
  BY StreamsAreMeasured DEF Figures!TypeOK
<1>2. CASE DOMAIN streams # {}
  BY <1>1, <1>2, StreamsAddUp DEF Figures!Aggregate
<1>3. CASE DOMAIN streams = {}
  <2>1. Measured(gs) /\ DOMAIN gs = Figures!Kinds
    BY <1>3 DEF Settled
  <2> QED
    BY <1>1, <1>3, <2>1, GroupsAddUp DEF Figures!Aggregate
<1> QED
  BY <1>2, <1>3

(* A step that ends the job: its parts have only to fit. *)
LEMMA EndedFits ==
  ASSUME SumInv, Settled(group)', shownStatus' \in Figures!Terminal,
         DOMAIN streams' = DOMAIN streams,
         \A i \in DOMAIN streams : streams'[i] \in Figures!Stream,
         figures' \in [total: Figures!Bytes, done: Figures!Bytes, percent: Int],
         combined' \in BOOLEAN, running' \in BOOLEAN, UNCHANGED <<named, expected>>
  PROVE  SumInv'
<1> USE DEF SumInv
<1>1. Figures!TypeOK'
  BY DEF Figures!TypeOK, Settled
<1>2. Plain' /\ Untouched' /\ Counted' /\ Figures!NoEarlyHundred'
  BY DEF Plain, Untouched, Counted, Figures!NoEarlyHundred, Settled
<1> QED
  BY <1>1, <1>2

LEMMA MarkedFits ==
  ASSUME SumInv, NEW s \in {"failed", "cancelled"}, NEW gs, Settled(gs),
         group' = Figures!GroupsMarked(gs, s), streams' = Figures!StreamsMarked(s),
         shownStatus' = s,
         figures' \in [total: Figures!Bytes, done: Figures!Bytes, percent: Int],
         combined' \in BOOLEAN, running' \in BOOLEAN, UNCHANGED <<named, expected>>
  PROVE  SumInv'
<1>1. Figures!TypeOK
  BY DEF SumInv
<1>2. /\ Settled(Figures!GroupsMarked(gs, s))
      /\ DOMAIN streams' = DOMAIN streams
      /\ \A i \in DOMAIN streams : streams'[i] \in Figures!Stream
  BY <1>1, MarkingFits
<1>3. Settled(group)'
  BY <1>2 DEF Settled
<1>4. shownStatus' \in Figures!Terminal
  BY DEF Figures!Terminal
<1> QED
  BY <1>2, <1>3, <1>4, EndedFits

LEMMA SumErrorStep ==
  ASSUME SumInv, NEW l, Figures!ErrorLine(l)
  PROVE  SumInv'
<1> DEFINE gs == [k \in Figures!Kinds |-> IF k \in Figures!Targets(l)
                                            THEN [group[k] EXCEPT !.status = "failed"]
                                            ELSE group[k]]
<1>1. Settled(group) /\ Figures!TypeOK
  BY SettledGroup DEF SumInv
<1>2. DOMAIN gs = Figures!Kinds /\ DOMAIN group = Figures!Kinds
  BY <1>1 DEF Figures!TypeOK
<1>3. ASSUME NEW k \in Figures!Kinds
      PROVE  /\ gs[k] \in Figures!Figures
             /\ gs[k].total = group[k].total /\ gs[k].done = group[k].done
             /\ gs[k].percent = group[k].percent
             /\ gs[k].status = "waiting" => group[k].status = "waiting"
  <2>1. group[k] \in Figures!Figures
    BY <1>1 DEF Figures!TypeOK
  <2> QED
    BY <2>1 DEF Figures!Figures, Figures!Terminal
<1>4. gs \in [Figures!Kinds -> Figures!Figures]
  <2>1. gs = [k \in Figures!Kinds |-> gs[k]]
    OBVIOUS
  <2> HIDE DEF gs
  <2> QED
    BY <1>3, <2>1
<1>5. Settled(gs)
  <2> HIDE DEF gs
  <2> QED
    BY <1>1, <1>2, <1>3, <1>4 DEF Settled, Measured
<1>6. /\ group' = Figures!GroupsMarked(gs, "failed") /\ streams' = Figures!StreamsMarked("failed")
      /\ shownStatus' = "failed" /\ UNCHANGED <<named, expected, figures, running>>
      /\ combined' \in BOOLEAN
  BY <1>1 DEF Figures!ErrorLine, Figures!TypeOK
<1>7. /\ figures' \in [total: Figures!Bytes, done: Figures!Bytes, percent: Int]
      /\ running' \in BOOLEAN
  BY <1>1, <1>6 DEF Figures!TypeOK
<1> HIDE DEF gs
<1> QED
  BY <1>5, <1>6, <1>7, MarkedFits

LEMMA SumEndStep ==
  ASSUME SumInv, NEW s \in {"failed", "cancelled"}, Figures!End(s) \/ Figures!Unwind(s)
  PROVE  SumInv'
<1>1. Settled(group) /\ Figures!TypeOK
  BY SettledGroup DEF SumInv
<1>2. /\ group' = Figures!GroupsMarked(group, s) /\ streams' = Figures!StreamsMarked(s)
      /\ shownStatus' = s /\ UNCHANGED <<named, expected, figures, combined>>
      /\ running' \in BOOLEAN
  BY <1>1 DEF Figures!End, Figures!Unwind, Figures!Mark, Figures!TypeOK
<1>3. /\ figures' \in [total: Figures!Bytes, done: Figures!Bytes, percent: Int]
      /\ combined' \in BOOLEAN
  BY <1>1, <1>2 DEF Figures!TypeOK
<1> QED
  BY <1>1, <1>2, <1>3, MarkedFits

(* A restart clamps the percentages, which leaves those in range as they were. *)
LEMMA SumRestartStep ==
  ASSUME SumInv, Figures!Restart
  PROVE  SumInv'
<1> DEFINE saved == [k \in Figures!Kinds |-> [group[k] EXCEPT !.percent = Figures!Clamp(@)]]
<1>1. Settled(group) /\ Figures!TypeOK
  BY SettledGroup DEF SumInv
<1>2. \A p \in Int : Figures!Clamp(p) \in 0 .. 100 /\ (p \in 0 .. 100 => Figures!Clamp(p) = p)
  BY DEF Figures!Clamp, Figures!AtMost100
<1>3. DOMAIN saved = Figures!Kinds /\ DOMAIN group = Figures!Kinds
  BY <1>1 DEF Figures!TypeOK
<1>4. ASSUME NEW k \in Figures!Kinds
      PROVE  /\ saved[k] \in Figures!Figures
             /\ saved[k].total = group[k].total /\ saved[k].done = group[k].done
             /\ group[k].percent \in 0 .. 100 => saved[k].percent = group[k].percent
             /\ saved[k].status = group[k].status
  <2>1. group[k] \in Figures!Figures /\ saved[k] = [group[k] EXCEPT !.percent = Figures!Clamp(@)]
    BY <1>1 DEF Figures!TypeOK
  <2>2. Figures!Clamp(group[k].percent) \in Int
    BY <1>2, <2>1 DEF Figures!Figures
  <2> HIDE DEF saved
  <2>3. saved[k].percent = Figures!Clamp(group[k].percent)
    BY <2>1 DEF Figures!Figures
  <2> QED
    BY <1>2, <2>1, <2>2, <2>3 DEF Figures!Figures
<1>5. saved \in [Figures!Kinds -> Figures!Figures]
  <2>1. saved = [k \in Figures!Kinds |-> saved[k]]
    OBVIOUS
  <2> HIDE DEF saved
  <2> QED
    BY <1>4, <2>1
<1>6. Settled(saved)
  <2> HIDE DEF saved
  <2> QED
    BY <1>1, <1>3, <1>4, <1>5 DEF Settled, Measured
<1>7. /\ figures' \in [total: Figures!Bytes, done: Figures!Bytes, percent: Int]
      /\ running' \in BOOLEAN /\ combined' \in BOOLEAN /\ UNCHANGED <<named, expected>>
  <2>1. figures' = [figures EXCEPT !.percent = Figures!Clamp(@)]
    BY DEF Figures!Restart
  <2>2. figures \in [total: Figures!Bytes, done: Figures!Bytes, percent: Int]
    BY <1>1 DEF Figures!TypeOK
  <2>3. Figures!Clamp(figures.percent) \in Int
    BY <1>2, <2>2
  <2>4. figures' \in [total: Figures!Bytes, done: Figures!Bytes, percent: Int]
    BY <2>1, <2>2, <2>3
  <2> QED
    BY <1>1, <2>4 DEF Figures!Restart, Figures!TypeOK
<1>8. CASE shownStatus \in Figures!Terminal
  <2>1. group' = saved /\ UNCHANGED <<shownStatus, streams>>
    BY <1>8 DEF Figures!Restart
  <2> HIDE DEF saved
  <2>2. Settled(group)'
    BY <1>6, <2>1 DEF Settled
  <2>3. \A i \in DOMAIN streams : streams'[i] \in Figures!Stream
    BY <1>1, <2>1 DEF Figures!TypeOK
  <2> QED
    BY <1>7, <1>8, <2>1, <2>2, <2>3, EndedFits
<1>9. CASE shownStatus \notin Figures!Terminal
  <2>1. /\ group' = Figures!GroupsMarked(saved, "failed") /\ shownStatus' = "failed"
        /\ streams' = Figures!StreamsMarked("failed")
    BY <1>9 DEF Figures!Restart
  <2> HIDE DEF saved
  <2> QED
    BY <1>6, <1>7, <2>1, MarkedFits
<1> QED
  BY <1>8, <1>9

LEMMA SumCompleteStep ==
  ASSUME SumInv, Figures!Complete
  PROVE  SumInv'
<1>1. Settled(group) /\ Figures!TypeOK
  BY SettledGroup DEF SumInv
<1>2. ASSUME NEW g \in Figures!Figures
      PROVE  /\ Figures!Completed(g) \in Figures!Figures
             /\ Figures!Completed(g).status = "completed" /\ Figures!Completed(g).percent = 100
             /\ g.total \in 0 .. MaxInt /\ g.done \in 0 .. MaxInt =>
                  Figures!Completed(g).total \in 0 .. MaxInt /\ Figures!Completed(g).done \in 0 .. MaxInt
  <2> DEFINE done == IF g.total > 0 THEN g.total ELSE g.done
             total == IF g.total <= 0 /\ g.done > 0 THEN g.done ELSE g.total
  <2>1. g.total \in Figures!Bytes /\ g.done \in Figures!Bytes
    BY DEF Figures!Figures
  <2>2. /\ done \in Figures!Bytes /\ total \in Figures!Bytes
        /\ g.total \in 0 .. MaxInt /\ g.done \in 0 .. MaxInt =>
             done \in 0 .. MaxInt /\ total \in 0 .. MaxInt
    BY <2>1
  <2>3. Figures!Completed(g) = [g EXCEPT !.status = "completed", !.percent = 100,
                                         !.done = done, !.total = total]
    BY Zenon DEF Figures!Completed
  <2> HIDE DEF done, total
  <2>4. Figures!Completed(g) \in Figures!Figures
    <3>1. "completed" \in {"not_requested", "waiting", "downloading"} \cup Figures!Terminal
      BY DEF Figures!Terminal
    <3>2. [g EXCEPT !.status = "completed", !.percent = 100] \in Figures!Figures
      <4>1. \A h \in Figures!Figures : [h EXCEPT !.percent = 100] \in Figures!Figures
        BY DEF Figures!Figures
      <4>2. [g EXCEPT !.status = "completed"] \in Figures!Figures
        BY <3>1 DEF Figures!Figures
      <4> QED
        BY <4>1, <4>2
    <3>3. \A h \in Figures!Figures : [h EXCEPT !.done = done, !.total = total] \in Figures!Figures
      BY <2>2 DEF Figures!Figures
    <3>4. Figures!Completed(g) =
            [[g EXCEPT !.status = "completed", !.percent = 100]
               EXCEPT !.done = done, !.total = total]
      BY <2>3
    <3> QED
      BY <3>2, <3>3, <3>4
  <2>5. DOMAIN g = {"status", "total", "done", "percent"}
    BY DEF Figures!Figures
  <2>6. /\ Figures!Completed(g).status = "completed" /\ Figures!Completed(g).percent = 100
        /\ Figures!Completed(g).done = done /\ Figures!Completed(g).total = total
    BY <2>3, <2>5
  <2> QED
    BY <2>2, <2>4, <2>6
<1>3. ASSUME NEW k \in Figures!Kinds
      PROVE  group'[k] = IF k \in expected THEN Figures!Completed(group[k]) ELSE group[k]
  BY DEF Figures!Complete
<1>4. group' \in [Figures!Kinds -> Figures!Figures]
  BY <1>1, <1>2 DEF Figures!Complete, Figures!TypeOK
<1>5. DOMAIN streams = {} =>
        \A k \in Figures!Kinds : /\ group'[k].total \in 0 .. MaxInt /\ group'[k].done \in 0 .. MaxInt
                                 /\ group'[k].percent \in 0 .. 100
  <2> SUFFICES ASSUME DOMAIN streams = {}, NEW k \in Figures!Kinds
               PROVE  /\ group'[k].total \in 0 .. MaxInt /\ group'[k].done \in 0 .. MaxInt
                      /\ group'[k].percent \in 0 .. 100
    OBVIOUS
  <2>1. group[k] \in Figures!Figures /\ DOMAIN group = Figures!Kinds
    BY <1>1 DEF Figures!TypeOK
  <2>2. /\ group[k].total \in 0 .. MaxInt /\ group[k].done \in 0 .. MaxInt
        /\ group[k].percent \in 0 .. 100
    BY <1>1, <2>1 DEF Settled, Measured
  <2>3. CASE k \in expected
    <3>1. group'[k] = Figures!Completed(group[k])
      BY <1>3, <2>3
    <3> QED
      BY <1>2, <2>1, <2>2, <3>1
  <2>4. CASE k \notin expected
    BY <1>3, <2>2, <2>4
  <2> QED
    BY <2>3, <2>4
<1>6. \A k \in Figures!Kinds : group'[k].status = "waiting" => group'[k] = group[k]
  BY <1>1, <1>2, <1>3 DEF Figures!TypeOK
<1>7. Settled(group')
  BY <1>1, <1>4, <1>5, <1>6, GroupsOfKindsAreMeasured DEF Settled
<1>8. Figures!Aggregate(streams, group', combined)
        \in [total: Figures!Bytes, done: Figures!Bytes, percent: Int]
  BY <1>1, <1>7, AggregateFits DEF Figures!TypeOK
<1>9. figures' \in [total: Figures!Bytes, done: Figures!Bytes, percent: Int]
  <2>1. figures' = [Figures!Aggregate(streams, group', combined) EXCEPT !.percent = 100]
    BY DEF Figures!Complete
  <2> QED
    BY <1>8, <2>1
<1>10. /\ UNCHANGED <<named, expected, streams, combined>> /\ running' \in BOOLEAN
       /\ shownStatus' \in Figures!Terminal
  BY DEF Figures!Complete, Figures!Terminal
<1>11. Settled(group)'
  BY <1>7, <1>10 DEF Settled
<1>12. combined' \in BOOLEAN /\ \A i \in DOMAIN streams : streams'[i] \in Figures!Stream
  BY <1>1, <1>10 DEF Figures!TypeOK
<1> QED
  BY <1>9, <1>10, <1>11, <1>12, EndedFits

LEMMA SumIdentifiedStep ==
  ASSUME SumInv, NEW l \in Figures!Line, Figures!Identified(l)
  PROVE  SumInv'
<1>1. Settled(group) /\ Figures!TypeOK
  BY SettledGroup DEF SumInv
<1>2. /\ streams' = [i \in DOMAIN streams \cup {l.format} |->
                       IF i = l.format THEN Figures!StreamAfter(l) ELSE streams[i]]
      /\ named /\ l.format \in Formats
      /\ UNCHANGED <<named, expected, combined, running>>
      /\ shownStatus' \in {"processing", "downloading"}
  BY LineFits DEF Figures!Identified
<1>3. /\ DOMAIN streams' \subseteq Formats /\ DOMAIN streams' # {}
      /\ \A i \in DOMAIN streams' : streams'[i] \in Figures!Stream
  BY <1>1, <1>2, StreamAfterFits DEF Figures!TypeOK
<1>4. Measured(streams')
  BY <1>3, StreamsAreMeasured
<1>5. group' = [k \in Figures!Kinds |-> Figures!GroupOf(streams', k)]
  BY DEF Figures!Identified
<1>6. group' \in [Figures!Kinds -> Figures!Figures]
  BY <1>4, <1>5, GroupFits
<1>7. figures' = Figures!OfStreams(streams')
  BY <1>3 DEF Figures!Identified, Figures!Aggregate
<1>8. expected \in (SUBSET Figures!Kinds) \ {{}}
  BY <1>1 DEF Figures!TypeOK
<1>9. /\ figures' \in [total: Figures!Bytes, done: Figures!Bytes, percent: 0 .. 100]
      /\ figures'.done = Figures!Received(streams', DOMAIN streams')
      /\ (\E k \in expected : Figures!Members(streams', k) = {}) => figures'.percent < 100
  BY <1>3, <1>4, <1>7, <1>8, StreamsAddUp
<1>10. Figures!TypeOK'
  <2>1. \A r \in [total: Figures!Bytes, done: Figures!Bytes, percent: 0 .. 100] :
          r \in [total: Figures!Bytes, done: Figures!Bytes, percent: Int]
    OBVIOUS
  <2>2. figures' \in [total: Figures!Bytes, done: Figures!Bytes, percent: Int]
    BY <1>9, <2>1
  <2> QED
    BY <1>1, <1>2, <1>3, <1>6, <2>2 DEF Figures!TypeOK
<1>11. Plain' /\ Untouched'
  BY <1>2, <1>3 DEF Plain, Untouched
<1>12. \A k \in expected : group'[k].done = Figures!Received(streams', Figures!Members(streams', k))
  BY <1>5, <1>8 DEF Figures!GroupOf
<1>13. Counted'
  BY <1>2, <1>3, <1>9, <1>12 DEF Counted
<1>14. \A k \in expected : group'[k].status = "waiting" => Figures!Members(streams', k) = {}
  BY <1>5, <1>8 DEF Figures!GroupOf
<1>15. Figures!Clamp(figures'.percent) = figures'.percent
  <2>1. \A p \in 0 .. 100 : Figures!Clamp(p) = p
    BY DEF Figures!Clamp, Figures!AtMost100
  <2> QED
    BY <1>9, <2>1
<1>16. Figures!NoEarlyHundred'
  <2>1. figures'.percent = 100 => ~ \E k \in expected : Figures!Members(streams', k) = {}
    BY <1>9
  <2> QED
    BY <1>2, <1>14, <1>15, <2>1 DEF Figures!NoEarlyHundred
<1> QED
  BY <1>10, <1>11, <1>13, <1>16 DEF SumInv

(* What a line without a format makes of a group. *)
LEMMA LegacyFits ==
  ASSUME NEW l \in Figures!Line, NEW g \in Figures!Figures,
         g.total \in 0 .. MaxInt, g.done \in 0 .. MaxInt, g.percent \in 0 .. 100
  PROVE  \A h \in {Figures!LegacyFinished(g, l), Figures!LegacyDownloading(g, l)} :
           /\ h \in Figures!Figures /\ h.status # "waiting"
           /\ h.total \in 0 .. MaxInt /\ h.done \in 0 .. MaxInt /\ h.percent \in 0 .. 100
<1>1. /\ Figures!Done(l) \in 0 .. MaxInt /\ l.total \in 0 .. MaxInt
      /\ l.done > 0 => l.done \in 0 .. MaxInt
  BY LineFits, FiguresAssumption DEF Figures!Done, Figures!Missing
<1>2. 0 .. MaxInt \subseteq Figures!Bytes
  BY FiguresAssumption DEF Figures!Bytes
<1>3. /\ {"completed", "downloading"} \subseteq
           {"not_requested", "waiting", "downloading"} \cup Figures!Terminal
      /\ "completed" # "waiting" /\ "downloading" # "waiting"
  BY DEF Figures!Terminal
<1>4. ASSUME NEW s \in {"completed", "downloading"}, NEW t \in 0 .. MaxInt, NEW d \in 0 .. MaxInt,
             NEW p \in 0 .. 100,
             NEW h, h = [g EXCEPT !.status = s, !.total = t, !.done = d, !.percent = p]
      PROVE  /\ h \in Figures!Figures /\ h.status # "waiting"
             /\ h.total \in 0 .. MaxInt /\ h.done \in 0 .. MaxInt /\ h.percent \in 0 .. 100
  <2>1. \A f \in Figures!Figures : [f EXCEPT !.status = s] \in Figures!Figures
    BY <1>3 DEF Figures!Figures
  <2>2. \A f \in Figures!Figures : [f EXCEPT !.total = t, !.done = d] \in Figures!Figures
    BY <1>2 DEF Figures!Figures
  <2>3. \A f \in Figures!Figures : [f EXCEPT !.percent = p] \in Figures!Figures
    BY DEF Figures!Figures
  <2>4. h = [[[g EXCEPT !.status = s] EXCEPT !.total = t, !.done = d] EXCEPT !.percent = p]
    BY <1>4
  <2>5. h \in Figures!Figures
    BY <2>1, <2>2, <2>3, <2>4
  <2>6. DOMAIN g = {"status", "total", "done", "percent"}
    BY DEF Figures!Figures
  <2>7. h.status = s /\ h.total = t /\ h.done = d /\ h.percent = p
    BY <1>4, <2>6
  <2> QED
    BY <1>3, <2>5, <2>7
<1>5. ASSUME NEW h, h = Figures!LegacyDownloading(g, l)
      PROVE  /\ h \in Figures!Figures /\ h.status # "waiting"
             /\ h.total \in 0 .. MaxInt /\ h.done \in 0 .. MaxInt /\ h.percent \in 0 .. 100
  <2> DEFINE p == IF l.total > 0 THEN Figures!Share(Figures!Done(l), l.total)
                  ELSE IF l.part # Figures!Missing THEN l.part ELSE 0
  <2>1. l.total > 0 => Figures!Share(Figures!Done(l), l.total) \in 0 .. 100
    <3>1. l.total \in Nat /\ Figures!Done(l) \in Int /\ Figures!Done(l) >= 0
      BY <1>1, FiguresAssumption
    <3>2. l.total > 0 => l.total \in Nat \ {0}
      BY <3>1
    <3> HIDE DEF p
    <3> QED
      BY <3>1, <3>2, SharesFit
  <2>2. p \in 0 .. 100
    BY <2>1, LineFits
  <2>3. h = [g EXCEPT !.status = "downloading", !.total = l.total, !.done = Figures!Done(l),
                      !.percent = p]
    BY <1>5, Zenon DEF Figures!LegacyDownloading
  <2> HIDE DEF p
  <2> QED
    BY <1>1, <1>4, <2>2, <2>3
<1>6. ASSUME NEW h, h = Figures!LegacyFinished(g, l)
      PROVE  /\ h \in Figures!Figures /\ h.status # "waiting"
             /\ h.total \in 0 .. MaxInt /\ h.done \in 0 .. MaxInt /\ h.percent \in 0 .. 100
  <2> DEFINE last == IF l.total = 0 THEN Figures!Done(l) ELSE l.total
             total == IF last > 0 THEN last ELSE g.total
             done == IF l.done > 0 THEN l.done ELSE IF total > 0 THEN total ELSE g.done
  <2>1. total \in 0 .. MaxInt
    BY <1>1
  <2>2. h = [g EXCEPT !.status = "completed", !.percent = 100, !.total = total, !.done = done]
    BY <1>6, Zenon DEF Figures!LegacyFinished
  <2> HIDE DEF total
  <2>3. done \in 0 .. MaxInt
    BY <1>1, <2>1
  <2> HIDE DEF done
  <2>4. h = [g EXCEPT !.status = "completed", !.total = total, !.done = done, !.percent = 100]
    <3>1. \A t, d : [g EXCEPT !.status = "completed", !.percent = 100, !.total = t, !.done = d]
                   = [[[g EXCEPT !.status = "completed"] EXCEPT !.percent = 100]
                        EXCEPT !.total = t, !.done = d]
      OBVIOUS
    <3>2. \A t, d : [g EXCEPT !.status = "completed", !.total = t, !.done = d, !.percent = 100]
                   = [[[g EXCEPT !.status = "completed"] EXCEPT !.total = t, !.done = d]
                        EXCEPT !.percent = 100]
      OBVIOUS
    <3>3. \A f \in Figures!Figures : \A t, d :
            [[f EXCEPT !.percent = 100] EXCEPT !.total = t, !.done = d]
            = [[f EXCEPT !.total = t, !.done = d] EXCEPT !.percent = 100]
      BY DEF Figures!Figures
    <3>4. [g EXCEPT !.status = "completed"] \in Figures!Figures
      BY <1>3 DEF Figures!Figures
    <3> QED
      BY <2>2, <3>1, <3>2, <3>3, <3>4
  <2>5. "completed" \in {"completed", "downloading"} /\ 100 \in 0 .. 100
    OBVIOUS
  <2> QED
    BY <1>4, <2>1, <2>3, <2>4, <2>5, Zenon
<1> QED
  BY <1>5, <1>6

LEMMA SumLegacyStep ==
  ASSUME SumInv, NEW l \in Figures!Line, Figures!Legacy(l)
  PROVE  SumInv'
<1>1. Settled(group) /\ Figures!TypeOK
  BY SettledGroup DEF SumInv
<1>2. /\ ~named /\ DOMAIN streams = {} /\ streams = << >>
      /\ UNCHANGED <<named, expected, streams, running>>
      /\ combined' = (Figures!Targets(l) = Figures!Kinds)
      /\ shownStatus' \in {"processing", "downloading"}
  BY DEF Figures!Legacy, SumInv, Plain, Counted
<1>3. Measured(group) /\ DOMAIN group = Figures!Kinds
  BY <1>1, <1>2 DEF Settled, Figures!TypeOK
<1>4. ASSUME NEW k \in Figures!Kinds
      PROVE  /\ group'[k] \in Figures!Figures
             /\ group'[k].total \in 0 .. MaxInt /\ group'[k].done \in 0 .. MaxInt
             /\ group'[k].percent \in 0 .. 100
             /\ group'[k].status = "waiting" =>
                  k \notin Figures!Targets(l) /\ group'[k] = group[k]
  <2>1. group'[k] = IF k \notin Figures!Targets(l) THEN group[k]
                    ELSE IF l.status = "finished" THEN Figures!LegacyFinished(group[k], l)
                    ELSE Figures!LegacyDownloading(group[k], l)
    BY DEF Figures!Legacy
  <2>2. /\ group[k] \in Figures!Figures
        /\ group[k].total \in 0 .. MaxInt /\ group[k].done \in 0 .. MaxInt
        /\ group[k].percent \in 0 .. 100
    BY <1>1, <1>3 DEF Figures!TypeOK, Measured
  <2>3. \A h \in {Figures!LegacyFinished(group[k], l), Figures!LegacyDownloading(group[k], l)} :
           /\ h \in Figures!Figures /\ h.status # "waiting"
           /\ h.total \in 0 .. MaxInt /\ h.done \in 0 .. MaxInt /\ h.percent \in 0 .. 100
    BY <2>2, LegacyFits
  <2>4. CASE k \notin Figures!Targets(l)
    BY <2>1, <2>2, <2>4
  <2>5. CASE k \in Figures!Targets(l)
    BY <2>1, <2>3, <2>5
  <2> QED
    BY <2>4, <2>5
<1>5. group' \in [Figures!Kinds -> Figures!Figures]
  <2>1. group' = [k \in Figures!Kinds |-> group'[k]]
    BY DEF Figures!Legacy
  <2> QED
    BY <1>4, <2>1
<1>6. Measured(group')
  BY <1>4, <1>5, GroupsOfKindsAreMeasured
<1>7. Untouched'
  BY <1>1, <1>2, <1>4, <1>6 DEF Untouched, Settled
<1>8. expected \in (SUBSET Figures!Kinds) \ {{}} /\ combined' \in BOOLEAN
  BY <1>1, <1>2 DEF Figures!TypeOK
<1>9. figures' = Figures!OfGroups(group', combined')
  BY <1>2 DEF Figures!Legacy, Figures!Aggregate
<1>10. /\ figures' \in [total: Figures!Bytes, done: Figures!Bytes, percent: Int]
       /\ \A k \in expected : ~combined' /\ group'[k].total = 0 /\ group'[k].percent = 0 =>
            Figures!Clamp(figures'.percent) < 100
  <2>1. DOMAIN group' = Figures!Kinds
    BY <1>5
  <2> QED
    BY <1>6, <1>8, <1>9, <2>1, GroupsAddUp
<1>11. Figures!TypeOK'
  BY <1>1, <1>2, <1>5, <1>8, <1>10 DEF Figures!TypeOK
<1>12. Plain' /\ Counted'
  BY <1>2 DEF Plain, Counted
<1>13. Figures!NoEarlyHundred'
  <2>1. ASSUME NEW k \in expected, group'[k].status = "waiting"
        PROVE  Figures!Clamp(figures'.percent) < 100
    <3>1. k \in Figures!Kinds
      BY <1>8
    <3>2. ~combined' /\ group'[k] = group[k]
      BY <1>2, <1>4, <2>1, <3>1
    <3>3. group[k].total = 0 /\ group[k].percent = 0
      BY <1>1, <1>2, <2>1, <3>1, <3>2 DEF Settled
    <3> QED
      BY <1>10, <3>2, <3>3
  <2> QED
    BY <1>2, <2>1 DEF Figures!NoEarlyHundred
<1> QED
  BY <1>7, <1>11, <1>12, <1>13 DEF SumInv

LEMMA SumOtherStep ==
  ASSUME SumInv, NEW l \in Figures!Line, Figures!OtherLine(l)
  PROVE  SumInv'
BY DEF SumInv, Figures!OtherLine, Figures!TypeOK, Plain, Untouched, Counted, Figures!NoEarlyHundred

LEMMA SumInit == Figures!Init => SumInv
<1> SUFFICES ASSUME Figures!Init PROVE SumInv
  OBVIOUS
<1>1. DOMAIN streams = {}
  BY DEF Figures!Init
<1>2. 0 \in Figures!Bytes /\ 0 \in 0 .. MaxInt
  BY FiguresAssumption DEF Figures!Bytes
<1>3. group \in [Figures!Kinds -> Figures!Figures]
  BY <1>2 DEF Figures!Init, Figures!Figures
<1>4. \A k \in Figures!Kinds : group[k].total = 0 /\ group[k].done = 0 /\ group[k].percent = 0
  BY DEF Figures!Init
<1>5. Measured(group)
  BY <1>2, <1>3, <1>4, GroupsOfKindsAreMeasured
<1>6. figures \in [total: Figures!Bytes, done: Figures!Bytes, percent: Int]
  BY <1>2 DEF Figures!Init
<1>7. Figures!TypeOK
  BY <1>1, <1>3, <1>6 DEF Figures!Init, Figures!TypeOK
<1>8. Plain /\ Untouched /\ Counted
  BY <1>1, <1>4, <1>5 DEF Figures!Init, Plain, Untouched, Counted
<1>9. Figures!NoEarlyHundred
  BY DEF Figures!Init, Figures!NoEarlyHundred, Figures!Clamp, Figures!AtMost100
<1> QED
  BY <1>7, <1>8, <1>9 DEF SumInv

LEMMA SumNext == SumInv /\ [FiguresNext]_figuresVars => SumInv'
<1> SUFFICES ASSUME SumInv, [FiguresNext]_figuresVars PROVE SumInv'
  OBVIOUS
<1>1. CASE UNCHANGED figuresVars
  BY <1>1 DEF figuresVars, SumInv, Figures!TypeOK, Plain, Untouched, Counted,
    Figures!NoEarlyHundred
<1>2. CASE FiguresNext
  BY <1>2, SumIdentifiedStep, SumLegacyStep, SumOtherStep, SumErrorStep, SumEndStep,
    SumCompleteStep, SumRestartStep
  DEF FiguresNext, Figures!HandleProgress
<1> QED
  BY <1>1, <1>2

LEMMA SumAlways == FiguresSpec => []SumInv
BY SumInit, SumNext, PTL DEF FiguresSpec

(* The figures of a record keep to the width of a byte count, and those of its streams
   to its natural numbers, whatever sums overflow (store/progress.go:266-340). *)
THEOREM FiguresTypeCorrect == FiguresSpec => []Figures!TypeOK
<1>1. SumInv => Figures!TypeOK
  BY DEF SumInv
<1> QED
  BY <1>1, SumAlways, PTL

(* The bar does not show a whole download while an expected part of it has not begun,
   for any formats, any sizes and any progress line. *)
THEOREM NoEarlyHundredCorrect == FiguresSpec => []NoEarlyHundred
<1>1. SumInv => NoEarlyHundred
  BY DEF SumInv, NoEarlyHundred
<1> QED
  BY <1>1, SumAlways, PTL

(* The record and its groups count what every finished format has received, whatever
   formats come after, unless the sum overflows. *)
THEOREM FinishedBytesCountedCorrect == FiguresSpec => []FinishedBytesCounted
<1>1. ASSUME SumInv, shownStatus \notin Figures!Terminal, Figures!Fits
      PROVE  /\ streams # << >> => figures.done >= Figures!Received(streams, Figures!Finished(DOMAIN streams))
             /\ \A k \in expected : group[k].done >=
                  Figures!Received(streams, Figures!Finished(Figures!Members(streams, k)))
  <2>1. Measured(streams) /\ Figures!TypeOK
    BY <1>1, StreamsAreMeasured DEF SumInv, Figures!TypeOK
  <2>2. CASE DOMAIN streams = {}
    <3>1. streams = << >>
      BY <1>1, <2>2 DEF SumInv, Counted
    <3>2. \A k : Figures!Finished(Figures!Members(streams, k)) = {}
      BY <2>2 DEF Figures!Finished, Figures!Members
    <3>3. Figures!Received(streams, {}) = 0
      BY SameSum, SumOfNone, WrapFits, FiguresAssumption DEF Figures!Received
    <3>4. \A k \in expected : group[k].done \in 0 .. MaxInt
      BY <1>1, <2>1, <2>2 DEF SumInv, Untouched, Measured, Figures!TypeOK
    <3>5. \A k \in expected : group[k].done >= 0
      BY <3>4, FiguresAssumption
    <3> QED
      BY <3>1, <3>2, <3>3, <3>5
  <2>3. CASE DOMAIN streams # {}
    <3>1. SumFunctionOnSet([i \in DOMAIN streams |-> streams[i].done], DOMAIN streams) <= MaxInt
      BY <1>1, SameSum DEF Figures!Fits, Figures!SumFunction
    <3>2. ASSUME NEW T \in SUBSET DOMAIN streams
          PROVE  /\ Figures!Received(streams, Figures!Finished(T)) <= Figures!Received(streams, T)
                 /\ Figures!Received(streams, Figures!Finished(T)) \in Int
                 /\ Figures!Received(streams, T) \in Int
      <4>1. Figures!Finished(T) \in SUBSET T
        BY DEF Figures!Finished
      <4>2. Figures!Finished(T) \in SUBSET DOMAIN streams
        BY <4>1
      <4> QED
        BY <2>1, <3>1, <4>1, <4>2, PartsAddUp, SumsFit, FiguresAssumption DEF Figures!Bytes
    <3>3. figures.done = Figures!Received(streams, DOMAIN streams)
      BY <1>1, <2>3 DEF SumInv, Counted
    <3>4. \A k \in expected : /\ Figures!Members(streams, k) \in SUBSET DOMAIN streams
                              /\ group[k].done = Figures!Received(streams, Figures!Members(streams, k))
      BY <1>1, <2>3 DEF SumInv, Counted, Figures!Members
    <3>5. \A a, b \in Int : a <= b => b >= a
      OBVIOUS
    <3> QED
      BY <3>2, <3>3, <3>4, <3>5
  <2> QED
    BY <2>2, <2>3
<1>2. SumInv => FinishedBytesCounted
  BY <1>1 DEF FinishedBytesCounted, Figures!FinishedBytesCounted
<1> QED
  BY <1>2, SumAlways, PTL
================================================================================
