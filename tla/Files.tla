--------------------------------- MODULE Files ---------------------------------
(***************************************************************************)
(* The files of one job, from the moment its worker owns the directory:    *)
(* collected as results, listed, sent, previewed and cleaned up, while the *)
(* record may be cancelled, trimmed or removed and people may change the   *)
(* directory by hand.  All share DownloadProgress.FilesMu.                 *)
(*                                                                         *)
(* A file is known by its name; its content, and with it its size and time *)
(* of modification, by a number that no later content has.  0 is no file.  *)
(***************************************************************************)
EXTENDS Naturals, Sequences, FiniteSets, SequencesExt

CONSTANTS
  Names,       \* names that files of the job may have, numbered in lexical order
  Results,     \* those that become links when they exist (collectResults)
  Clients,     \* clients, each with one request at a time
  MaxWrites,   \* bound: contents ever written
  Meddled      \* bound: the files that people change

ASSUME FilesAssumption ==
  /\ Names \subseteq Nat \ {0} /\ IsFiniteSet(Names)
  /\ Results \subseteq Names /\ Meddled \subseteq Names
  /\ MaxWrites \in Nat \ {0}

VARIABLES
  worker,    \* "writing", "collected", "returned": what Worker.Run has done
  status,    \* the record's status: "active", "completed", or "ended" in another way
  stored,    \* the store has the record of the job
  dir,       \* the job's directory
  writes,    \* the number of the latest content
  byHand,    \* history: the files people have changed or removed
  paths,     \* dp.Paths
  files,     \* dp.Files: the indexes that are listed
  request,   \* of each client, the request under way
  preview,   \* of each client, the latest preview it has, by its token
  links      \* of each client, the list of results it shows: index to name

recordVars == <<status, stored, paths, files>>
diskVars == <<dir, writes, byHand>>
clientVars == <<preview, links>>
vars == <<worker, recordVars, diskVars, request, clientVars>>

Contents == [Names -> 0 .. MaxWrites]

Unread == [n \in Names |-> 0]

NoFile == 0

Nothing == [i \in {} |-> NoFile]

Indexes == 1 .. Cardinality(Results)

Idle ==
  [op |-> "none", at |-> "idle", left |-> {}, read |-> Unread, gone |-> {}, name |-> NoFile, index |-> 0]

Requests ==
  [op: {"none", "preview", "clean", "fetch", "delete"},
   at: {"idle", "trying", "waiting", "walking", "checking", "unlinking", "recording",
        "emptied", "opening", "sending", "deleting", "unlocking"},
   left: SUBSET Names, read: Contents, gone: SUBSET Names,
   name: Names \cup {NoFile}, index: Indexes \cup {0}]

Terminal == {"completed", "ended"}

TypeOK ==
  /\ worker \in {"writing", "collected", "ended", "returned"}
  /\ status \in Terminal \cup {"active"} /\ stored \in BOOLEAN
  /\ dir \in Contents /\ writes \in 0 .. MaxWrites /\ byHand \subseteq Names
  /\ paths \in Seq(Names \cup {NoFile}) /\ files \subseteq 1 .. Len(paths)
  /\ request \in [Clients -> Requests]
  /\ preview \in [Clients -> Contents \cup {Nothing}]
  /\ DOMAIN links = Clients /\ \A c \in Clients : DOMAIN links[c] \subseteq Indexes

(* The worker has just taken FilesMu and made the directory (worker.go:44). *)
Init ==
  /\ worker = "writing" /\ status = "active" /\ stored = TRUE
  /\ dir = Unread /\ writes = 0 /\ byHand = {}
  /\ paths = << >> /\ files = {}
  /\ request = [c \in Clients |-> Idle]
  /\ preview = [c \in Clients |-> Nothing]
  /\ links = [c \in Clients |-> Nothing]

--------------------------------------------------------------------------------
(* FilesMu, as held by those who stand inside it. *)

Reading(c) ==
  \/ request[c].op = "preview" /\ request[c].at = "walking"
  \/ request[c].op = "fetch" /\ request[c].at \in {"opening", "sending"}

Writing(c) == request[c].op \in {"clean", "delete"} /\ request[c].at # "trying"

FreeToRead == \A c \in Clients : ~Writing(c)

FreeToWrite == worker = "returned" /\ FreeToRead /\ \A c \in Clients : ~Reading(c)

At(c, op, at) == request[c].op = op /\ request[c].at = at

Move(c, at) == request' = [request EXCEPT ![c].at = at]

StartWalk(c) == request' = [request EXCEPT ![c].at = "walking", ![c].left = Names]

End(c) == request' = [request EXCEPT ![c] = Idle]

--------------------------------------------------------------------------------
(* The worker, and what else happens to the record and the directory. *)

(* yt-dlp writes a file, or removes one it no longer needs. *)
Write(n) ==
  /\ worker = "writing" /\ writes < MaxWrites
  /\ \/ dir' = [dir EXCEPT ![n] = writes + 1] /\ writes' = writes + 1
     \/ dir[n] > 0 /\ dir' = [dir EXCEPT ![n] = 0] /\ UNCHANGED writes
  /\ UNCHANGED <<worker, recordVars, byHand, request, clientVars>>

(* People do what they like with the files, though not to a file in the moment
   between a cleanup's last look at it and its removal. *)
ChangeByHand(n) ==
  /\ n \in Meddled
  /\ \A c \in Clients : At(c, "clean", "unlinking") => request[c].name # n
  /\ \/ writes < MaxWrites /\ dir' = [dir EXCEPT ![n] = writes + 1] /\ writes' = writes + 1
     \/ dir[n] > 0 /\ dir' = [dir EXCEPT ![n] = 0] /\ UNCHANGED writes
  /\ byHand' = byHand \cup {n}
  /\ UNCHANGED <<worker, recordVars, request, clientVars>>

(* The only one. *)
Sortings(found) ==
  {s \in SetToSeqs(found) : \A i, j \in DOMAIN s : i < j => s[i] < s[j]}

(* A clean exit, whether or not an error line has ended the record; one that
   is cancelled may have results as well, when cancelled after this step. *)
CollectResults ==
  /\ worker = "writing"
  /\ worker' = "collected"
  /\ paths' \in Sortings({n \in Results : dir[n] > 0})
  /\ files' = 1 .. Len(paths')
  /\ UNCHANGED <<status, stored, diskVars, request, clientVars>>

(* The final update: the first terminal status stays.  Without results the run
   failed or its context was done. *)
FinalStatus ==
  /\ worker \in {"writing", "collected"}
  /\ worker' = "ended"
  /\ status' = CASE status # "active" -> status
                 [] worker = "collected" -> "completed"
                 [] OTHER -> "ended"
  /\ UNCHANGED <<stored, paths, files, diskVars, request, clientVars>>

Return ==
  /\ worker = "ended" /\ worker' = "returned"
  /\ UNCHANGED <<recordVars, diskVars, request, clientVars>>

(* A cancellation, or an error line of yt-dlp. *)
EndEarly ==
  /\ status = "active" /\ status' = "ended"
  /\ UNCHANGED <<worker, stored, paths, files, diskVars, request, clientVars>>

(* TrimHistory and CleanupOldDownloads take no FilesMu. *)
TrimRecord ==
  /\ stored /\ status \in Terminal /\ stored' = FALSE
  /\ UNCHANGED <<worker, status, paths, files, diskVars, request, clientVars>>

--------------------------------------------------------------------------------
(* Requests *)

(* A client shows the links of the record it has read. *)
List(c) ==
  /\ request[c] = Idle /\ stored
  /\ links' = [links EXCEPT ![c] = [i \in files |-> paths[i]]]
  /\ UNCHANGED <<worker, recordVars, diskVars, request, preview>>

Begin(c, op) ==
  /\ request[c] = Idle /\ stored
  /\ request' = [request EXCEPT ![c] = [Idle EXCEPT !.op = op, !.at = "trying"]]
  /\ UNCHANGED <<worker, recordVars, diskVars, clientVars>>

(* fileJob, for a job that is no batch's child; a token comes from a preview. *)
BeginPreview(c) == status \in Terminal /\ Begin(c, "preview")
BeginClean(c) == status \in Terminal /\ preview[c] # Nothing /\ Begin(c, "clean")
BeginDelete(c) == status \in Terminal /\ Begin(c, "delete")

(* HandleResultFile waits for FilesMu where the others give up. *)
BeginFetch(c, i) ==
  /\ request[c] = Idle /\ stored /\ i \in DOMAIN links[c]
  /\ request' = [request EXCEPT ![c] =
       [Idle EXCEPT !.op = "fetch", !.index = i, !.at = IF FreeToRead THEN "opening" ELSE "waiting"]]
  /\ UNCHANGED <<worker, recordVars, diskVars, clientVars>>

(* TryRLock of a preview, TryLock of a cleanup or a removal: or 409. *)
TryLock(c) ==
  /\ request[c].at = "trying"
  /\ \/ request[c].op = "preview" /\ FreeToRead /\ StartWalk(c)
     \/ request[c].op = "preview" /\ ~FreeToRead /\ End(c)
     \/ request[c].op = "clean" /\ FreeToWrite /\ StartWalk(c)
     \/ request[c].op = "delete" /\ FreeToWrite /\ Move(c, "deleting")
     \/ request[c].op # "preview" /\ ~FreeToWrite /\ End(c)
  /\ UNCHANGED <<worker, recordVars, diskVars, clientVars>>

(* previewRetainedFiles reads one file after the other, whoever calls it. *)
ReadFile(c) ==
  /\ request[c].at = "walking" /\ request[c].left # {}
  /\ LET n == Min(request[c].left) IN request' = [request EXCEPT ![c].left = @ \ {n}, ![c].read[n] = dir[n]]
  /\ UNCHANGED <<worker, recordVars, diskVars, clientVars>>

(* openOwnedDirectory fails, or the walk meets what it does not accept. *)
RefuseDirectory(c) ==
  /\ \/ At(c, "preview", "walking") /\ End(c)
     \/ At(c, "clean", "walking") /\ Move(c, "unlocking")
  /\ UNCHANGED <<worker, recordVars, diskVars, clientVars>>

Walked(c, op) == At(c, op, "walking") /\ request[c].left = {}

SendPreview(c) ==
  /\ Walked(c, "preview") /\ End(c)
  /\ preview' = [preview EXCEPT ![c] = request[c].read]
  /\ UNCHANGED <<worker, recordVars, diskVars, links>>

TokenUncompared(c) ==
  /\ Walked(c, "clean")
  /\ request' = [request EXCEPT ![c].at = "checking",
                                ![c].left = {n \in Names : request[c].read[n] > 0}]
  /\ UNCHANGED <<worker, recordVars, diskVars, clientVars>>

(* The token of this walk is that of the client's preview, or 409. *)
CompareToken(c) ==
  /\ Walked(c, "clean")
  /\ \/ /\ request[c].read = preview[c]
        /\ request' = [request EXCEPT ![c].at = "checking",
                                      ![c].left = {n \in Names : request[c].read[n] > 0}]
     \/ request[c].read # preview[c] /\ Move(c, "unlocking")
  /\ UNCHANGED <<worker, recordVars, diskVars, clientVars>>

(* Lstat: size and time are still those of the walk. *)
CheckFile(c) ==
  /\ At(c, "clean", "checking") /\ request[c].left # {}
  /\ LET n == Min(request[c].left) IN
       \/ /\ dir[n] = request[c].read[n]
          /\ request' = [request EXCEPT ![c].at = "unlinking", ![c].name = n]
       \/ dir[n] # request[c].read[n] /\ Move(c, "recording")
  /\ UNCHANGED <<worker, recordVars, diskVars, clientVars>>

RemoveFile(c) ==
  /\ At(c, "clean", "unlinking")
  /\ LET n == request[c].name IN
       \/ /\ dir' = [dir EXCEPT ![n] = 0]
          /\ request' = [request EXCEPT ![c].at = "checking", ![c].name = NoFile,
                                        ![c].left = @ \ {n}, ![c].gone = @ \cup {n}]
       \/ Move(c, "recording") /\ UNCHANGED dir
  /\ UNCHANGED <<worker, recordVars, writes, byHand, clientVars>>

(* All files of the preview are gone: the directory goes too, unless it has a
   new one or cannot be removed. *)
RemoveDirectory(c) ==
  /\ At(c, "clean", "checking") /\ request[c].left = {}
  /\ \/ dir = Unread /\ Move(c, "emptied")
     \/ Move(c, "recording")
  /\ UNCHANGED <<worker, recordVars, diskVars, clientVars>>

(* Removed names leave their place empty, so that the others keep theirs. *)
Blanked(gone) == [i \in 1 .. Len(paths) |-> IF paths[i] \in gone THEN NoFile ELSE paths[i]]

ForgetNothing(c) == UNCHANGED <<paths, files>>

ForgetCompacting(c) ==
  /\ paths' = SelectSeq(paths, LAMBDA n : n \notin request[c].gone)
  /\ files' = 1 .. Len(paths')

(* recordCleanedFiles after a cleanup that stopped half-way. *)
ForgetRemoved(c) ==
  /\ paths' = Blanked(request[c].gone)
  /\ files' = {i \in files : paths[i] \notin request[c].gone}

ForgetAll == paths' = << >> /\ files' = {}

RecordCleaned(c) ==
  /\ \/ At(c, "clean", "recording") /\ ForgetRemoved(c)
     \/ At(c, "clean", "emptied") /\ ForgetAll
  /\ Move(c, "unlocking")
  /\ UNCHANGED <<worker, status, stored, diskVars, clientVars>>

DeleteRecord(c) ==
  /\ At(c, "delete", "deleting") /\ Move(c, "unlocking")
  /\ stored' = FALSE
  /\ UNCHANGED <<worker, status, paths, files, diskVars, clientVars>>

(* The deferred Unlock lets all waiting readers in at once. *)
Unlock(c) ==
  /\ request[c].at = "unlocking"
  /\ request' = [d \in Clients |->
       IF d = c THEN Idle
       ELSE IF request[d].at = "waiting" THEN [request[d] EXCEPT !.at = "opening"]
       ELSE request[d]]
  /\ UNCHANGED <<worker, recordVars, diskVars, clientVars>>

(* HandleResultFile: the index still has a file, and it exists, or 404. *)
Servable(i) ==
  status = "completed" /\ i <= Len(paths) /\ paths[i] # NoFile /\ dir[paths[i]] > 0

OpenFile(c) ==
  /\ At(c, "fetch", "opening")
  /\ LET i == request[c].index IN
       \/ /\ Servable(i)
          /\ request' = [request EXCEPT ![c].at = "sending", ![c].name = paths[i]]
       \/ ~Servable(i) /\ End(c)
  /\ UNCHANGED <<worker, recordVars, diskVars, clientVars>>

EndFetch(c) ==
  /\ At(c, "fetch", "sending") /\ End(c)
  /\ UNCHANGED <<worker, recordVars, diskVars, clientVars>>

--------------------------------------------------------------------------------

RequestStep(c) ==
  \/ TryLock(c) \/ ReadFile(c) \/ CheckFile(c)
  \/ RefuseDirectory(c) \/ SendPreview(c) \/ CompareToken(c) \/ RemoveFile(c) \/ RemoveDirectory(c)
  \/ RecordCleaned(c) \/ DeleteRecord(c) \/ Unlock(c) \/ OpenFile(c) \/ EndFetch(c)

WorkerStep == (\E n \in Names : Write(n)) \/ CollectResults \/ FinalStatus \/ Return

Next ==
  \/ WorkerStep \/ EndEarly \/ TrimRecord
  \/ \E n \in Names : ChangeByHand(n)
  \/ \E c \in Clients :
       \/ List(c) \/ BeginPreview(c) \/ BeginClean(c) \/ BeginDelete(c)
       \/ \E i \in Indexes : BeginFetch(c, i)
       \/ RequestStep(c)

SafeSpec == Init /\ [][Next]_vars

--------------------------------------------------------------------------------
(* Properties *)

(* "preview that job's outputs, sidecars, and partial files, confirm permanent
   deletion" (README.md:49): a cleanup removes only what its client has been
   shown, with the content it had then, although previews are taken beside a
   cancelled worker that still writes and people change files meanwhile. *)
PreviewedOnly ==
  [][\A c \in Clients : \A n \in request'[c].gone \ request[c].gone :
       n \in DOMAIN preview[c] /\ dir[n] = preview[c][n]]_vars

(* "Deleted outputs must disappear" (handler_files.go:309-310): once a cleanup
   has let go of the files, a result that is listed, or that a link can still
   reach, is there, unless people have meddled with it. *)
Cleaning == \E c \in Clients : Writing(c) /\ request[c].gone # {}

LinksAreLive ==
  ~Cleaning => \A i \in 1 .. Len(paths) :
    IF paths[i] = NoFile THEN i \notin files ELSE dir[paths[i]] > 0 \/ paths[i] \in byHand

(* "Keep stable result indexes" (handler_files.go:309): the file sent is the
   one the client chose in its list, however old, and no cleanup removes it
   meanwhile. *)
SentIsListed ==
  \A c \in Clients : request[c].at = "sending" =>
    /\ request[c].name = links[c][request[c].index]
    /\ dir[request[c].name] > 0 \/ request[c].name \in byHand
================================================================================
